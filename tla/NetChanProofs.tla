--------------------------- MODULE NetChanProofs ---------------------------
(***************************************************************************)
(* Theorems about one connection of a net-chan, for any set of messages,   *)
(* any way the stream may break, with and without PINGs.                   *)
(***************************************************************************)
EXTENDS NetChanProps, TLAPS

(* Before the handshake of the sender is over, PipeWorldSend is not running. *)
NotYetSending == loop["S"] \in {"connect", "accept", "opened"} => pipe = "off"

TypeInv == TypeOK /\ NotYetSending

-----------------------------------------------------------------------------
(***************************************************************************)
(* Type correctness                                                        *)
(***************************************************************************)

(* The empty connection has the types. *)
LEMMA TypeInit == Init => TypeInv
  <1> SUFFICES ASSUME Init PROVE TypeInv
    OBVIOUS
  <1>1. ConnectionOK
    BY DEF Init, ConnectionOK, Side, LoopStates
  <1>2. WorldOK
    <2>1. queue \in Seq(Messages) /\ closes \in [Closer -> {"none", "poll", "done"}]
      BY DEF Init
    <2>2. closeTask = "none" /\ ~addingDone /\ addingDone \in BOOLEAN
      BY DEF Init
    <2> QED
      BY <2>1, <2>2 DEF WorldOK
  <1>3. SenderOK
    BY DEF Init, SenderOK, AtMostOne
  <1>4. ReceiverOK
    BY DEF Init, ReceiverOK, AtMostOne, Side
  <1>5. NotYetSending
    BY DEF Init, NotYetSending
  <1> QED
    BY <1>1, <1>2, <1>3, <1>4, <1>5 DEF TypeInv, TypeOK

(* A write leaves packets on their way. *)
LEMMA WriteType ==
  ASSUME ConnectionOK, NEW x \in Side, NEW packet \in Packet, NEW result,
         Write(x, packet, result)
  PROVE  wire' \in [Side -> Seq(Packet)]
  BY DEF ConnectionOK, Write, Side, Other

(* So does taking the first, which is one. *)
LEMMA ConsumeType ==
  ASSUME ConnectionOK, NEW x \in Side, wire[x] # <<>>
  PROVE  /\ Head(wire[x]) \in Packet
         /\ Tail(wire[x]) \in Seq(Packet)
         /\ Consume(x) => wire' \in [Side -> Seq(Packet)]
  <1>1. wire[x] \in Seq(Packet)
    BY DEF ConnectionOK
  <1>2. Head(wire[x]) \in Packet /\ Tail(wire[x]) \in Seq(Packet)
    BY <1>1
  <1> QED
    BY <1>2 DEF ConnectionOK, Consume

LEMMA OtherSide == \A x \in Side : Other(x) \in Side /\ Other(x) # x /\ Other(Other(x)) = x
  BY DEF Side, Other

LEMMA SimpleType == \A op \in {"OPEN", "ACK", "PING", "PONG", "CLOSE", "ERR"} : Simple(op) \in Packet
  BY DEF Simple, Packet

(* So does taking the first and answering it. *)
Answer(x, packets) ==
  wire' = [wire EXCEPT ![x] = Tail(wire[x]), ![Other(x)] = packets]

LEMMA AnswerType ==
  ASSUME ConnectionOK, NEW x \in Side, wire[x] # <<>>, NEW packets \in Seq(Packet), Answer(x, packets)
  PROVE  wire' \in [Side -> Seq(Packet)]
  <1>1. [wire EXCEPT ![x] = Tail(wire[x])] \in [Side -> Seq(Packet)]
    BY ConsumeType DEF ConnectionOK
  <1> QED
    BY <1>1 DEF Answer

(* The loops of a side start after its handshake. *)
LEMMA StartedType ==
  ASSUME TypeInv, NEW x \in Side, loop[x] \in {"accept", "opened"}, Started(x),
         UNCHANGED <<client, current, userClose, sendTask, written, receiverVars>>
  PROVE  /\ SenderOK' /\ ReceiverOK' /\ NotYetSending'
         /\ loop' \in [Side -> LoopStates]
         /\ ping' \in {"off", "wait", "timedout", "ended", "failed"}
  <1> USE DEF TypeInv, TypeOK, receiverVars
  <1>1. loop' = [loop EXCEPT ![x] = ReceiveHeader(x)] /\ ReceiveHeader(x) \in {"reading", "ended"}
    BY DEF Started, ReceiveHeader
  <1>2. loop' \in [Side -> LoopStates]
    BY <1>1 DEF ConnectionOK, LoopStates
  <1>3. ReceiverOK'
    BY <1>1 DEF ConnectionOK, ReceiverOK
  <1>4. x = "S" => pipe = "off"
    BY DEF NotYetSending
  <1>5. SenderOK' /\ NotYetSending'
    <2>1. CASE x = "S"
      BY <1>1, <1>4, <2>1 DEF Started, ConnectionOK, SenderOK, NotYetSending
    <2>2. CASE x # "S"
      BY <1>1, <2>2 DEF Started, ConnectionOK, SenderOK, NotYetSending
    <2> QED
      BY <2>1, <2>2
  <1> QED
    BY <1>2, <1>3, <1>5 DEF Started, ConnectionOK

(* The loops start: the connection keeps its types. *)
LEMMA TypeHandshake == TypeInv /\ Handshake => TypeInv'
  <1> SUFFICES ASSUME TypeInv, Handshake PROVE TypeInv'
    OBVIOUS
  <1> USE DEF TypeInv, TypeOK, senderVars, worldVars, receiverVars, connVars, pingVars
  <1>1. CASE HandshakeClientOpen
    <2>1. wire' \in [Side -> Seq(Packet)]
      BY <1>1, WriteType, SimpleType DEF HandshakeClientOpen, ConnectionOK
    <2>2. ConnectionOK'
      BY <1>1, <2>1 DEF HandshakeClientOpen, ConnectionOK, LoopStates
    <2>3. (WorldOK /\ SenderOK)'
      BY <1>1 DEF HandshakeClientOpen, WorldOK, SenderOK
    <2>4. ReceiverOK' /\ NotYetSending'
      BY <1>1 DEF HandshakeClientOpen, ConnectionOK, ReceiverOK, NotYetSending
    <2> QED
      BY <2>2, <2>3, <2>4
  <1>2. CASE HandshakeServer
    <2> DEFINE server == Other(client)
    <2>1. server \in Side /\ Other(server) = client /\ loop[server] = "accept" /\ wire[server] # <<>>
      BY <1>2, OtherSide DEF HandshakeServer, ConnectionOK
    <2>2. wire' \in [Side -> Seq(Packet)]
      <3>1. wire[client] \in Seq(Packet) /\ client # server /\ client \in Side
        BY <2>1, OtherSide DEF ConnectionOK
      <3>2. PICK result \in WriteResults(server) :
              wire' = [wire EXCEPT
                ![server] = Tail(@),
                ![client] = IF result = "ok" /\ ~broken
                              THEN Append(@, Simple(IF keyMatches THEN "ACK" ELSE "ERR")) ELSE @]
        BY <1>2 DEF HandshakeServer
      <3>3. CASE result = "ok" /\ ~broken
        <4>1. Simple(IF keyMatches THEN "ACK" ELSE "ERR") \in Packet
          BY SimpleType
        <4>2. Append(wire[client], Simple(IF keyMatches THEN "ACK" ELSE "ERR")) \in Seq(Packet)
          BY <3>1, <4>1
        <4>3. Answer(server, Append(wire[client], Simple(IF keyMatches THEN "ACK" ELSE "ERR")))
          BY <2>1, <3>1, <3>2, <3>3 DEF Answer, ConnectionOK
        <4> QED
          BY <2>1, <4>2, <4>3, AnswerType
      <3>4. CASE ~(result = "ok" /\ ~broken)
        <4>1. Answer(server, wire[client])
          BY <2>1, <3>1, <3>2, <3>4 DEF Answer, ConnectionOK
        <4> QED
          BY <2>1, <3>1, <4>1, AnswerType
      <3> QED
        BY <3>3, <3>4
    <2>3. WorldOK'
      BY <1>2 DEF HandshakeServer, WorldOK
    <2>4. CASE Started(server)
      <3>1. UNCHANGED <<client, current, userClose, sendTask, written, receiverVars>>
        BY <1>2 DEF HandshakeServer
      <3>2. SenderOK' /\ ReceiverOK' /\ NotYetSending' /\ loop' \in [Side -> LoopStates]
            /\ ping' \in {"off", "wait", "timedout", "ended", "failed"}
        BY <2>1, <2>4, <3>1, StartedType
      <3> QED
        BY <1>2, <2>2, <2>3, <3>2 DEF HandshakeServer, ConnectionOK
    <2>5. CASE loop' = [loop EXCEPT ![server] = "failed"] /\ UNCHANGED <<ping, pipe, start>>
      <3>1. ConnectionOK'
        BY <1>2, <2>2, <2>5 DEF HandshakeServer, ConnectionOK, LoopStates
      <3>2. SenderOK'
        BY <1>2, <2>5 DEF HandshakeServer, SenderOK
      <3>3. ReceiverOK' /\ NotYetSending'
        BY <1>2, <2>1, <2>5 DEF HandshakeServer, ConnectionOK, ReceiverOK, NotYetSending
      <3> QED
        BY <2>3, <3>1, <3>2, <3>3
    <2> QED
      BY <1>2, <2>4, <2>5 DEF HandshakeServer
  <1>3. CASE HandshakeClientAck
    <2>1. client \in Side /\ loop[client] = "opened" /\ wire[client] # <<>> /\ Consume(client)
      BY <1>3 DEF HandshakeClientAck, ConnectionOK
    <2>2. wire' \in [Side -> Seq(Packet)]
      BY <2>1, ConsumeType
    <2>3. WorldOK'
      BY <1>3 DEF HandshakeClientAck, WorldOK
    <2>4. CASE Started(client) /\ UNCHANGED token
      <3>1. UNCHANGED <<client, current, userClose, sendTask, written, receiverVars>>
        BY <1>3 DEF HandshakeClientAck
      <3>2. SenderOK' /\ ReceiverOK' /\ NotYetSending' /\ loop' \in [Side -> LoopStates]
            /\ ping' \in {"off", "wait", "timedout", "ended", "failed"}
        BY <2>1, <2>4, <3>1, StartedType
      <3> QED
        BY <1>3, <2>2, <2>3, <2>4, <3>2 DEF HandshakeClientAck, ConnectionOK
    <2>5. CASE /\ loop' = [loop EXCEPT ![client] = "failed"]
               /\ token' = [token EXCEPT ![client] = FALSE]
               /\ UNCHANGED <<ping, pipe, start>>
      <3>1. ConnectionOK'
        BY <1>3, <2>2, <2>5 DEF HandshakeClientAck, ConnectionOK, LoopStates
      <3>2. SenderOK'
        BY <1>3, <2>5 DEF HandshakeClientAck, SenderOK
      <3>3. ReceiverOK' /\ NotYetSending'
        BY <1>3, <2>1, <2>5 DEF HandshakeClientAck, ConnectionOK, ReceiverOK, NotYetSending
      <3> QED
        BY <2>3, <3>1, <3>2, <3>3
    <2> QED
      BY <1>3, <2>4, <2>5 DEF HandshakeClientAck
  <1> QED
    BY <1>1, <1>2, <1>3 DEF Handshake
(* Both receive loops: what each has read is taken from the stream, and what *)
(* it leads to are the states of the loop.                                 *)
LEMMA TypeLoop == ASSUME TypeInv, NEW x \in Side, LoopStep(x) PROVE TypeInv'
  <1> USE DEF TypeInv, TypeOK, senderVars, worldVars, receiverVars, connVars, pingVars
  <1>1. ASSUME wire' \in [Side -> Seq(Packet)], loop[x] \in {"accept", "opened", "reading"},
               NEW next \in {"reading", "ended", "failed"}, next = "reading" => loop[x] = "reading",
               loop' = [loop EXCEPT ![x] = next], token' \in [Side -> BOOLEAN], pong' \in BOOLEAN,
               UNCHANGED <<connVars, stream, ping, senderVars, receiverVars>>
        PROVE  TypeInv'
    <2>1. ConnectionOK'
      BY <1>1 DEF ConnectionOK, LoopStates
    <2>2. WorldOK'
      BY <1>1 DEF WorldOK
    <2>3. SenderOK'
      BY <1>1 DEF SenderOK
    <2>4. ReceiverOK'
      BY <1>1 DEF ConnectionOK, ReceiverOK
    <2>5. NotYetSending'
      BY <1>1 DEF ConnectionOK, NotYetSending
    <2> QED
      BY <2>1, <2>2, <2>3, <2>4, <2>5
  <1>2. ReceiveHeader(x) \in {"reading", "ended"}
    BY DEF ReceiveHeader
  <1>3. CASE EndOfStream(x)
    BY <1>1, <1>3 DEF EndOfStream, ConnectionOK
  <1>4. CASE OnPingReceived(x)
    <2>1. loop[x] = "reading" /\ wire[x] # <<>>
      BY <1>4 DEF OnPingReceived, Reads
    <2>2. wire[Other(x)] \in Seq(Packet) /\ Other(x) # x /\ Other(x) \in Side /\ Simple("PONG") \in Packet
      BY OtherSide, SimpleType DEF ConnectionOK
    <2>3. PICK result \in WriteResults(x) :
            /\ wire' = [wire EXCEPT ![x] = Tail(@),
                                    ![Other(x)] = IF result = "ok" /\ ~broken
                                                    THEN Append(@, Simple("PONG")) ELSE @]
            /\ loop' = [loop EXCEPT ![x] = CASE result = "ok" -> "reading"
                                             [] result = "cancelled" -> "ended"
                                             [] result = "failed" -> "failed"]
      BY <1>4 DEF OnPingReceived
    <2>4. wire' \in [Side -> Seq(Packet)]
      <3>1. CASE result = "ok" /\ ~broken
        <4>1. Append(wire[Other(x)], Simple("PONG")) \in Seq(Packet)
          BY <2>2
        <4>2. Answer(x, Append(wire[Other(x)], Simple("PONG")))
          BY <2>2, <2>3, <3>1 DEF Answer, ConnectionOK
        <4> QED
          BY <2>1, <4>1, <4>2, AnswerType
      <3>2. CASE ~(result = "ok" /\ ~broken)
        <4>1. Answer(x, wire[Other(x)])
          BY <2>2, <2>3, <3>2 DEF Answer, ConnectionOK
        <4> QED
          BY <2>1, <2>2, <4>1, AnswerType
      <3> QED
        BY <3>1, <3>2
    <2>5. PICK next \in {"reading", "ended", "failed"} : loop' = [loop EXCEPT ![x] = next]
      BY <2>3 DEF WriteResults
    <2> QED
      BY <1>1, <1>4, <2>1, <2>4, <2>5 DEF OnPingReceived, ConnectionOK
  <1>5. CASE OnPongReceived(x)
    <2>1. loop[x] = "reading" /\ wire[x] # <<>> /\ Consume(x)
      BY <1>5 DEF OnPongReceived, Reads
    <2>2. wire' \in [Side -> Seq(Packet)]
      BY <2>1, ConsumeType
    <2> QED
      BY <1>1, <1>2, <1>5, <2>1, <2>2 DEF OnPongReceived, ConnectionOK
  <1>6. CASE OnAckReceived(x)
    <2>1. loop[x] = "reading" /\ wire[x] # <<>> /\ Consume(x)
      BY <1>6 DEF OnAckReceived, Reads
    <2>2. wire' \in [Side -> Seq(Packet)]
      BY <2>1, ConsumeType
    <2> QED
      BY <1>1, <1>2, <1>6, <2>1, <2>2 DEF OnAckReceived, ConnectionOK
  <1>7. CASE OnErrReceived(x)
    <2>1. loop[x] = "reading" /\ wire[x] # <<>> /\ Consume(x)
      BY <1>7 DEF OnErrReceived, Reads
    <2>2. wire' \in [Side -> Seq(Packet)]
      BY <2>1, ConsumeType
    <2> QED
      BY <1>1, <1>7, <2>1, <2>2 DEF OnErrReceived, ConnectionOK
  <1> QED
    BY <1>3, <1>4, <1>5, <1>6, <1>7 DEF LoopStep

(* Whoever calls world.Close, the first call gives the task. *)
LEMMA CloseWorldType ==
  ASSUME WorldOK, NEW k \in Closer, CloseWorld(k), UNCHANGED queue
  PROVE  WorldOK'
  <1>1. k # "none"
    BY DEF Closer
  <1>2. closeTask' \in Closer /\ closeTask' # "none"
    BY <1>1 DEF WorldOK, CloseWorld, Closer
  <1>3. addingDone' = TRUE /\ closes' \in [Closer -> {"none", "poll", "done"}]
    BY DEF WorldOK, CloseWorld
  <1> QED
    BY <1>2, <1>3 DEF WorldOK
LEMMA TypeSenderLoop == TypeInv /\ (SenderOnCloseReceived \/ SenderLoopEnd) => TypeInv'
  <1> SUFFICES ASSUME TypeInv, SenderOnCloseReceived \/ SenderLoopEnd PROVE TypeInv'
    OBVIOUS
  <1> USE DEF TypeInv, TypeOK, senderVars, worldVars, receiverVars, connVars, pingVars
  <1>1. CASE SenderOnCloseReceived
    <2>1. loop["S"] = "reading" /\ wire["S"] # <<>> /\ Consume("S") /\ "S" \in Side
      BY <1>1 DEF SenderOnCloseReceived, Reads, Side
    <2>2. wire' \in [Side -> Seq(Packet)]
      BY <2>1, ConsumeType
    <2>3. ConnectionOK'
      BY <1>1, <2>2 DEF SenderOnCloseReceived, ConnectionOK, LoopStates
    <2>4. WorldOK'
      BY <1>1, CloseWorldType DEF SenderOnCloseReceived, Closer
    <2>5. SenderOK'
      BY <1>1 DEF SenderOnCloseReceived, SenderOK
    <2>6. ReceiverOK' /\ NotYetSending'
      BY <1>1, <2>1 DEF SenderOnCloseReceived, ConnectionOK, ReceiverOK, NotYetSending
    <2> QED
      BY <2>3, <2>4, <2>5, <2>6
  <1>2. CASE SenderLoopEnd
    <2>1. ConnectionOK' /\ WorldOK'
      BY <1>2 DEF SenderLoopEnd, ConnectionOK, WorldOK, LoopStates
    <2>2. SenderOK'
      BY <1>2 DEF SenderLoopEnd, SenderOK
    <2>3. ReceiverOK' /\ NotYetSending'
      BY <1>2 DEF SenderLoopEnd, ConnectionOK, ReceiverOK, NotYetSending
    <2> QED
      BY <2>1, <2>2, <2>3
  <1> QED
    BY <1>1, <1>2

LEMMA TypePingLoop == TypeInv /\ PingLoop => TypeInv'
  <1> SUFFICES ASSUME TypeInv, PingLoop PROVE TypeInv'
    OBVIOUS
  <1> USE DEF TypeInv, TypeOK, senderVars, worldVars, receiverVars, connVars, pingVars
  <1>1. wire' \in [Side -> Seq(Packet)]
    BY WriteType, SimpleType DEF PingLoop, SendPing, PingTimeout, PingEnd, ConnectionOK
  <1>2. ConnectionOK'
    BY <1>1 DEF PingLoop, SendPing, PingTimeout, PingEnd, ConnectionOK
  <1>3. WorldOK'
    BY DEF PingLoop, SendPing, PingTimeout, PingEnd, WorldOK
  <1>4. SenderOK'
    BY DEF PingLoop, SendPing, PingTimeout, PingEnd, SenderOK
  <1>5. ReceiverOK' /\ NotYetSending'
    BY DEF PingLoop, SendPing, PingTimeout, PingEnd, ReceiverOK, NotYetSending
  <1> QED
    BY <1>2, <1>3, <1>4, <1>5

(* What PipeWorldSend holds is a message of the world. *)
LEMMA TypePipe == TypeInv /\ PipeWorldSend => TypeInv'
  <1> SUFFICES ASSUME TypeInv, PipeWorldSend PROVE TypeInv'
    OBVIOUS
  <1> USE DEF TypeInv, TypeOK, senderVars, worldVars, receiverVars, connVars, pingVars
  <1>1. CASE PipeReceive
    <2>1. queue # <<>> => Head(queue) \in Messages /\ Tail(queue) \in Seq(Messages)
      BY DEF WorldOK
    <2>2. ConnectionOK' /\ ReceiverOK' /\ NotYetSending'
      BY <1>1 DEF PipeReceive, ConnectionOK, ReceiverOK, NotYetSending
    <2>3. WorldOK'
      BY <1>1, <2>1 DEF PipeReceive, WorldOK
    <2>4. SenderOK'
      <3>1. CASE queue = <<>>
        BY <1>1, <3>1 DEF PipeReceive, SenderOK
      <3>2. CASE queue # <<>>
        <4>1. pipe' = "send" /\ current' = <<Head(queue)>>
          BY <1>1, <3>2 DEF PipeReceive
        <4>2. current' \in AtMostOne(Messages) /\ current' # <<>>
          BY <2>1, <3>2, <4>1 DEF AtMostOne
        <4>3. UNCHANGED <<start, userClose, sendTask, written>>
          BY <1>1 DEF PipeReceive
        <4> QED
          BY <4>1, <4>2, <4>3 DEF SenderOK
      <3> QED
        BY <3>1, <3>2
    <2> QED
      BY <2>2, <2>3, <2>4
  <1>2. CASE PipeSend
    <2>1. current # <<>> /\ Head(current) \in Messages
      BY <1>2 DEF PipeSend, SenderOK, AtMostOne
    <2>2. PICK result \in WriteResults("S") \cup {"failed"} :
            /\ Write("S", Msg(Head(current)), result)
            /\ written' = IF result = "ok" THEN Append(written, Head(current)) ELSE written
            /\ sendTask' = [sendTask EXCEPT ![Head(current)] = SendOutcome(result)]
            /\ pipe' = AfterSend(result)
      BY <1>2 DEF PipeSend
    <2>3. wire' \in [Side -> Seq(Packet)]
      BY <2>1, <2>2, WriteType DEF Msg, Packet, Side
    <2>4. ConnectionOK' /\ WorldOK' /\ ReceiverOK' /\ NotYetSending'
      BY <1>2, <2>3 DEF PipeSend, ConnectionOK, WorldOK, ReceiverOK, NotYetSending
    <2>5. SenderOK'
      <3>1. pipe' \in {"receive", "close", "failed"} /\ SendOutcome(result) \in {"ok", "failed"}
        BY <2>2 DEF AfterSend, SendOutcome, WriteResults
      <3>2. written' \in Seq(Messages)
        BY <2>1, <2>2 DEF SenderOK
      <3>3. sendTask' \in [Messages -> {"none", "open", "ok", "failed", "cancelled"}]
        BY <2>2, <3>1 DEF SenderOK
      <3> QED
        BY <1>2, <3>1, <3>2, <3>3 DEF PipeSend, SenderOK, AtMostOne
    <2> QED
      BY <2>4, <2>5
  <1>3. CASE PipeClose
    <2>1. wire' \in [Side -> Seq(Packet)]
      BY <1>3, WriteType, SimpleType DEF PipeClose, Side
    <2>2. ConnectionOK' /\ WorldOK' /\ ReceiverOK' /\ NotYetSending'
      BY <1>3, <2>1 DEF PipeClose, ConnectionOK, WorldOK, ReceiverOK, NotYetSending
    <2>3. SenderOK'
      BY <1>3 DEF PipeClose, SenderOK
    <2> QED
      BY <2>2, <2>3
  <1> QED
    BY <1>1, <1>2, <1>3 DEF PipeWorldSend

(* Closing the sender, by StartSender and by its owner. *)
LEMMA TypeClose == TypeInv /\ (StartSender \/ SenderClose \/ UserClose) => TypeInv'
  <1> SUFFICES ASSUME TypeInv, StartSender \/ SenderClose \/ UserClose PROVE TypeInv'
    OBVIOUS
  <1> USE DEF TypeInv, TypeOK, senderVars, worldVars, receiverVars, connVars, pingVars
  <1>1. CASE StartClose \/ UserClose
    <2>1. ConnectionOK' /\ ReceiverOK' /\ NotYetSending'
      BY <1>1 DEF StartClose, UserClose, ConnectionOK, ReceiverOK, NotYetSending
    <2>2. WorldOK'
      BY <1>1, CloseWorldType DEF StartClose, UserClose, Closer
    <2>3. SenderOK'
      BY <1>1 DEF StartClose, UserClose, SenderOK
    <2> QED
      BY <2>1, <2>2, <2>3
  <1>2. CASE StartCancel \/ StartEnd \/ UserCloseCancel
    <2>1. token' \in [Side -> BOOLEAN]
      BY <1>2 DEF StartCancel, StartEnd, UserCloseCancel, ConnectionOK
    <2>2. ConnectionOK' /\ WorldOK'
      BY <1>2, <2>1 DEF StartCancel, StartEnd, UserCloseCancel, ConnectionOK, WorldOK
    <2>3. ReceiverOK' /\ NotYetSending'
      BY <1>2 DEF StartCancel, StartEnd, UserCloseCancel, ReceiverOK, NotYetSending
    <2>4. SenderOK'
      BY <1>2 DEF StartCancel, StartEnd, UserCloseCancel, SenderOK
    <2> QED
      BY <2>2, <2>3, <2>4
  <1>3. ASSUME NEW k \in Closer, CloseWorldEnd(k) PROVE TypeInv'
    <2>1. ConnectionOK' /\ ReceiverOK' /\ NotYetSending'
      BY <1>3 DEF CloseWorldEnd, ConnectionOK, ReceiverOK, NotYetSending
    <2>2. WorldOK'
      BY <1>3 DEF CloseWorldEnd, WorldOK
    <2>3. SenderOK'
      BY <1>3 DEF CloseWorldEnd, SenderOK
    <2> QED
      BY <2>1, <2>2, <2>3
  <1> QED
    BY <1>1, <1>2, <1>3 DEF StartSender, SenderClose

LEMMA TypeSend == ASSUME TypeInv, NEW m \in Messages, SendAsync(m) PROVE TypeInv'
  <1> USE DEF TypeInv, TypeOK, senderVars, worldVars, receiverVars, connVars, pingVars
  <1>1. ConnectionOK' /\ ReceiverOK' /\ NotYetSending'
    BY DEF SendAsync, ConnectionOK, ReceiverOK, NotYetSending
  <1>2. WorldOK'
    BY DEF SendAsync, WorldOK
  <1>3. SenderOK'
    BY DEF SendAsync, SenderOK, AtMostOne
  <1> QED
    BY <1>1, <1>2, <1>3

(* The world of the receiver holds an item until the consumer has it. *)
LEMMA DeliverType ==
  ASSUME TypeInv, loop["R"] # "deliver", NEW item \in Messages \cup {Fault}, Deliver(item)
  PROVE  loop' \in [Side -> LoopStates] /\ loop'["S"] = loop["S"] /\ ReceiverOK'
  <1> USE DEF TypeInv, TypeOK
  <1>1. "R" \in Side /\ "S" \in Side /\ "deliver" \in LoopStates /\ inWorld = <<>>
    BY DEF Side, LoopStates, ReceiverOK
  <1>2. CASE receive = "pending"
    <2>1. got' = Append(got, item) /\ receive' = "idle" /\ inWorld' = <<>>
      BY <1>1, <1>2 DEF Deliver
    <2>2. PICK next \in AfterDelivery(item) : loop' = [loop EXCEPT !["R"] = next]
      BY <1>2 DEF Deliver
    <2>3. next \in LoopStates /\ next # "deliver"
      BY <2>2 DEF AfterDelivery, LoopStates
    <2>4. got' \in Seq(Messages \cup {Fault})
      BY <2>1 DEF ReceiverOK
    <2>5. loop' \in [Side -> LoopStates] /\ loop'["S"] = loop["S"] /\ loop'["R"] # "deliver"
      BY <1>1, <2>2, <2>3 DEF ConnectionOK
    <2> QED
      BY <2>1, <2>4, <2>5 DEF ReceiverOK, AtMostOne
  <1>3. CASE receive # "pending"
    <2>1. inWorld' = <<item>> /\ loop' = [loop EXCEPT !["R"] = "deliver"] /\ UNCHANGED <<receive, got>>
      BY <1>3 DEF Deliver
    <2>2. inWorld' \in AtMostOne(Messages \cup {Fault}) /\ inWorld' # <<>>
      BY <2>1 DEF AtMostOne
    <2>3. loop' \in [Side -> LoopStates] /\ loop'["S"] = loop["S"] /\ loop'["R"] = "deliver"
      BY <1>1, <2>1 DEF ConnectionOK
    <2> QED
      BY <2>1, <2>2, <2>3 DEF ReceiverOK
  <1> QED
    BY <1>2, <1>3

(* What an exception leaves on the wires and in the loop. *)
LEMMA FaultIs ==
  ASSUME NEW packets \in [Side -> Seq(Packet)], SendFault(packets)
  PROVE  /\ \/ wire' = packets
            \/ wire' = [packets EXCEPT !["S"] = Append(@, Simple("ERR"))]
         /\ \/ Deliver(Fault)
            \/ /\ UNCHANGED receiverVars
               /\ \E next \in {"ended", "failed"} : loop' = [loop EXCEPT !["R"] = next]
  <1>1. PICK result \in WriteResults("R") :
          /\ wire' = IF result = "ok" /\ ~broken
                       THEN [packets EXCEPT !["S"] = Append(@, Simple("ERR"))] ELSE packets
          /\ IF result = "ok"
               THEN Deliver(Fault)
               ELSE /\ loop' = [loop EXCEPT !["R"] = IF result = "cancelled" THEN "ended" ELSE "failed"]
                    /\ UNCHANGED receiverVars
    BY DEF SendFault
  <1> QED
    BY <1>1

(* Where OnMsgReceived and what it awaits take the loop, and what they write. *)
AfterMsg == {"deliver", "callback", "ack", "leaving", "ended", "failed"}

LEMMA DeliverLoop ==
  ASSUME NEW item, Deliver(item)
  PROVE  \E next \in AfterMsg : loop' = [loop EXCEPT !["R"] = next]
  <1>1. AfterDelivery(item) \subseteq AfterMsg
    BY DEF AfterDelivery, AfterMsg
  <1> QED
    BY <1>1 DEF Deliver, AfterMsg

LEMMA FaultLoop ==
  ASSUME NEW packets, SendFault(packets)
  PROVE  \E next \in AfterMsg : loop' = [loop EXCEPT !["R"] = next]
  <1>1. CASE Deliver(Fault)
    BY <1>1, DeliverLoop
  <1>2. CASE \E next \in {"ended", "failed"} : loop' = [loop EXCEPT !["R"] = next]
    BY <1>2 DEF AfterMsg
  <1> QED
    BY <1>1, <1>2 DEF SendFault

LEMMA MsgLoop ==
  ASSUME OnMsgReceived \/ CallbackEnds
  PROVE  \E next \in AfterMsg : loop' = [loop EXCEPT !["R"] = next]
  <1>1. ASSUME \E item : Deliver(item) PROVE \E next \in AfterMsg : loop' = [loop EXCEPT !["R"] = next]
    BY <1>1, DeliverLoop
  <1>2. ASSUME \E packets : SendFault(packets) PROVE \E next \in AfterMsg : loop' = [loop EXCEPT !["R"] = next]
    BY <1>2, FaultLoop
  <1>3. CASE \E next \in {"ack", "ended"} : loop' = [loop EXCEPT !["R"] = next]
    BY <1>3 DEF AfterMsg
  <1>4. \/ \E item : Deliver(item)
        \/ \E packets : SendFault(packets)
        \/ \E next \in {"ack", "ended"} : loop' = [loop EXCEPT !["R"] = next]
    BY DEF OnMsgReceived, CallbackEnds
  <1> QED
    BY <1>1, <1>2, <1>3, <1>4

LEMMA FaultType ==
  ASSUME TypeInv, loop["R"] # "deliver", NEW packets \in [Side -> Seq(Packet)], SendFault(packets)
  PROVE  /\ wire' \in [Side -> Seq(Packet)]
         /\ loop' \in [Side -> LoopStates] /\ loop'["S"] = loop["S"] /\ ReceiverOK'
  <1>1. wire' \in [Side -> Seq(Packet)]
    <2>1. Append(packets["S"], Simple("ERR")) \in Seq(Packet)
      BY SimpleType DEF Side
    <2> QED
      BY <2>1, FaultIs DEF Side
  <1>2. CASE Deliver(Fault)
    BY <1>1, <1>2, DeliverType
  <1>3. CASE UNCHANGED receiverVars /\ \E next \in {"ended", "failed"} : loop' = [loop EXCEPT !["R"] = next]
    BY <1>1, <1>3 DEF TypeInv, TypeOK, ConnectionOK, ReceiverOK, receiverVars, LoopStates, Side
  <1> QED
    BY <1>2, <1>3, FaultIs

LEMMA TypeMsg == TypeInv /\ OnMsgReceived => TypeInv'
  <1> SUFFICES ASSUME TypeInv, OnMsgReceived PROVE TypeInv'
    OBVIOUS
  <1> USE DEF TypeInv, TypeOK, senderVars, worldVars, receiverVars, connVars, pingVars
  <1> DEFINE m == Head(wire["R"]).msg
  <1>1. "R" \in Side /\ "S" \in Side /\ loop["R"] = "reading" /\ wire["R"] # <<>> /\ Head(wire["R"]).op = "MSG"
    BY DEF OnMsgReceived, Reads, Side
  <1>2. m \in Messages
    <2>1. Head(wire["R"]) \in Packet
      BY <1>1, ConsumeType
    <2> QED
      BY <1>1, <2>1 DEF Packet
  <1>3. UNCHANGED <<connVars, stream, token, pingVars, senderVars>>
    BY DEF OnMsgReceived
  <1>4. ASSUME wire' \in [Side -> Seq(Packet)], loop' \in [Side -> LoopStates],
               loop'["S"] = loop["S"], ReceiverOK'
        PROVE  TypeInv'
    <2>1. ConnectionOK'
      BY <1>3, <1>4 DEF ConnectionOK
    <2>2. WorldOK' /\ SenderOK'
      BY <1>3 DEF WorldOK, SenderOK
    <2>3. NotYetSending'
      BY <1>3, <1>4 DEF NotYetSending
    <2> QED
      BY <1>4, <2>1, <2>2, <2>3
  <1>5. ASSUME wire' \in [Side -> Seq(Packet)], NEW next \in {"ended", "failed"},
               loop' = [loop EXCEPT !["R"] = next], UNCHANGED receiverVars
        PROVE  TypeInv'
    BY <1>1, <1>4, <1>5 DEF ConnectionOK, ReceiverOK, LoopStates
  <1>6. CASE Consume("R") /\ loop' = [loop EXCEPT !["R"] = "ended"] /\ UNCHANGED receiverVars
    BY <1>1, <1>5, <1>6, ConsumeType
  <1>7. CASE Consume("R") /\ Deliver(m)
    BY <1>1, <1>2, <1>4, <1>7, ConsumeType, DeliverType
  <1>8. CASE SendFault([wire EXCEPT !["R"] = Tail(@)])
    <2>1. PICK packets : packets = [wire EXCEPT !["R"] = Tail(@)]
      OBVIOUS
    <2>2. packets \in [Side -> Seq(Packet)]
      <3>1. Tail(wire["R"]) \in Seq(Packet)
        BY <1>1 DEF ConnectionOK
      <3> QED
        BY <2>1, <3>1 DEF ConnectionOK
    <2>3. SendFault(packets)
      BY <1>8, <2>1
    <2> QED
      BY <1>1, <1>4, <2>2, <2>3, FaultType
  <1> QED
    BY <1>6, <1>7, <1>8 DEF OnMsgReceived

(* The consumer, the ACK, CLOSE and the owner of the receiver. *)
LEMMA TypeReceiver ==
  TypeInv /\ (ReceiveAsync \/ CallbackEnds \/ SendAck \/ ReceiverOnCloseReceived
              \/ StartReceiverClose \/ ReceiverClose) => TypeInv'
  <1> SUFFICES ASSUME TypeInv,
                      ReceiveAsync \/ CallbackEnds \/ SendAck \/ ReceiverOnCloseReceived
                      \/ StartReceiverClose \/ ReceiverClose
               PROVE  TypeInv'
    OBVIOUS
  <1> USE DEF TypeInv, TypeOK, senderVars, worldVars, receiverVars, connVars, pingVars
  <1>1. CASE ReceiveAsync
    <2>1. got \o inWorld \in Seq(Messages \cup {Fault})
      <3>1. inWorld \in Seq(Messages \cup {Fault})
        <4>1. inWorld = <<>> \/ \E item \in Messages \cup {Fault} : inWorld = <<item>>
          BY DEF ReceiverOK, AtMostOne
        <4>2. <<>> \in Seq(Messages \cup {Fault})
          OBVIOUS
        <4>3. \A item \in Messages \cup {Fault} : <<item>> \in Seq(Messages \cup {Fault})
          OBVIOUS
        <4> QED
          BY <4>1, <4>2, <4>3
      <3> QED
        BY <3>1 DEF ReceiverOK
    <2>2. ConnectionOK'
      BY <1>1 DEF ReceiveAsync, AfterDelivery, ConnectionOK, LoopStates
    <2>3. WorldOK' /\ SenderOK'
      BY <1>1 DEF ReceiveAsync, WorldOK, SenderOK
    <2>4. ReceiverOK' /\ NotYetSending'
      BY <1>1, <2>1 DEF ReceiveAsync, AfterDelivery, ConnectionOK, ReceiverOK, NotYetSending, AtMostOne, Side
    <2> QED
      BY <2>2, <2>3, <2>4
  <1>2. CASE SendAck
    <2>1. wire' \in [Side -> Seq(Packet)]
      BY <1>2, WriteType, SimpleType DEF SendAck, Side
    <2>2. PICK next \in {"reading", "ended", "failed"} : loop' = [loop EXCEPT !["R"] = next]
      BY <1>2 DEF SendAck, WriteResults
    <2>3. ConnectionOK'
      BY <1>2, <2>1, <2>2 DEF SendAck, ConnectionOK, LoopStates
    <2>4. WorldOK' /\ SenderOK'
      BY <1>2 DEF SendAck, WorldOK, SenderOK
    <2>5. ReceiverOK' /\ NotYetSending'
      BY <1>2, <2>2 DEF SendAck, ConnectionOK, ReceiverOK, NotYetSending, Side
    <2> QED
      BY <2>3, <2>4, <2>5
  <1>3. CASE ReceiverOnCloseReceived
    <2>1. wire' \in [Side -> Seq(Packet)]
      BY <1>3, ConsumeType DEF ReceiverOnCloseReceived, Reads, Side
    <2>2. ConnectionOK'
      BY <1>3, <2>1 DEF ReceiverOnCloseReceived, ConnectionOK, LoopStates
    <2>3. WorldOK' /\ SenderOK'
      BY <1>3 DEF ReceiverOnCloseReceived, WorldOK, SenderOK
    <2>4. ReceiverOK' /\ NotYetSending'
      BY <1>3 DEF ReceiverOnCloseReceived, Reads, ConnectionOK, ReceiverOK, NotYetSending, Side
    <2> QED
      BY <2>2, <2>3, <2>4
  <1>4. CASE ReceiverClose
    <2>1. wire' \in [Side -> Seq(Packet)]
      BY <1>4, WriteType, SimpleType DEF ReceiverClose, Side
    <2>2. ConnectionOK' /\ WorldOK' /\ NotYetSending'
      BY <1>4, <2>1 DEF ReceiverClose, ConnectionOK, WorldOK, NotYetSending
    <2>3. SenderOK' /\ ReceiverOK'
      BY <1>4 DEF ReceiverClose, SenderOK, ReceiverOK
    <2> QED
      BY <2>2, <2>3
  <1>5. CASE CallbackEnds
    <2>1. wire' \in [Side -> Seq(Packet)] /\ loop' \in [Side -> LoopStates] /\ loop'["S"] = loop["S"] /\ ReceiverOK'
      <3>1. CASE loop' = [loop EXCEPT !["R"] = "ack"] /\ UNCHANGED <<wire, receiverVars>>
        BY <1>5, <3>1 DEF CallbackEnds, ConnectionOK, ReceiverOK, LoopStates, Side
      <3>2. CASE SendFault(wire)
        <4>1. loop["R"] # "deliver" /\ wire \in [Side -> Seq(Packet)]
          BY <1>5 DEF CallbackEnds, ConnectionOK
        <4> QED
          BY <3>2, <4>1, FaultType
      <3> QED
        BY <1>5, <3>1, <3>2 DEF CallbackEnds
    <2>2. ConnectionOK'
      BY <1>5, <2>1 DEF CallbackEnds, ConnectionOK
    <2>3. WorldOK' /\ SenderOK' /\ NotYetSending'
      BY <1>5, <2>1 DEF CallbackEnds, WorldOK, SenderOK, NotYetSending
    <2> QED
      BY <2>1, <2>2, <2>3
  <1>6. CASE StartReceiverClose
    <2>1. wire' \in [Side -> Seq(Packet)]
      BY <1>6, WriteType, SimpleType DEF StartReceiverClose, Side
    <2>2. PICK next \in {"ended", "failed"} : loop' = [loop EXCEPT !["R"] = next]
      BY <1>6 DEF StartReceiverClose
    <2>3. ConnectionOK'
      BY <1>6, <2>1, <2>2 DEF StartReceiverClose, ConnectionOK, LoopStates
    <2>4. WorldOK' /\ SenderOK'
      BY <1>6 DEF StartReceiverClose, WorldOK, SenderOK
    <2>5. ReceiverOK' /\ NotYetSending'
      BY <1>6, <2>2 DEF StartReceiverClose, ConnectionOK, ReceiverOK, NotYetSending, Side
    <2> QED
      BY <2>3, <2>4, <2>5
  <1> QED
    BY <1>1, <1>2, <1>3, <1>4, <1>5, <1>6

LEMMA TypeBreak == TypeInv /\ (Break \/ UNCHANGED vars) => TypeInv'
  <1> SUFFICES ASSUME TypeInv, Break \/ UNCHANGED vars PROVE TypeInv'
    OBVIOUS
  <1> USE DEF TypeInv, TypeOK, senderVars, worldVars, receiverVars, connVars, pingVars, vars
  <1>1. wire' \in [Side -> Seq(Packet)] /\ stream' \in {"up", "closed", "silent"}
    <2>1. CASE Break
      <3>1. stream' \in {"up", "closed", "silent"}
        BY <2>1, MessageAssumption DEF Break, MessageAssumption
      <3>2. wire' = wire \/ wire' = [x \in Side |-> <<>>]
        BY <2>1 DEF Break
      <3>3. <<>> \in Seq(Packet)
        OBVIOUS
      <3>4. [x \in Side |-> <<>>] \in [Side -> Seq(Packet)]
        BY <3>3
      <3> QED
        BY <3>1, <3>2, <3>4 DEF ConnectionOK
    <2>2. CASE UNCHANGED vars
      BY <2>2 DEF ConnectionOK
    <2> QED
      BY <2>1, <2>2
  <1>2. ConnectionOK'
    BY <1>1 DEF Break, ConnectionOK
  <1>3. WorldOK'
    BY DEF Break, WorldOK
  <1>4. SenderOK'
    BY DEF Break, SenderOK
  <1>5. ReceiverOK' /\ NotYetSending'
    BY DEF Break, ReceiverOK, NotYetSending
  <1> QED
    BY <1>2, <1>3, <1>4, <1>5

LEMMA TypeNext == TypeInv /\ [Next]_vars => TypeInv'
  BY TypeHandshake, TypeLoop, TypeSenderLoop, TypePingLoop, TypePipe, TypeClose, TypeSend,
     TypeMsg, TypeReceiver, TypeBreak
  DEF Next, SenderLoop, ReceiverLoop, Side

LEMMA TypeInvariant == Spec => []TypeInv
  BY TypeInit, TypeNext, PTL DEF Spec

(* TypeOK holds of every connection: the control states that exclude each  *)
(* other do so whatever the messages and however the stream breaks.        *)
THEOREM TypeCorrect == Spec => []TypeOK
  BY TypeInvariant, PTL DEF TypeInv
-----------------------------------------------------------------------------
(***************************************************************************)
(* The task of a send                                                      *)
(***************************************************************************)

(* A message is at one place of the sender at most. *)
AtOnePlace ==
  /\ Distinct(queue) /\ Distinct(written)
  /\ ToSet(queue) \cap ToSet(current) = {}

TaskInv == AtOnePlace /\ SendTaskIsTrue

(* The members of a sequence that grows at its end ... *)
LEMMA AppendSet ==
  ASSUME NEW S, NEW s \in Seq(S), NEW e \in S
  PROVE  /\ ToSet(Append(s, e)) = ToSet(s) \cup {e}
         /\ Distinct(s) /\ e \notin ToSet(s) => Distinct(Append(s, e))
  <1>1. /\ Append(s, e) \in Seq(S) /\ Len(Append(s, e)) = Len(s) + 1
        /\ \A i \in 1..Len(s) : Append(s, e)[i] = s[i]
        /\ Append(s, e)[Len(s) + 1] = e
        /\ DOMAIN s = 1..Len(s) /\ DOMAIN Append(s, e) = 1..Len(s) + 1 /\ Len(s) \in Nat
    OBVIOUS
  <1>2. ToSet(Append(s, e)) = ToSet(s) \cup {e}
    BY <1>1 DEF ToSet
  <1>3. Distinct(s) /\ e \notin ToSet(s) => Distinct(Append(s, e))
    BY <1>1 DEF ToSet, Distinct
  <1> QED
    BY <1>2, <1>3

(* ... and shrinks at its head. *)
LEMMA TailSet ==
  ASSUME NEW S, NEW s \in Seq(S), s # <<>>
  PROVE  /\ ToSet(s) = {Head(s)} \cup ToSet(Tail(s))
         /\ Distinct(s) => Distinct(Tail(s)) /\ Head(s) \notin ToSet(Tail(s))
  <1>1. /\ Head(s) = s[1] /\ Len(s) \in Nat \ {0} /\ DOMAIN s = 1..Len(s)
        /\ DOMAIN Tail(s) = 1..Len(s) - 1
        /\ \A i \in 1..Len(s) - 1 : Tail(s)[i] = s[i + 1]
    OBVIOUS
  <1>2. \A i \in 2..Len(s) : i - 1 \in 1..Len(s) - 1 /\ s[i] = Tail(s)[i - 1]
    BY <1>1
  <1>3. ToSet(s) = {Head(s)} \cup ToSet(Tail(s))
    <2>1. ASSUME NEW i \in 1..Len(s) PROVE s[i] \in {Head(s)} \cup ToSet(Tail(s))
      <3>1. i = 1 \/ i \in 2..Len(s)
        BY <1>1
      <3> QED
        BY <1>1, <1>2, <3>1 DEF ToSet
    <2>2. {Head(s)} \cup ToSet(Tail(s)) \subseteq ToSet(s)
      BY <1>1 DEF ToSet
    <2> QED
      BY <1>1, <2>1, <2>2 DEF ToSet
  <1>4. Distinct(s) => Distinct(Tail(s)) /\ Head(s) \notin ToSet(Tail(s))
    BY <1>1 DEF ToSet, Distinct
  <1> QED
    BY <1>3, <1>4

LEMMA FewSet == ToSet(<<>>) = {} /\ (\A e : ToSet(<<e>>) = {e}) /\ Distinct(<<>>)
  BY DEF ToSet, Distinct

LEMMA TaskInit == Init => TaskInv
  BY FewSet DEF Init, TaskInv, AtOnePlace, SendTaskIsTrue

LEMMA TaskSend == ASSUME TypeInv, TaskInv, NEW m \in Messages, SendAsync(m) PROVE TaskInv'
  <1> USE DEF TypeInv, TypeOK, TaskInv
  <1>1. sendTask[m] = "none" /\ m \notin ToSet(queue) \cup ToSet(current) /\ m \notin ToSet(written)
    BY DEF SendAsync, SendTaskIsTrue
  <1>2. written' = written /\ Distinct(written)'
    BY DEF SendAsync, AtOnePlace
  <1>3. CASE pipe = "pending" /\ current' = <<m>> /\ sendTask' = [sendTask EXCEPT ![m] = "open"] /\ UNCHANGED queue
    <2>1. ToSet(current') = {m} /\ ToSet(current) = {}
      BY <1>3, FewSet DEF SenderOK
    <2>2. AtOnePlace'
      BY <1>1, <1>2, <1>3, <2>1 DEF AtOnePlace
    <2>3. SendTaskIsTrue'
      BY <1>1, <1>2, <1>3, <2>1 DEF SendTaskIsTrue, SenderOK
    <2> QED
      BY <2>2, <2>3
  <1>4. CASE queue' = Append(queue, m) /\ sendTask' = [sendTask EXCEPT ![m] = "open"] /\ UNCHANGED current
    <2>1. ToSet(queue') = ToSet(queue) \cup {m} /\ Distinct(queue')
      BY <1>1, <1>4, AppendSet DEF WorldOK, AtOnePlace
    <2>2. AtOnePlace'
      BY <1>1, <1>2, <1>4, <2>1 DEF AtOnePlace
    <2>3. SendTaskIsTrue'
      BY <1>1, <1>2, <1>4, <2>1 DEF SendTaskIsTrue, SenderOK
    <2> QED
      BY <2>2, <2>3
  <1>5. CASE sendTask' = [sendTask EXCEPT ![m] = "cancelled"] /\ UNCHANGED <<queue, current>>
    BY <1>1, <1>2, <1>5 DEF AtOnePlace, SendTaskIsTrue, SenderOK
  <1> QED
    BY <1>3, <1>4, <1>5 DEF SendAsync

LEMMA TaskPipe == TypeInv /\ TaskInv /\ PipeWorldSend => TaskInv'
  <1> SUFFICES ASSUME TypeInv, TaskInv, PipeWorldSend PROVE TaskInv'
    OBVIOUS
  <1> USE DEF TypeInv, TypeOK, TaskInv
  <1>1. CASE PipeReceive
    <2>1. CASE queue = <<>>
      BY <1>1, <2>1 DEF PipeReceive, AtOnePlace, SendTaskIsTrue
    <2>2. CASE queue # <<>>
      <3>1. /\ ToSet(queue) = {Head(queue)} \cup ToSet(Tail(queue))
            /\ Distinct(Tail(queue)) /\ Head(queue) \notin ToSet(Tail(queue))
        BY <2>2, TailSet DEF WorldOK, AtOnePlace
      <3>2. ToSet(current) = {} /\ ToSet(current') = {Head(queue)} /\ queue' = Tail(queue)
        BY <1>1, <2>2, FewSet DEF PipeReceive, SenderOK
      <3>3. UNCHANGED <<written, sendTask>>
        BY <1>1 DEF PipeReceive
      <3> QED
        BY <3>1, <3>2, <3>3 DEF AtOnePlace, SendTaskIsTrue
    <2> QED
      BY <2>1, <2>2
  <1>2. CASE PipeSend
    <2> DEFINE m == Head(current)
    <2>1. m \in Messages /\ current = <<m>> /\ ToSet(current) = {m}
      BY <1>2, FewSet DEF PipeSend, SenderOK, AtMostOne
    <2>2. sendTask[m] = "open" /\ m \notin ToSet(written) /\ m \notin ToSet(queue)
      BY <2>1 DEF SendTaskIsTrue, AtOnePlace
    <2>3. PICK result : /\ written' = IF result = "ok" THEN Append(written, m) ELSE written
                        /\ sendTask' = [sendTask EXCEPT ![m] = SendOutcome(result)]
      BY <1>2 DEF PipeSend
    <2>4. ToSet(current') = {} /\ UNCHANGED queue
      BY <1>2, FewSet DEF PipeSend, worldVars
    <2>5. ToSet(written') = (IF result = "ok" THEN ToSet(written) \cup {m} ELSE ToSet(written)) /\ Distinct(written')
      <3>1. ToSet(Append(written, m)) = ToSet(written) \cup {m} /\ Distinct(Append(written, m))
        BY <2>1, <2>2, AppendSet DEF SenderOK, AtOnePlace
      <3> QED
        BY <2>3, <3>1 DEF AtOnePlace
    <2>6. sendTask'[m] = IF result = "ok" THEN "ok" ELSE "failed"
      BY <2>1, <2>3 DEF SendOutcome, SenderOK
    <2>7. \A n \in Messages \ {m} : sendTask'[n] = sendTask[n]
      BY <2>3 DEF SenderOK
    <2>8. AtOnePlace'
      BY <2>4, <2>5 DEF AtOnePlace
    <2>9. SendTaskIsTrue'
      BY <2>1, <2>2, <2>4, <2>5, <2>6, <2>7 DEF SendTaskIsTrue
    <2> QED
      BY <2>8, <2>9
  <1>3. CASE PipeClose
    BY <1>3 DEF PipeClose, worldVars, AtOnePlace, SendTaskIsTrue
  <1> QED
    BY <1>1, <1>2, <1>3 DEF PipeWorldSend

(* Nothing but SendAsync and PipeWorldSend moves a message of the sender. *)
LEMMA SenderUntouched ==
  ASSUME [Next]_vars
  PROVE  \/ \E m \in Messages : SendAsync(m)
         \/ PipeWorldSend
         \/ UNCHANGED <<queue, current, written, sendTask>>
  BY DEF Next, Handshake, HandshakeClientOpen, HandshakeServer, HandshakeClientAck,
         SenderLoop, ReceiverLoop, LoopStep, EndOfStream, OnPingReceived, OnPongReceived,
         OnAckReceived, OnErrReceived, SenderOnCloseReceived, SenderLoopEnd, OnMsgReceived,
         CallbackEnds, SendAck, ReceiverOnCloseReceived, StartReceiverClose, PingLoop, SendPing,
         PingTimeout, PingEnd, StartSender, StartClose, StartCancel, StartEnd, SenderClose, UserCloseCancel,
         CloseWorldEnd, UserClose, ReceiveAsync, ReceiverClose, Break,
         vars, senderVars, worldVars

LEMMA TaskNext == TypeInv /\ TaskInv /\ [Next]_vars => TaskInv'
  <1> SUFFICES ASSUME TypeInv, TaskInv, [Next]_vars PROVE TaskInv'
    OBVIOUS
  <1>1. CASE UNCHANGED <<queue, current, written, sendTask>>
    BY <1>1 DEF TaskInv, AtOnePlace, SendTaskIsTrue
  <1> QED
    BY <1>1, SenderUntouched, TaskSend, TaskPipe

(* The task of every send is completed for what is on the stream and for   *)
(* nothing else, and open for what is still in the sender (PipeWorldSend,  *)
(* DataWithErrorInfo), for any number of messages and however it breaks.   *)
THEOREM TasksAreTrue == Spec => []SendTaskIsTrue
  <1>1. Spec => []TaskInv
    BY TypeInvariant, TaskInit, TaskNext, PTL DEF Spec
  <1> QED
    BY <1>1, PTL DEF TaskInv

-----------------------------------------------------------------------------
(***************************************************************************)
(* Closing the sender                                                      *)
(***************************************************************************)

Early == {"connect", "accept", "opened"}
Stuck == {"closing", "closed", "leaving", "ended", "failed"}

(* Each of the three callers of world.Close calls it once. *)
ClosesOnce ==
  /\ userClose = "none" => closes["user"] = "none"
  /\ start \in {"off", "whenAny"} => closes["start"] = "none"
  /\ loop["S"] \notin Stuck => closes["loop"] = "none"
  /\ loop["S"] \in Early => start = "off"

(* The queue of a world whose Close has completed is empty and stays so. *)
Drained ==
  /\ \A k \in Closer : closes[k] # "none" => addingDone
  /\ \A k \in Closer : closes[k] = "done" => queue = <<>>
  /\ userClose = "done" => closeTask \in Closer /\ closes[closeTask] = "done"

CloseInv == ClosesOnce /\ Drained

LEMMA CloseInit == Init => CloseInv
  BY DEF Init, CloseInv, ClosesOnce, Drained, Closer

(* One more caller closes the world. *)
LEMMA CloseWorldInv ==
  ASSUME TypeInv, Drained, NEW k \in Closer, closes[k] = "none", CloseWorld(k), UNCHANGED <<queue, userClose>>
  PROVE  Drained' /\ (\A j \in Closer \ {k} : closes'[j] = closes[j])
  <1> USE DEF TypeInv, TypeOK
  <1>1. addingDone' = TRUE /\ closes' = [closes EXCEPT ![k] = "poll"]
        /\ closeTask' = (IF closeTask = "none" THEN k ELSE closeTask)
    BY DEF CloseWorld
  <1>2. closes'[k] = "poll" /\ \A j \in Closer \ {k} : closes'[j] = closes[j]
    BY <1>1 DEF WorldOK
  <1>3. \A j \in Closer : closes'[j] = "done" => queue' = <<>>
    BY <1>2 DEF Drained
  <1>4. userClose' = "done" => closeTask' \in Closer /\ closes'[closeTask'] = "done"
    <2>1. SUFFICES ASSUME userClose = "done" PROVE closeTask' \in Closer /\ closes'[closeTask'] = "done"
      OBVIOUS
    <2>2. closeTask \in Closer /\ closes[closeTask] = "done"
      BY <2>1 DEF Drained
    <2>3. closeTask # "none" /\ closeTask # k
      BY <2>2 DEF Closer
    <2> QED
      BY <1>1, <1>2, <2>2, <2>3
  <1> QED
    BY <1>1, <1>2, <1>3, <1>4 DEF Drained

(* What leaves the world and its callers alone. *)
LEMMA CloseKept ==
  ASSUME CloseInv, UNCHANGED worldVars, UNCHANGED userClose,
         start' = start \/ (start = "off" /\ loop'["S"] \notin Early) \/ start' \notin {"off", "whenAny"},
         loop["S"] \in Stuck => loop'["S"] \in Stuck,
         loop'["S"] \in Early => loop["S"] \in Early /\ start' = start
  PROVE  CloseInv'
  <1>1. Drained'
    BY DEF CloseInv, Drained, worldVars
  <1>2. start' \in {"off", "whenAny"} => closes'["start"] = "none"
    BY DEF CloseInv, ClosesOnce, worldVars
  <1> QED
    BY <1>1, <1>2 DEF CloseInv, ClosesOnce, worldVars

LEMMA CloseHandshake == TypeInv /\ CloseInv /\ Handshake => CloseInv'
  <1> SUFFICES ASSUME TypeInv, CloseInv, Handshake PROVE CloseInv'
    OBVIOUS
  <1> USE DEF TypeInv, TypeOK, senderVars, Stuck, Early
  <1>1. CASE HandshakeClientOpen
    <2>1. UNCHANGED worldVars /\ UNCHANGED <<userClose, start>>
      BY <1>1 DEF HandshakeClientOpen
    <2>2. /\ loop["S"] \in Stuck => loop'["S"] \in Stuck
          /\ loop'["S"] \in Early => loop["S"] \in Early
      BY <1>1 DEF HandshakeClientOpen, ConnectionOK, Side
    <2> QED
      BY <2>1, <2>2, CloseKept
  <1>2. ASSUME NEW x \in Side, loop[x] \in Early, UNCHANGED worldVars, UNCHANGED userClose,
               Started(x) \/ (loop' = [loop EXCEPT ![x] = "failed"] /\ UNCHANGED start)
        PROVE  CloseInv'
    <2>1. CASE x = "S"
      <3>1. start = "off" /\ loop'["S"] \notin Early
        BY <1>2, <2>1 DEF Started, ReceiveHeader, CloseInv, ClosesOnce, ConnectionOK
      <3> QED
        BY <1>2, <2>1, <3>1, CloseKept
    <2>2. CASE x # "S"
      <3>1. start' = start /\ loop'["S"] = loop["S"]
        BY <1>2, <2>2 DEF Started, ConnectionOK, Side
      <3> QED
        BY <1>2, <3>1, CloseKept
    <2> QED
      BY <2>1, <2>2
  <1>3. CASE HandshakeServer
    BY <1>2, <1>3, OtherSide DEF HandshakeServer, ConnectionOK
  <1>4. CASE HandshakeClientAck
    BY <1>2, <1>4 DEF HandshakeClientAck, ConnectionOK
  <1> QED
    BY <1>1, <1>3, <1>4 DEF Handshake

LEMMA CloseLoop ==
  ASSUME TypeInv, CloseInv,
         (\E x \in Side : LoopStep(x)) \/ SenderLoopEnd \/ OnMsgReceived \/ ReceiveAsync \/ CallbackEnds
         \/ SendAck \/ ReceiverOnCloseReceived \/ StartReceiverClose \/ ReceiverClose
  PROVE  CloseInv'
  <1> USE DEF TypeInv, TypeOK, senderVars
  <1>1. UNCHANGED worldVars /\ UNCHANGED <<userClose, start>>
    BY DEF LoopStep, EndOfStream, OnPingReceived, OnPongReceived, OnAckReceived, OnErrReceived,
           SenderLoopEnd, OnMsgReceived, ReceiveAsync, CallbackEnds, SendAck, ReceiverOnCloseReceived,
           StartReceiverClose, ReceiverClose
  <1>2. /\ loop["S"] \in Stuck => loop'["S"] \in Stuck
        /\ loop'["S"] \in Early => loop["S"] \in Early
    <2>1. ASSUME NEW x \in Side, LoopStep(x)
          PROVE  \E next \in {"reading", "ended", "failed"} :
                   loop' = [loop EXCEPT ![x] = next] /\ loop[x] \in {"accept", "opened", "reading"}
      BY <2>1 DEF LoopStep, EndOfStream, OnPingReceived, OnPongReceived, OnAckReceived, OnErrReceived,
                  Reads, ReceiveHeader, WriteResults
    <2>2. CASE \E x \in Side : LoopStep(x)
      <3>1. PICK x \in Side : LoopStep(x)
        BY <2>2
      <3>2. PICK next \in {"reading", "ended", "failed"} :
              loop' = [loop EXCEPT ![x] = next] /\ loop[x] \in {"accept", "opened", "reading"}
        BY <2>1, <3>1
      <3>3. "S" \in Side /\ (x = "S" => loop'["S"] = next) /\ (x # "S" => loop'["S"] = loop["S"])
        BY <3>2 DEF ConnectionOK, Side
      <3> QED
        BY <3>2, <3>3 DEF Stuck, Early
    <2>3. CASE SenderLoopEnd
      BY <2>3 DEF SenderLoopEnd, ConnectionOK, Stuck, Early, Side
    <2>4. CASE OnMsgReceived \/ CallbackEnds
      BY <2>4, MsgLoop DEF ConnectionOK, Side
    <2>5. CASE ReceiveAsync \/ SendAck \/ ReceiverOnCloseReceived \/ StartReceiverClose \/ ReceiverClose
      <3>1. loop'["S"] = loop["S"]
        BY <2>5 DEF ReceiveAsync, SendAck, ReceiverOnCloseReceived, StartReceiverClose, ReceiverClose,
                    ConnectionOK, Side
      <3> QED
        BY <3>1
    <2> QED
      BY <2>2, <2>3, <2>4, <2>5
  <1> QED
    BY <1>1, <1>2, CloseKept

LEMMA CloseWorldCalls ==
  ASSUME TypeInv, CloseInv, SenderOnCloseReceived \/ StartClose \/ UserClose
  PROVE  CloseInv'
  <1> USE DEF TypeInv, TypeOK, CloseInv, Stuck, Early
  <1>1. CASE SenderOnCloseReceived
    <2>1. loop["S"] = "reading" /\ loop'["S"] = "closing" /\ closes["loop"] = "none" /\ "loop" \in Closer
      BY <1>1 DEF SenderOnCloseReceived, Reads, ClosesOnce, ConnectionOK, Side, Closer
    <2>2. UNCHANGED <<queue, userClose, start>> /\ CloseWorld("loop")
      BY <1>1 DEF SenderOnCloseReceived
    <2>3. Drained' /\ \A j \in Closer \ {"loop"} : closes'[j] = closes[j]
      BY <2>1, <2>2, CloseWorldInv
    <2> QED
      BY <2>1, <2>2, <2>3 DEF ClosesOnce, Closer
  <1>2. CASE StartClose
    <2>1. start = "whenAny" /\ start' = "close" /\ closes["start"] = "none" /\ "start" \in Closer
      BY <1>2 DEF StartClose, ClosesOnce, Closer
    <2>2. UNCHANGED <<queue, userClose, loop>> /\ CloseWorld("start")
      BY <1>2 DEF StartClose
    <2>3. Drained' /\ \A j \in Closer \ {"start"} : closes'[j] = closes[j]
      BY <2>1, <2>2, CloseWorldInv
    <2> QED
      BY <2>1, <2>2, <2>3 DEF ClosesOnce, Closer
  <1>3. CASE UserClose
    <2>1. userClose = "none" /\ userClose' = "close" /\ closes["user"] = "none" /\ "user" \in Closer
      BY <1>3 DEF UserClose, ClosesOnce, Closer
    <2>2. UNCHANGED <<queue, start, loop>> /\ CloseWorld("user")
      BY <1>3 DEF UserClose
    <2>3. closes' = [closes EXCEPT !["user"] = "poll"] /\ addingDone' = TRUE
      BY <2>2 DEF CloseWorld
    <2>4. closes'["user"] = "poll" /\ \A j \in Closer \ {"user"} : closes'[j] = closes[j]
      BY <2>1, <2>3 DEF WorldOK
    <2>5. Drained'
      BY <2>1, <2>2, <2>3, <2>4 DEF Drained
    <2>6. ClosesOnce'
      BY <2>1, <2>2, <2>4 DEF ClosesOnce, Closer
    <2> QED
      BY <2>5, <2>6
  <1> QED
    BY <1>1, <1>2, <1>3

LEMMA CloseSender ==
  ASSUME TypeInv, CloseInv,
         (\E m \in Messages : SendAsync(m)) \/ PipeWorldSend \/ StartCancel \/ StartEnd \/ SenderClose
  PROVE  CloseInv'
  <1> USE DEF TypeInv, TypeOK, CloseInv
  <1>1. ASSUME NEW m \in Messages, SendAsync(m) PROVE CloseInv'
    <2>1. UNCHANGED <<addingDone, closes, closeTask, start, userClose, loop>>
      BY <1>1 DEF SendAsync
    <2>2. UNCHANGED queue \/ ~addingDone
      BY <1>1 DEF SendAsync
    <2>3. Drained'
      BY <2>1, <2>2 DEF Drained
    <2> QED
      BY <2>1, <2>3 DEF ClosesOnce
  <1>2. CASE PipeWorldSend
    <2>1. UNCHANGED <<addingDone, closes, closeTask, start, userClose, loop>>
      BY <1>2 DEF PipeWorldSend, PipeReceive, PipeSend, PipeClose, worldVars
    <2>2. queue = <<>> => UNCHANGED queue
      BY <1>2 DEF PipeWorldSend, PipeReceive, PipeSend, PipeClose, worldVars
    <2>3. Drained'
      BY <2>1, <2>2 DEF Drained
    <2> QED
      BY <2>1, <2>3 DEF ClosesOnce
  <1>3. CASE StartCancel \/ StartEnd
    <2>1. UNCHANGED worldVars /\ UNCHANGED <<userClose, loop>> /\ start' \notin {"off", "whenAny"} /\ start # "off"
      BY <1>3 DEF StartCancel, StartEnd
    <2>2. loop["S"] \notin Early
      BY <2>1 DEF ClosesOnce
    <2> QED
      BY <2>1, <2>2, CloseKept
  <1>4. CASE UserCloseCancel
    <2>1. UNCHANGED <<worldVars, start, loop>> /\ userClose = "close" /\ userClose' = "done"
      BY <1>4 DEF UserCloseCancel
    <2>2. closes["user"] # "none" /\ closes[closeTask] = "done" /\ "user" \in Closer
      BY <1>4 DEF UserCloseCancel, WorldClosed, Closer
    <2>3. closeTask \in Closer
      BY <2>2 DEF Drained, WorldOK
    <2>4. Drained'
      BY <2>1, <2>2, <2>3 DEF Drained, worldVars
    <2> QED
      BY <2>1, <2>4 DEF ClosesOnce, worldVars
  <1>5. ASSUME NEW k \in Closer, CloseWorldEnd(k) PROVE CloseInv'
    <2>1. UNCHANGED <<queue, addingDone, closeTask, start, userClose, loop>>
      BY <1>5 DEF CloseWorldEnd
    <2>2. queue = <<>> /\ closes[k] = "poll" /\ closes'[k] = "done" /\ \A j \in Closer \ {k} : closes'[j] = closes[j]
      BY <1>5 DEF CloseWorldEnd, WorldOK
    <2>3. Drained'
      BY <2>1, <2>2 DEF Drained
    <2> QED
      BY <2>1, <2>2, <2>3 DEF ClosesOnce, Closer
  <1> QED
    BY <1>1, <1>2, <1>3, <1>4, <1>5 DEF SenderClose

LEMMA CloseNext == TypeInv /\ CloseInv /\ [Next]_vars => CloseInv'
  <1> SUFFICES ASSUME TypeInv, CloseInv, [Next]_vars PROVE CloseInv'
    OBVIOUS
  <1>1. CASE PingLoop \/ Break \/ UNCHANGED vars
    <2>1. UNCHANGED worldVars /\ UNCHANGED <<userClose, start, loop>>
      BY <1>1 DEF PingLoop, SendPing, PingTimeout, PingEnd, Break, vars, senderVars
    <2> QED
      BY <2>1, CloseKept
  <1> QED
    BY <1>1, CloseHandshake, CloseLoop, CloseWorldCalls, CloseSender
    DEF Next, SenderLoop, ReceiverLoop, StartSender, Side

(* When the owner's Close has completed, no message waits in the sender:   *)
(* the only one still undecided is in PipeWorldSend's hand (CloseOnce,     *)
(* ChanAsync's polling Close), whoever closed the world first.             *)
THEOREM ClosedIsDrained == Spec => []ClosedSenderIsDrained
  <1>1. Spec => [](TypeInv /\ TaskInv /\ CloseInv)
    BY TypeInvariant, TaskInit, TaskNext, CloseInit, CloseNext, PTL DEF Spec
  <1>2. TypeInv /\ TaskInv /\ CloseInv => ClosedSenderIsDrained
    <2> SUFFICES ASSUME TypeInv, TaskInv, CloseInv, userClose = "done",
                        NEW m \in Messages, sendTask[m] = "open"
                 PROVE  current = <<m>>
      BY DEF ClosedSenderIsDrained
    <2>1. queue = <<>>
      BY DEF CloseInv, Drained
    <2>2. m \in ToSet(current)
      BY <2>1, FewSet DEF TaskInv, SendTaskIsTrue
    <2>3. current = <<>> \/ \E n \in Messages : current = <<n>>
      BY DEF TypeInv, TypeOK, SenderOK, AtMostOne
    <2> QED
      BY <2>2, <2>3, FewSet
  <1> QED
    BY <1>1, <1>2, PTL

-----------------------------------------------------------------------------
(***************************************************************************)
(* PingLoop                                                                *)
(***************************************************************************)

(* Nothing is on its way to the client, and it does not ping, before the   *)
(* server has answered the handshake; it pings with no PONG outstanding.   *)
Handshaking ==
  /\ loop[Other(client)] = "accept" => wire[client] = <<>> /\ ping = "off"
  /\ loop[client] \in {"connect", "opened"} => ping = "off"
  /\ ping = "off" => pong

(* A PING that is not answered yet is on its way, or its PONG is, unless a *)
(* loop has stopped taking packets.                                        *)
PingUnderWay ==
  (ping = "wait" /\ ~pong /\ ~broken) =>
     \/ Simple("PING") \in ToSet(wire[Other(client)])
     \/ Simple("PONG") \in ToSet(wire[client])
     \/ \E x \in Side : loop[x] \in Stuck

PingInv == Handshaking /\ PingUnderWay

Kept(x) == \A op \in {"PING", "PONG"} :
             Simple(op) \in ToSet(wire[x]) => Simple(op) \in ToSet(wire'[x])

LEMMA PingInit == Init => PingInv
  BY OtherSide DEF Init, PingInv, Handshaking, PingUnderWay, Side

(* No step of a loop that is over, or closing, takes packets again. *)
LEMMA StuckStays ==
  ASSUME TypeInv, [Next]_vars, NEW x \in Side, loop[x] \in Stuck
  PROVE  loop'[x] \in Stuck
  <1> USE DEF TypeInv, TypeOK, Stuck
  <1>1. ASSUME NEW y \in Side, loop[y] \notin Stuck, NEW next, loop' = [loop EXCEPT ![y] = next]
        PROVE  loop'[x] \in Stuck
    BY <1>1 DEF ConnectionOK
  <1>2. CASE Handshake
    BY <1>1, <1>2, OtherSide
    DEF Handshake, HandshakeClientOpen, HandshakeServer, HandshakeClientAck, Started, ConnectionOK
  <1>3. ASSUME NEW y \in Side, LoopStep(y) PROVE loop'[x] \in Stuck
    BY <1>1, <1>3 DEF LoopStep, EndOfStream, OnPingReceived, OnPongReceived, OnAckReceived, OnErrReceived, Reads
  <1>4. CASE SenderOnCloseReceived
    BY <1>1, <1>4 DEF SenderOnCloseReceived, Reads, Side
  <1>5. CASE SenderLoopEnd
    BY <1>5 DEF SenderLoopEnd, ConnectionOK
  <1>6. CASE OnMsgReceived \/ CallbackEnds
    BY <1>1, <1>6, MsgLoop DEF OnMsgReceived, CallbackEnds, Reads, Side
  <1>9. CASE SendAck \/ ReceiverOnCloseReceived
    BY <1>1, <1>9 DEF SendAck, ReceiverOnCloseReceived, Reads, Side
  <1>10. CASE StartReceiverClose
    BY <1>10 DEF StartReceiverClose, ConnectionOK
  <1>7. CASE ReceiveAsync
    <2>1. UNCHANGED loop \/ loop["R"] = "deliver"
      BY <1>7 DEF ReceiveAsync, ReceiverOK
    <2> QED
      BY <1>1, <1>7, <2>1 DEF ReceiveAsync, Side
  <1>8. CASE PingLoop \/ PipeWorldSend \/ StartSender \/ SenderClose \/ UserClose \/ ReceiverClose
             \/ (\E m \in Messages : SendAsync(m)) \/ Break \/ UNCHANGED vars
    <2>1. UNCHANGED loop
      BY <1>8 DEF PingLoop, SendPing, PingTimeout, PingEnd, PipeWorldSend, PipeReceive, PipeSend, PipeClose,
                  StartSender, StartClose, StartCancel, StartEnd, SenderClose, UserCloseCancel, CloseWorldEnd,
                  UserClose, ReceiverClose, SendAsync, Break, vars
    <2> QED
      BY <2>1
  <1> QED
    BY <1>2, <1>3, <1>4, <1>5, <1>6, <1>7, <1>8, <1>9, <1>10 DEF Next, SenderLoop, ReceiverLoop, Side

(* A packet that is written does not disturb those under way ... *)
LEMMA WriteKeeps ==
  ASSUME TypeInv, NEW x \in Side, NEW packet \in Packet, NEW result, Write(x, packet, result)
  PROVE  /\ \A y \in Side : Kept(y)
         /\ \A y \in Side : y # Other(x) => wire'[y] = wire[y]
         /\ result = "ok" /\ ~broken => packet \in ToSet(wire'[Other(x)])
  <1> USE DEF TypeInv, TypeOK, ConnectionOK
  <1>1. wire[Other(x)] \in Seq(Packet) /\ Other(x) \in Side
    BY OtherSide
  <1>2. ToSet(Append(wire[Other(x)], packet)) = ToSet(wire[Other(x)]) \cup {packet}
    BY <1>1, AppendSet
  <1>3. CASE result = "ok" /\ ~broken
    <2>1. wire'[Other(x)] = Append(wire[Other(x)], packet) /\ \A y \in Side : y # Other(x) => wire'[y] = wire[y]
      BY <1>1, <1>3 DEF Write
    <2> QED
      BY <1>2, <2>1 DEF Kept
  <1>4. CASE ~(result = "ok" /\ ~broken)
    BY <1>4 DEF Write, Kept
  <1> QED
    BY <1>3, <1>4

(* ... and no more does reading one of another kind, answered or not. *)
LEMMA ConsumeKeeps ==
  ASSUME TypeInv, NEW x \in Side, wire[x] # <<>>, wire'[x] = Tail(wire[x]),
         wire'[Other(x)] = wire[Other(x)] \/ \E p \in Packet : wire'[Other(x)] = Append(wire[Other(x)], p)
  PROVE  /\ Kept(Other(x))
         /\ \A op \in {"PING", "PONG"} :
              Simple(op) \in ToSet(wire[x]) /\ Head(wire[x]).op # op => Simple(op) \in ToSet(wire'[x])
  <1> USE DEF TypeInv, TypeOK, ConnectionOK
  <1>1. wire[x] \in Seq(Packet) /\ wire[Other(x)] \in Seq(Packet)
    BY OtherSide
  <1>2. ToSet(wire[x]) = {Head(wire[x])} \cup ToSet(wire'[x])
    BY <1>1, TailSet
  <1>3. \A op : Head(wire[x]).op # op => Head(wire[x]) # Simple(op)
    BY DEF Simple
  <1>4. \A p \in Packet : ToSet(Append(wire[Other(x)], p)) = ToSet(wire[Other(x)]) \cup {p}
    BY <1>1, AppendSet
  <1> QED
    BY <1>2, <1>3, <1>4 DEF Kept

(* What does not shake hands, nor ping. *)
LEMMA HandshakingKept ==
  ASSUME TypeInv, Handshaking, UNCHANGED client, UNCHANGED ping, pong => pong',
         loop'[client] \in {"connect", "opened"} => loop[client] \in {"connect", "opened"},
         loop'[Other(client)] = "accept" =>
           (loop[Other(client)] = "accept" /\ (wire[client] = <<>> => wire'[client] = <<>>))
  PROVE  Handshaking'
  <1>1. Other(client') = Other(client)
    OBVIOUS
  <1> QED
    BY <1>1 DEF Handshaking

LEMMA HandshakeShakes == TypeInv /\ PingInv /\ Handshake => PingInv'
  <1> SUFFICES ASSUME TypeInv, PingInv, Handshake PROVE PingInv'
    OBVIOUS
  <1> USE DEF TypeInv, TypeOK, ConnectionOK, PingInv
  <1> DEFINE server == Other(client)
  <1>1. client \in Side /\ server \in Side /\ server # client
    BY OtherSide
  <1>2. CASE HandshakeClientOpen
    <2>1. ping = "off" /\ UNCHANGED <<client, ping, pong>> /\ loop[client] = "connect"
      BY <1>2 DEF HandshakeClientOpen, Handshaking, connVars, pingVars
    <2>2. wire'[client] = wire[client]
      BY <1>1, <1>2, WriteKeeps, SimpleType DEF HandshakeClientOpen
    <2>3. loop'[server] = loop[server]
      BY <1>1, <1>2 DEF HandshakeClientOpen
    <2>4. Handshaking'
      BY <2>1, <2>2, <2>3, HandshakingKept
    <2> QED
      BY <2>1, <2>4 DEF PingUnderWay
  <1>3. CASE HandshakeServer
    <2>1. ping = "off" /\ UNCHANGED <<client, ping, pong>>
      BY <1>1, <1>3 DEF HandshakeServer, Handshaking, Started, connVars
    <2>2. loop'[server] # "accept" /\ loop'[client] = loop[client]
      BY <1>1, <1>3 DEF HandshakeServer, Started, ReceiveHeader
    <2>3. Handshaking'
      BY <2>1, <2>2, HandshakingKept
    <2> QED
      BY <2>1, <2>3 DEF PingUnderWay
  <1>4. CASE HandshakeClientAck
    <2>1. ping = "off" /\ UNCHANGED <<client, pong>> /\ pong
      BY <1>4 DEF HandshakeClientAck, Handshaking, connVars
    <2>2. loop'[client] \in {"reading", "ended", "failed"} /\ loop'[server] = loop[server]
      BY <1>1, <1>4 DEF HandshakeClientAck, Started, ReceiveHeader
    <2>3. loop[server] # "accept"
      BY <1>4 DEF HandshakeClientAck, Handshaking
    <2>4. Handshaking'
      BY <2>1, <2>2, <2>3 DEF Handshaking, Other
    <2> QED
      BY <2>1, <2>4 DEF PingUnderWay
  <1> QED
    BY <1>2, <1>3, <1>4 DEF Handshake

(* Reading, whatever the packet, is not shaking hands. *)
LEMMA ReadingHandshaking ==
  ASSUME TypeInv, Handshaking, NEW x \in Side, loop[x] = "reading", wire[x] # <<>>,
         UNCHANGED client, UNCHANGED ping, pong => pong',
         NEW next \in AfterMsg \cup {"reading", "closing", "closed"},
         loop' = [loop EXCEPT ![x] = next]
  PROVE  Handshaking'
  <1> USE DEF TypeInv, TypeOK, ConnectionOK, AfterMsg
  <1>1. loop'[x] = next /\ Other(x) \in Side /\ loop'[Other(x)] = loop[Other(x)]
    BY OtherSide
  <1>2. CASE x = client
    <2>1. loop[Other(client)] # "accept"
      BY <1>2 DEF Handshaking
    <2> QED
      BY <1>1, <1>2, <2>1, HandshakingKept
  <1>3. CASE x # client
    <2>1. x = Other(client) /\ Other(x) = client
      BY <1>3 DEF Side, Other
    <2> QED
      BY <1>1, <2>1, HandshakingKept
  <1> QED
    BY <1>2, <1>3

(* While nothing is lost a PING or its PONG stays under way. *)
LEMMA UnderWayKept ==
  ASSUME TypeInv, PingUnderWay, [Next]_vars, UNCHANGED client, UNCHANGED ping, UNCHANGED pong, UNCHANGED stream,
         Kept(client), Kept(Other(client))
  PROVE  PingUnderWay'
  <1>1. Other(client') = Other(client)
    OBVIOUS
  <1> QED
    BY <1>1, StuckStays DEF PingUnderWay, Kept, broken

(* A step that only reads a packet of another kind, or writes one. *)
LEMMA ReaderPings ==
  ASSUME TypeInv, PingInv, [Next]_vars, NEW x \in Side, loop[x] = "reading", wire[x] # <<>>,
         Head(wire[x]).op \notin {"PING", "PONG"},
         UNCHANGED client, UNCHANGED ping, UNCHANGED pong, UNCHANGED stream,
         wire'[x] = Tail(wire[x]),
         wire'[Other(x)] = wire[Other(x)] \/ \E p \in Packet : wire'[Other(x)] = Append(wire[Other(x)], p),
         NEW next \in AfterMsg \cup {"reading", "closing", "closed"},
         loop' = [loop EXCEPT ![x] = next]
  PROVE  PingInv'
  <1>1. Handshaking'
    BY ReadingHandshaking DEF PingInv
  <1>2. Kept(x) /\ Kept(Other(x))
    BY ConsumeKeeps DEF Kept
  <1>3. (x = client /\ Other(x) = Other(client)) \/ (Other(x) = client /\ x = Other(client))
    BY DEF Side, Other, TypeInv, TypeOK, ConnectionOK
  <1>4. Kept(client) /\ Kept(Other(client))
    BY <1>2, <1>3
  <1> QED
    BY <1>1, <1>4, UnderWayKept DEF PingInv

LEMMA WriterPings ==
  ASSUME TypeInv, PingInv, [Next]_vars, NEW x \in Side, loop[x] \notin Early,
         UNCHANGED client, UNCHANGED ping, UNCHANGED pong, UNCHANGED stream,
         NEW packet \in Packet, NEW result, Write(x, packet, result) \/ UNCHANGED wire,
         UNCHANGED loop \/ \E next : next \notin Early /\ loop' = [loop EXCEPT ![x] = next]
  PROVE  PingInv'
  <1>1. client \in Side /\ Other(client) \in Side
    BY OtherSide DEF TypeInv, TypeOK, ConnectionOK
  <1>2. \A y \in Side : loop'[y] \in Early => loop[y] \in Early /\ loop'[y] = loop[y] /\ y # x
    BY DEF TypeInv, TypeOK, ConnectionOK
  <1>3. \A y \in Side : Kept(y) /\ (y # Other(x) => wire'[y] = wire[y])
    BY WriteKeeps DEF Kept
  <1>4. Other(client) # x => client # Other(x)
    BY OtherSide
  <1>5. Handshaking'
    BY <1>1, <1>2, <1>3, <1>4, HandshakingKept DEF PingInv, Early
  <1> QED
    BY <1>1, <1>3, <1>5, UnderWayKept DEF PingInv

LEMMA LoopPings ==
  ASSUME TypeInv, PingInv, [Next]_vars, NEW x \in Side, LoopStep(x)
  PROVE  PingInv'
  <1> USE DEF TypeInv, TypeOK, ConnectionOK, PingInv, AfterMsg
  <1>1. client \in Side /\ x \in {client, Other(client)} /\ Other(x) \in Side /\ Other(x) # x /\ Other(Other(x)) = x
    BY OtherSide DEF Side, Other
  <1>2. CASE EndOfStream(x)
    <2>1. UNCHANGED <<client, ping, pong, stream, wire>> /\ stream = "closed" /\ loop' = [loop EXCEPT ![x] = "failed"]
      BY <1>2 DEF EndOfStream, connVars, pingVars
    <2>2. loop'[x] = "failed" /\ loop'[Other(x)] = loop[Other(x)]
      BY <1>1, <2>1
    <2>3. Handshaking'
      BY <1>1, <2>1, <2>2, HandshakingKept
    <2> QED
      BY <2>1, <2>3 DEF PingUnderWay, broken
  <1>3. CASE OnPingReceived(x)
    <2>1. loop[x] = "reading" /\ wire[x] # <<>> /\ Head(wire[x]).op = "PING"
      BY <1>3 DEF OnPingReceived, Reads
    <2>2. UNCHANGED <<client, ping, pong, stream>>
      BY <1>3 DEF OnPingReceived, connVars, pingVars
    <2>3. PICK result \in WriteResults(x) :
            /\ wire' = [wire EXCEPT ![x] = Tail(@),
                                    ![Other(x)] = IF result = "ok" /\ ~broken
                                                    THEN Append(@, Simple("PONG")) ELSE @]
            /\ loop' = [loop EXCEPT ![x] = CASE result = "ok" -> "reading"
                                             [] result = "cancelled" -> "ended"
                                             [] result = "failed" -> "failed"]
      BY <1>3 DEF OnPingReceived
    <2>4. PICK next \in {"reading", "ended", "failed"} :
            loop' = [loop EXCEPT ![x] = next] /\ (result # "ok" => next \in Stuck)
      BY <2>3 DEF WriteResults, Stuck
    <2>5. Handshaking'
      BY <2>1, <2>2, <2>4, ReadingHandshaking
    <2>6. wire'[x] = Tail(wire[x]) /\ (wire'[Other(x)] = IF result = "ok" /\ ~broken
                                       THEN Append(wire[Other(x)], Simple("PONG")) ELSE wire[Other(x)])
      BY <1>1, <2>3
    <2>7. Kept(Other(x)) /\ (Simple("PONG") \in ToSet(wire[x]) => Simple("PONG") \in ToSet(wire'[x]))
      BY <2>1, <2>6, ConsumeKeeps, SimpleType
    <2>8. PingUnderWay'
      <3>1. SUFFICES ASSUME ping = "wait", ~pong, ~broken
                     PROVE  \/ Simple("PING") \in ToSet(wire'[Other(client)])
                            \/ Simple("PONG") \in ToSet(wire'[client])
                            \/ \E y \in Side : loop'[y] \in Stuck
        BY <2>2 DEF PingUnderWay, broken, Other
      <3>2. CASE x = client
        BY <2>7, <3>1, <3>2, StuckStays DEF PingUnderWay, Kept
      <3>3. CASE x = Other(client) /\ result = "ok"
        <4>0. Other(x) = client
          BY <1>1, <3>3, OtherSide
        <4>1. wire'[client] = Append(wire[client], Simple("PONG")) /\ wire[client] \in Seq(Packet)
          BY <1>1, <2>6, <3>1, <3>3, <4>0
        <4> QED
          BY <4>1, AppendSet, SimpleType
      <3>4. CASE x = Other(client) /\ result # "ok"
        BY <2>4, <3>4
      <3> QED
        BY <1>1, <3>2, <3>3, <3>4
    <2> QED
      BY <2>5, <2>8
  <1>4. ReceiveHeader(x) \in {"reading", "ended"}
    BY DEF ReceiveHeader
  <1>5. CASE OnPongReceived(x)
    <2>1. loop[x] = "reading" /\ wire[x] # <<>> /\ UNCHANGED <<client, ping>> /\ pong'
      BY <1>5 DEF OnPongReceived, Reads, connVars
    <2>2. Handshaking'
      BY <1>4, <1>5, <2>1, ReadingHandshaking DEF OnPongReceived
    <2> QED
      BY <2>1, <2>2 DEF PingUnderWay
  <1>6. CASE OnAckReceived(x) \/ OnErrReceived(x)
    <2>1. loop[x] = "reading" /\ wire[x] # <<>> /\ Head(wire[x]).op \notin {"PING", "PONG"}
      BY <1>6 DEF OnAckReceived, OnErrReceived, Reads
    <2>2. UNCHANGED <<client, ping, pong, stream>> /\ Consume(x)
      BY <1>6 DEF OnAckReceived, OnErrReceived, connVars, pingVars
    <2>3. PICK next \in {"reading", "ended", "failed"} : loop' = [loop EXCEPT ![x] = next]
      BY <1>4, <1>6 DEF OnAckReceived, OnErrReceived
    <2>4. wire'[x] = Tail(wire[x]) /\ wire'[Other(x)] = wire[Other(x)]
      BY <1>1, <2>2 DEF Consume
    <2> QED
      BY <2>1, <2>2, <2>3, <2>4, ReaderPings
  <1> QED
    BY <1>2, <1>3, <1>5, <1>6 DEF LoopStep

(* PingLoop itself: it pings with no PING under way, or gives up. *)
LEMMA PingPings == TypeInv /\ PingInv /\ PingLoop => PingInv'
  <1> SUFFICES ASSUME TypeInv, PingInv, PingLoop PROVE PingInv'
    OBVIOUS
  <1> USE DEF TypeInv, TypeOK, ConnectionOK, PingInv
  <1>1. UNCHANGED <<client, stream, loop>> /\ Other(client') = Other(client) /\ ping = "wait" /\ ping' # "off"
    BY DEF PingLoop, SendPing, PingTimeout, PingEnd, connVars
  <1>2. Handshaking'
    BY <1>1 DEF Handshaking
  <1>3. CASE SendPing
    <2>1. PICK result \in WriteResults(client) :
            Write(client, Simple("PING"), result) /\ ping' = IF result = "ok" THEN "wait" ELSE "failed"
      BY <1>3 DEF SendPing
    <2>2. result = "ok" /\ ~broken => Simple("PING") \in ToSet(wire'[Other(client)])
      BY <2>1, WriteKeeps, SimpleType
    <2>3. PingUnderWay'
      BY <1>1, <2>1, <2>2 DEF PingUnderWay, broken
    <2> QED
      BY <1>2, <2>3
  <1>4. CASE PingTimeout \/ PingEnd
    <2>1. ping' # "wait"
      BY <1>4 DEF PingTimeout, PingEnd
    <2> QED
      BY <1>2, <2>1 DEF PingUnderWay
  <1> QED
    BY <1>3, <1>4 DEF PingLoop

(* The packets that end or carry the flow of messages. *)
LEMMA MessagePings ==
  ASSUME TypeInv, PingInv, [Next]_vars, SenderOnCloseReceived \/ OnMsgReceived \/ ReceiverOnCloseReceived
  PROVE  PingInv'
  <1> USE DEF TypeInv, TypeOK, ConnectionOK, AfterMsg
  <1>1. "S" \in Side /\ "R" \in Side /\ Other("S") = "R" /\ Other("R") = "S"
    BY DEF Side, Other
  <1>2. UNCHANGED <<client, ping, pong, stream>>
    BY DEF SenderOnCloseReceived, OnMsgReceived, ReceiverOnCloseReceived, connVars, pingVars
  <1>3. CASE SenderOnCloseReceived
    <2>1. Reads("S", "CLOSE") /\ Consume("S") /\ loop' = [loop EXCEPT !["S"] = "closing"]
      BY <1>3 DEF SenderOnCloseReceived
    <2>2. wire'["S"] = Tail(wire["S"]) /\ wire'["R"] = wire["R"]
      BY <1>1, <2>1 DEF Consume
    <2> QED
      BY <1>1, <1>2, <2>1, <2>2, ReaderPings DEF Reads
  <1>4. CASE ReceiverOnCloseReceived
    <2>1. Reads("R", "CLOSE") /\ Consume("R") /\ loop' = [loop EXCEPT !["R"] = "closed"]
      BY <1>4 DEF ReceiverOnCloseReceived
    <2>2. wire'["R"] = Tail(wire["R"]) /\ wire'["S"] = wire["S"]
      BY <1>1, <2>1 DEF Consume
    <2> QED
      BY <1>1, <1>2, <2>1, <2>2, ReaderPings DEF Reads
  <1>5. CASE OnMsgReceived
    <2>1. Reads("R", "MSG")
      BY <1>5 DEF OnMsgReceived
    <2>2. PICK next \in AfterMsg : loop' = [loop EXCEPT !["R"] = next]
      BY <1>5, MsgLoop
    <2>3. \/ Consume("R")
          \/ wire' = [wire EXCEPT !["R"] = Tail(@)]
          \/ wire' = [wire EXCEPT !["R"] = Tail(@), !["S"] = Append(@, Simple("ERR"))]
      BY <1>1, <1>5 DEF OnMsgReceived, SendFault
    <2>4. wire'["R"] = Tail(wire["R"]) /\
          (wire'["S"] = wire["S"] \/ wire'["S"] = Append(wire["S"], Simple("ERR")))
      BY <1>1, <2>3 DEF Consume
    <2>5. wire'[Other("R")] = wire[Other("R")]
          \/ \E p \in Packet : wire'[Other("R")] = Append(wire[Other("R")], p)
      BY <1>1, <2>4, SimpleType
    <2>6. loop["R"] = "reading" /\ wire["R"] # <<>> /\ Head(wire["R"]).op \notin {"PING", "PONG"}
      BY <2>1 DEF Reads
    <2> QED
      BY <1>1, <1>2, <2>2, <2>4, <2>5, <2>6, ReaderPings
  <1> QED
    BY <1>3, <1>4, <1>5

(* What writes to the stream, or does not touch it. *)
LEMMA OtherPings ==
  ASSUME TypeInv, PingInv, [Next]_vars,
         SenderLoopEnd \/ SendAck \/ StartReceiverClose \/ ReceiverClose \/ ReceiveAsync \/ CallbackEnds
         \/ PipeWorldSend \/ StartSender \/ SenderClose \/ UserClose
         \/ (\E m \in Messages : SendAsync(m)) \/ UNCHANGED vars
  PROVE  PingInv'
  <1> USE DEF TypeInv, TypeOK, ConnectionOK, Early
  <1>1. "S" \in Side /\ "R" \in Side /\ Simple("ACK") \in Packet /\ Simple("CLOSE") \in Packet
    BY SimpleType DEF Side
  <1>2. CASE SendAck
    <2>1. UNCHANGED <<client, ping, pong, stream>> /\ loop["R"] = "ack"
      BY <1>2 DEF SendAck, connVars, pingVars
    <2>2. PICK result \in WriteResults("R") :
            /\ Write("R", Simple("ACK"), result)
            /\ loop' = [loop EXCEPT !["R"] = CASE result = "ok" -> "reading"
                                               [] result = "cancelled" -> "ended"
                                               [] result = "failed" -> "failed"]
      BY <1>2 DEF SendAck
    <2>3. \E next : next \notin Early /\ loop' = [loop EXCEPT !["R"] = next]
      BY <2>2 DEF WriteResults
    <2> QED
      BY <1>1, <2>1, <2>2, <2>3, WriterPings
  <1>3. CASE ReceiverClose
    <2>1. UNCHANGED <<client, ping, pong, stream, loop>> /\ loop["R"] \in {"reading", "deliver", "callback", "ack"}
      BY <1>3 DEF ReceiverClose, connVars, pingVars
    <2>2. PICK result : Write("R", Simple("CLOSE"), result)
      BY <1>3 DEF ReceiverClose
    <2> QED
      BY <1>1, <2>1, <2>2, WriterPings
  <1>4. CASE PipeSend \/ PipeClose
    <2>1. UNCHANGED <<client, ping, pong, stream, loop>> /\ pipe # "off"
      BY <1>4 DEF PipeSend, PipeClose, connVars, pingVars
    <2>2. loop["S"] \notin Early
      BY <2>1 DEF NotYetSending
    <2>3. \E packet \in Packet, result \in {"ok", "failed", "cancelled"} : Write("S", packet, result)
      <3>1. CASE PipeSend
        <4>1. current \in AtMostOne(Messages) /\ current # <<>>
          BY <3>1 DEF PipeSend, SenderOK
        <4>2. Head(current) \in Messages
          BY <4>1 DEF AtMostOne
        <4>3. Msg(Head(current)) \in Packet
          BY <4>2 DEF Msg, Packet
        <4> QED
          BY <3>1, <4>3 DEF PipeSend, WriteResults
      <3>2. CASE PipeClose
        BY <1>1, <3>2 DEF PipeClose, WriteResults
      <3> QED
        BY <1>4, <3>1, <3>2
    <2> QED
      BY <1>1, <2>1, <2>2, <2>3, WriterPings
  <1>5. CASE ReceiveAsync
    <2>1. UNCHANGED <<client, ping, pong, stream, wire>>
      BY <1>5 DEF ReceiveAsync, connVars, pingVars
    <2>2. UNCHANGED loop \/ (loop["R"] = "deliver" /\ \E next : next \notin Early /\ loop' = [loop EXCEPT !["R"] = next])
      <3>1. CASE inWorld = <<>>
        BY <1>5, <3>1 DEF ReceiveAsync
      <3>2. CASE inWorld # <<>>
        BY <1>5, <3>2 DEF ReceiveAsync, AfterDelivery, ReceiverOK
      <3> QED
        BY <3>1, <3>2
    <2>3. CASE loop["R"] = "deliver"
      BY <1>1, <2>1, <2>2, <2>3, WriterPings
    <2>4. CASE UNCHANGED loop
      <3>1. Handshaking'
        BY <2>1, <2>4, HandshakingKept DEF PingInv
      <3>2. Kept(client) /\ Kept(Other(client))
        BY <2>1 DEF Kept
      <3> QED
        BY <2>1, <3>1, <3>2, UnderWayKept DEF PingInv
    <2> QED
      BY <2>2, <2>3, <2>4
  <1>6. CASE SenderLoopEnd
    BY <1>1, <1>6, WriterPings DEF SenderLoopEnd, connVars, pingVars
  <1>7. CASE PipeReceive \/ StartSender \/ SenderClose \/ UserClose \/ (\E m \in Messages : SendAsync(m))
             \/ UNCHANGED vars
    <2>1. UNCHANGED <<client, ping, pong, stream, wire, loop>>
      BY <1>7 DEF PipeReceive, StartSender, StartClose, StartCancel, StartEnd, SenderClose, UserCloseCancel,
                  CloseWorldEnd, UserClose, SendAsync, vars, connVars, pingVars
    <2>2. Handshaking'
      BY <2>1, HandshakingKept DEF PingInv
    <2>3. Kept(client) /\ Kept(Other(client))
      BY <2>1 DEF Kept
    <2> QED
      BY <2>1, <2>2, <2>3, UnderWayKept DEF PingInv
  <1>8. CASE CallbackEnds
    <2>1. UNCHANGED <<client, ping, pong, stream>> /\ loop["R"] = "callback"
      BY <1>8 DEF CallbackEnds, connVars, pingVars
    <2>2. \E next : next \notin Early /\ loop' = [loop EXCEPT !["R"] = next]
      BY <1>8, MsgLoop DEF AfterMsg
    <2>3. (\E result \in {"ok", "failed", "cancelled"} : Write("R", Simple("ERR"), result)) \/ UNCHANGED wire
      <3>1. CASE UNCHANGED wire
        BY <3>1
      <3>2. CASE SendFault(wire)
        BY <3>2 DEF SendFault, Write, WriteResults, Other
      <3> QED
        BY <1>8, <3>1, <3>2 DEF CallbackEnds
    <2>4. Simple("ERR") \in Packet
      BY SimpleType
    <2> QED
      BY <1>1, <2>1, <2>2, <2>3, <2>4, WriterPings
  <1>9. CASE StartReceiverClose
    <2>1. UNCHANGED <<client, ping, pong, stream>> /\ loop["R"] = "leaving"
      BY <1>9 DEF StartReceiverClose, connVars, pingVars
    <2>2. PICK result \in WriteResults("R") :
            /\ Write("R", Simple("CLOSE"), result)
            /\ loop' = [loop EXCEPT !["R"] = IF result = "failed" THEN "failed" ELSE "ended"]
      BY <1>9 DEF StartReceiverClose
    <2>3. \E next : next \notin Early /\ loop' = [loop EXCEPT !["R"] = next]
      BY <2>2
    <2> QED
      BY <1>1, <2>1, <2>2, <2>3, WriterPings
  <1> QED
    BY <1>2, <1>3, <1>4, <1>5, <1>6, <1>7, <1>8, <1>9 DEF PipeWorldSend

(* A connection that breaks may lose them. *)
LEMMA BreakPings == TypeInv /\ PingInv /\ Break => PingInv'
  <1> SUFFICES ASSUME TypeInv, PingInv, Break PROVE PingInv'
    OBVIOUS
  <1> USE DEF TypeInv, TypeOK, ConnectionOK, PingInv
  <1>1. UNCHANGED <<client, ping, pong, loop>> /\ stream' # "up"
    BY MessageAssumption DEF Break, connVars, pingVars
  <1>2. client \in Side /\ (wire[client] = <<>> => wire'[client] = <<>>)
    BY DEF Break
  <1>3. Handshaking'
    BY <1>1, <1>2, HandshakingKept
  <1> QED
    BY <1>1, <1>3 DEF PingUnderWay, broken

LEMMA PingNext == TypeInv /\ PingInv /\ [Next]_vars => PingInv'
  BY HandshakeShakes, LoopPings, PingPings, MessagePings, OtherPings, BreakPings
  DEF Next, SenderLoop, ReceiverLoop, Side

(* PingLoop never gives up a connection that could still answer: when its  *)
(* delay has passed without a PONG, the stream is broken or a receive loop *)
(* has stopped taking packets (PingLoop, OnPingReceived, OnPongReceived).  *)
THEOREM PingIsFair == Spec => PingLoopIsFair
  <1>1. Spec => [](TypeInv /\ PingInv)
    BY TypeInvariant, PingInit, PingNext, PTL DEF Spec
  <1>2. ASSUME TypeInv, PingInv, [Next]_vars, ping' = "timedout", ping # "timedout"
        PROVE  broken \/ \E x \in Side : Over(loop[x]) \/ loop[x] \in {"deliver", "callback", "closing"}
    <2>1. PingTimeout
      BY <1>2 DEF Next, Handshake, HandshakeClientOpen, HandshakeServer, HandshakeClientAck, Started,
                  SenderLoop, ReceiverLoop, LoopStep, EndOfStream, OnPingReceived, OnPongReceived,
                  OnAckReceived, OnErrReceived, SenderOnCloseReceived, SenderLoopEnd, OnMsgReceived,
                  CallbackEnds, SendAck, ReceiverOnCloseReceived, StartReceiverClose, PingLoop,
                  SendPing, PingEnd, PipeWorldSend,
                  PipeReceive, PipeSend, PipeClose, StartSender, StartClose, StartCancel, StartEnd,
                  SenderClose, UserCloseCancel, CloseWorldEnd, SendAsync, UserClose, ReceiveAsync,
                  ReceiverClose, Break, vars, pingVars
    <2>2. ping = "wait" /\ ~pong /\ Quiet
      BY <2>1 DEF PingTimeout
    <2>3. SUFFICES ASSUME ~broken,
                          \A x \in Side : ~Over(loop[x]) /\ loop[x] \notin {"deliver", "callback", "closing"}
                   PROVE  FALSE
      OBVIOUS
    <2>4. \A x \in Side : wire[x] = <<>>
      BY <2>2, <2>3 DEF Quiet
    <2>5. client \in Side /\ Other(client) \in Side
      BY <1>2, OtherSide DEF TypeInv, TypeOK, ConnectionOK
    <2>6. ToSet(wire[client]) = {} /\ ToSet(wire[Other(client)]) = {}
      BY <2>4, <2>5, FewSet
    <2> QED
      BY <1>2, <2>2, <2>3, <2>6 DEF PingInv, PingUnderWay, Stuck, Over
  <1>3. TypeInv /\ PingInv /\ [Next]_vars =>
          [ping' = "timedout" /\ ping # "timedout" =>
             broken \/ \E x \in Side : Over(loop[x]) \/ loop[x] \in {"deliver", "callback", "closing"}]_vars
    BY <1>2
  <1> QED
    BY <1>1, <1>3, PTL DEF Spec, PingLoopIsFair
=============================================================================
