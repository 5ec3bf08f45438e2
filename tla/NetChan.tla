------------------------------ MODULE NetChan ------------------------------
(***************************************************************************)
(* One connection of a net-chan: a NetChanSender ("S") and a NetChanReceiver *)
(* ("R") joined by a TCP stream (Chan/NetChan/NetChanBase.cs,              *)
(* NetChanSenderBase.cs, NetChanReceiverBase.cs and their clients and      *)
(* servers).  Each side runs a receive loop; the sender also pipes its     *)
(* `world' into the stream, and the client side pings.                     *)
(*                                                                         *)
(* The worlds are ChanAsync channels, taken here at the level of FifoChan: *)
(* a queue of unclaimed messages or a pending receive.  They are modelled  *)
(* as built, where a receive on a closed channel waits for ever (see       *)
(* ChanAsync, Invoke).  A packet is one write and is read as a whole.      *)
(***************************************************************************)
EXTENDS Integers, Sequences, FiniteSets

CONSTANTS
  Messages,    \* messages given to SendAsync, each once
  Fault,       \* a receive that throws what reading a message threw
  Breaks,      \* how the connection may break: a set of "closed" and "silent"
  Pinging      \* whether the ping delay, a minute by default, ever passes

ASSUME MessageAssumption ==
  /\ Fault \notin Messages
  /\ Breaks \subseteq {"closed", "silent"}
  /\ Pinging \in BOOLEAN

Side == {"S", "R"}
Other(x) == IF x = "S" THEN "R" ELSE "S"
Closer == {"user", "loop", "start"}   \* who calls Close on the sender's world

Packet == [op : {"MSG"}, msg : Messages]
          \cup [op : {"OPEN", "ACK", "PING", "PONG", "CLOSE", "ERR"}]
Msg(m) == [op |-> "MSG", msg |-> m]
Simple(op) == [op |-> op]

VARIABLES
  client,     \* the side that connects: sends OPEN, and pings
  keyMatches, \* whether it presents the key the server expects
  wire,       \* packets on their way to each side
  stream,     \* the connection: "up", "closed", or "silent": gone unnoticed
  loop,       \* where each side's Start and ReceiveLoop are
  token,      \* whether cancelSource of each side is still uncancelled
  pong,       \* pongReceived of the client side
  ping,       \* the client side's PingLoop
  \* the sender
  queue,      \* messages waiting in world
  addingDone, \* world.Close has begun
  closes,     \* the calls of world.Close
  closeTask,  \* the first of them, whose task they all return
  pipe,       \* PipeWorldSend
  current,    \* the message PipeWorldSend has received, in a sequence
  start,      \* StartSender, after the handshake
  userClose,  \* the Close that the owner of the sender calls
  sendTask,   \* the task of each SendAsync
  written,    \* messages written to the stream, in order
  \* the receiver
  inWorld,    \* what OnMsgReceived has sent to world and nobody has received
  receive,    \* the consumer's ReceiveAsync
  got         \* what the consumer has received, in order

connVars == <<client, keyMatches>>
pingVars == <<pong, ping>>
worldVars == <<queue, addingDone, closes, closeTask>>
senderVars == <<worldVars, pipe, current, start, userClose, sendTask, written>>
receiverVars == <<inWorld, receive, got>>
vars == <<connVars, wire, stream, loop, token, pingVars, senderVars, receiverVars>>

Init ==
  /\ client \in Side
  /\ keyMatches \in BOOLEAN
  /\ wire = [x \in Side |-> <<>>]
  /\ stream = "up"
  /\ loop = [x \in Side |-> IF x = client THEN "connect" ELSE "accept"]
  /\ token = [x \in Side |-> TRUE]
  /\ pong = TRUE
  /\ ping = "off"
  /\ queue = <<>>
  /\ addingDone = FALSE
  /\ closes = [k \in Closer |-> "none"]
  /\ closeTask = "none"
  /\ pipe = "off"
  /\ current = <<>>
  /\ start = "off"
  /\ userClose = "none"
  /\ sendTask = [m \in Messages |-> "none"]
  /\ written = <<>>
  /\ inWorld = <<>>
  /\ receive = "idle"
  /\ got = <<>>

-----------------------------------------------------------------------------
(***************************************************************************)
(* The stream: WriteAsync with the side's token, and ReadAsync             *)
(***************************************************************************)

broken == stream # "up"

(* A loop or a pipe has returned or thrown.  A ReceiveLoop returns         *)
(* "closed" by a CLOSE packet and "ended" by a TaskCanceledException, with *)
(* StartReceiver's Close still to come when it is "leaving".               *)
Over(state) == state \in {"closed", "ended", "leaving", "failed"}

(* A write with a cancelled token is cancelled; one to a closed stream     *)
(* fails, one to a silent stream is lost without an error.                 *)
WriteResults(x) ==
  IF ~token[x] THEN {"cancelled"}
  ELSE IF stream = "closed" THEN {"failed"} ELSE {"ok"}

Write(x, packet, result) ==
  wire' = IF result = "ok" /\ ~broken
            THEN [wire EXCEPT ![Other(x)] = Append(@, packet)] ELSE wire

Reads(x, op) ==
  /\ loop[x] = "reading"
  /\ wire[x] # <<>>
  /\ Head(wire[x]).op = op

Consume(x) == wire' = [wire EXCEPT ![x] = Tail(@)]

(* The connection is lost: its ends are told, with or without what was on  *)
(* its way, or nobody is told, or only later.                              *)
Break ==
  /\ stream # "closed"
  /\ stream' \in Breaks \ {stream}
  /\ wire' \in {IF stream' = "closed" THEN wire ELSE [x \in Side |-> <<>>],
                [x \in Side |-> <<>>]}
  /\ UNCHANGED <<connVars, loop, token, pingVars, senderVars, receiverVars>>

-----------------------------------------------------------------------------
(***************************************************************************)
(* The handshake: Start(key) of the client and server classes              *)
(***************************************************************************)

(* ReceiveHeader: a read that has begun is not cancelled by the token, one *)
(* that has not begun ends the loop.                                       *)
ReceiveHeader(x) == IF token[x] THEN "reading" ELSE "ended"

(* The handshake of side x is over: its loops start. *)
Started(x) ==
  /\ loop' = [loop EXCEPT ![x] = ReceiveHeader(x)]
  /\ ping' = IF x = client THEN "wait" ELSE ping
  /\ IF x = "S" THEN pipe' = "receive" /\ start' = "whenAny" ELSE UNCHANGED <<pipe, start>>

HandshakeClientOpen ==
  /\ loop[client] = "connect"
  /\ \E result \in WriteResults(client) :
       /\ Write(client, Simple("OPEN"), result)
       /\ loop' = [loop EXCEPT ![client] = IF result = "ok" THEN "opened" ELSE "failed"]
  /\ UNCHANGED <<connVars, stream, token, pingVars, senderVars, receiverVars>>

HandshakeServer ==
  LET server == Other(client) IN
  /\ loop[server] = "accept"
  /\ wire[server] # <<>>
  /\ \E result \in WriteResults(server) :
       /\ wire' = [wire EXCEPT
            ![server] = Tail(@),
            ![client] = IF result = "ok" /\ ~broken
                          THEN Append(@, Simple(IF keyMatches THEN "ACK" ELSE "ERR")) ELSE @]
       /\ IF keyMatches /\ result = "ok"
            THEN Started(server)
            ELSE loop' = [loop EXCEPT ![server] = "failed"] /\ UNCHANGED <<ping, pipe, start>>
  /\ UNCHANGED <<connVars, stream, token, pong, worldVars, current, userClose,
                 sendTask, written, receiverVars>>

HandshakeClientAck ==
  /\ loop[client] = "opened"
  /\ wire[client] # <<>>
  /\ Consume(client)
  /\ IF Head(wire[client]).op = "ACK"
       THEN Started(client) /\ UNCHANGED token
       ELSE /\ loop' = [loop EXCEPT ![client] = "failed"]
            /\ token' = [token EXCEPT ![client] = FALSE]
            /\ UNCHANGED <<ping, pipe, start>>
  /\ UNCHANGED <<connVars, stream, pong, worldVars, current, userClose, sendTask,
                 written, receiverVars>>

-----------------------------------------------------------------------------
(***************************************************************************)
(* ReceiveLoop                                                             *)
(***************************************************************************)

BugSpin(x) ==
  /\ loop[x] = "reading" /\ stream = "closed" /\ wire[x] = <<>> /\ UNCHANGED vars

(* ReceiveBytes: the stream ended; the handshake fails on it, too. *)
EndOfStream(x) ==
  /\ loop[x] \in {"accept", "opened", "reading"}
  /\ stream = "closed"
  /\ wire[x] = <<>>
  /\ loop' = [loop EXCEPT ![x] = "failed"]
  /\ UNCHANGED <<connVars, wire, stream, token, pingVars, senderVars, receiverVars>>

(* The next header is being read before the answer is written. *)
OnPingReceived(x) ==
  /\ Reads(x, "PING")
  /\ \E result \in WriteResults(x) :
       /\ wire' = [wire EXCEPT ![x] = Tail(@),
                               ![Other(x)] = IF result = "ok" /\ ~broken
                                               THEN Append(@, Simple("PONG")) ELSE @]
       /\ loop' = [loop EXCEPT ![x] = CASE result = "ok" -> "reading"
                                        [] result = "cancelled" -> "ended"
                                        [] result = "failed" -> "failed"]
  /\ UNCHANGED <<connVars, stream, token, pingVars, senderVars, receiverVars>>

BugForgetPong(x) ==
  /\ Reads(x, "PONG")
  /\ Consume(x)
  /\ loop' = [loop EXCEPT ![x] = ReceiveHeader(x)]
  /\ UNCHANGED <<connVars, stream, token, pingVars, senderVars, receiverVars>>

OnPongReceived(x) ==
  /\ Reads(x, "PONG")
  /\ Consume(x)
  /\ pong' = TRUE
  /\ loop' = [loop EXCEPT ![x] = ReceiveHeader(x)]
  /\ UNCHANGED <<connVars, stream, token, ping, senderVars, receiverVars>>

OnAckReceived(x) ==
  /\ Reads(x, "ACK")
  /\ Consume(x)
  /\ loop' = [loop EXCEPT ![x] = ReceiveHeader(x)]
  /\ UNCHANGED <<connVars, stream, token, pingVars, senderVars, receiverVars>>

OnErrReceived(x) ==
  /\ Reads(x, "ERR")
  /\ Consume(x)
  /\ token' = [token EXCEPT ![x] = FALSE]
  /\ loop' = [loop EXCEPT ![x] = "failed"]
  /\ UNCHANGED <<connVars, stream, pingVars, senderVars, receiverVars>>

-----------------------------------------------------------------------------
(***************************************************************************)
(* PingLoop, on the client side                                            *)
(***************************************************************************)

(* The ping delay (a minute by default) is long: what the stream carries   *)
(* has arrived by then, and a loop that can take it has.                   *)
Quiet ==
  /\ Pinging
  /\ \A x \in Side :
       \/ Over(loop[x]) \/ loop[x] \in {"deliver", "callback", "closing"}
       \/ loop[x] = "reading" /\ wire[x] = <<>> /\ stream # "closed"

SendPing ==
  /\ ping = "wait"
  /\ token[client]
  /\ Quiet
  /\ pong
  /\ pong' = FALSE
  /\ \E result \in WriteResults(client) :
       /\ Write(client, Simple("PING"), result)
       /\ ping' = IF result = "ok" THEN "wait" ELSE "failed"
  /\ UNCHANGED <<connVars, stream, loop, token, senderVars, receiverVars>>

PingTimeout ==
  /\ ping = "wait"
  /\ token[client]
  /\ Quiet
  /\ ~pong
  /\ ping' = "timedout"
  /\ token' = [token EXCEPT ![client] = FALSE]
  /\ UNCHANGED <<connVars, wire, stream, loop, pong, senderVars, receiverVars>>

PingEnd ==
  /\ ping = "wait"
  /\ ~token[client]
  /\ ping' = "ended"
  /\ UNCHANGED <<connVars, wire, stream, loop, token, pong, senderVars, receiverVars>>

-----------------------------------------------------------------------------
(***************************************************************************)
(* The sender's world                                                      *)
(***************************************************************************)

(* SendAsync: world hands the message to a pending receive or lets it      *)
(* wait; after world.Close only a pending receive takes it.                *)
SendAsync(m) ==
  /\ sendTask[m] = "none"
  /\ \/ /\ pipe = "pending"
        /\ current' = <<m>>
        /\ pipe' = "send"
        /\ sendTask' = [sendTask EXCEPT ![m] = "open"]
        /\ UNCHANGED queue
     \/ /\ pipe # "pending"
        /\ ~addingDone
        /\ queue' = Append(queue, m)
        /\ sendTask' = [sendTask EXCEPT ![m] = "open"]
        /\ UNCHANGED <<pipe, current>>
     \/ /\ pipe # "pending"
        /\ addingDone
        /\ sendTask' = [sendTask EXCEPT ![m] = "cancelled"]
        /\ UNCHANGED <<queue, pipe, current>>
  /\ UNCHANGED <<connVars, wire, stream, loop, token, pingVars, addingDone, closes,
                 closeTask, start, userClose, written, receiverVars>>

(* world.Close() of caller k begins ... *)
CloseWorld(k) ==
  /\ closes' = [closes EXCEPT ![k] = "poll"]
  /\ addingDone' = TRUE
  /\ closeTask' = IF closeTask = "none" THEN k ELSE closeTask

BugCloseAtOnce(k) ==
  /\ closes[k] = "poll"
  /\ closes' = [closes EXCEPT ![k] = "done"]
  /\ pipe' = IF pipe = "pending" THEN "close" ELSE pipe
  /\ UNCHANGED <<connVars, wire, stream, loop, token, pingVars, queue, addingDone,
                 closeTask, current, start, userClose, sendTask, written, receiverVars>>

(* ... and when nothing waits it cancels the receive that PipeWorldSend is *)
(* waiting in, which then goes on to send CLOSE.                           *)
CloseWorldEnd(k) ==
  /\ closes[k] = "poll"
  /\ queue = <<>>
  /\ closes' = [closes EXCEPT ![k] = "done"]
  /\ pipe' = IF pipe = "pending" THEN "close" ELSE pipe
  /\ UNCHANGED <<connVars, wire, stream, loop, token, pingVars, queue, addingDone,
                 closeTask, current, start, userClose, sendTask, written, receiverVars>>

(* All calls return the task of the first. *)
WorldClosed(k) == closes[k] # "none" /\ closes[closeTask] = "done"

-----------------------------------------------------------------------------
(***************************************************************************)
(* PipeWorldSend                                                           *)
(***************************************************************************)

(* world.ReceiveAsync *)
PipeReceive ==
  /\ pipe = "receive"
  /\ IF queue = <<>>
       THEN pipe' = "pending" /\ UNCHANGED <<queue, current>>
       ELSE pipe' = "send" /\ current' = <<Head(queue)>> /\ queue' = Tail(queue)
  /\ UNCHANGED <<connVars, wire, stream, loop, token, pingVars, addingDone, closes,
                 closeTask, start, userClose, sendTask, written, receiverVars>>

(* SendMsg and SetCompleted.  What fails, serialization or write, fails    *)
(* the task of this message and ends the pipe; a cancelled write ends it   *)
(* by the way of CLOSE.  The SerDes may reject any message.             *)
BugDropOnCancel(result) == IF result = "failed" THEN "failed" ELSE "ok"
SendOutcome(result) == IF result = "ok" THEN "ok" ELSE "failed"

BugCatchAll(result) == IF result = "ok" THEN "receive" ELSE "close"
AfterSend(result) ==
  CASE result = "ok" -> "receive"
    [] result = "cancelled" -> "close"
    [] result = "failed" -> "failed"

PipeSend ==
  /\ pipe = "send"
  /\ LET m == Head(current) IN
     \E result \in WriteResults("S") \cup {"failed"} :
       /\ Write("S", Msg(m), result)
       /\ written' = IF result = "ok" THEN Append(written, m) ELSE written
       /\ sendTask' = [sendTask EXCEPT ![m] = SendOutcome(result)]
       /\ pipe' = AfterSend(result)
  /\ current' = <<>>
  /\ UNCHANGED <<connVars, stream, loop, token, pingVars, worldVars, start, userClose,
                 receiverVars>>

(* SendSimple(CLOSE) *)
PipeClose ==
  /\ pipe = "close"
  /\ \E result \in WriteResults("S") :
       /\ Write("S", Simple("CLOSE"), result)
       /\ pipe' = IF result = "ok" THEN "ended" ELSE "failed"
  /\ UNCHANGED <<connVars, stream, loop, token, pingVars, worldVars, current, start,
                 userClose, sendTask, written, receiverVars>>

-----------------------------------------------------------------------------
(***************************************************************************)
(* The sender: StartSender, Close and OnCloseReceived                      *)
(***************************************************************************)

(* WhenAny(receiverT, senderT) completes whether they ended well or not,   *)
(* and never throws; then Close, and CancelWorld is never called.          *)
StartClose ==
  /\ start = "whenAny"
  /\ Over(loop["S"]) \/ Over(pipe)
  /\ start' = "close"
  /\ CloseWorld("start")
  /\ UNCHANGED <<connVars, wire, stream, loop, token, pingVars, queue, pipe, current,
                 userClose, sendTask, written, receiverVars>>

(* CloseOnce: RequestCancel once world is closed. *)
StartCancel ==
  /\ start = "close"
  /\ WorldClosed("start")
  /\ start' = "whenAll"
  /\ token' = [token EXCEPT !["S"] = FALSE]
  /\ UNCHANGED <<connVars, wire, stream, loop, pingVars, worldVars, pipe, current,
                 userClose, sendTask, written, receiverVars>>

StartEnd ==
  /\ start = "whenAll"
  /\ Over(loop["S"]) /\ Over(pipe)
  /\ start' = "ended"
  /\ UNCHANGED <<connVars, wire, stream, loop, token, pingVars, worldVars, pipe, current,
                 userClose, sendTask, written, receiverVars>>

(* Close by the owner of the sender. *)
UserClose ==
  /\ userClose = "none"
  /\ userClose' = "close"
  /\ CloseWorld("user")
  /\ UNCHANGED <<connVars, wire, stream, loop, token, pingVars, queue, pipe, current,
                 start, sendTask, written, receiverVars>>

UserCloseCancel ==
  /\ userClose = "close"
  /\ WorldClosed("user")
  /\ userClose' = "done"
  /\ token' = [token EXCEPT !["S"] = FALSE]
  /\ UNCHANGED <<connVars, wire, stream, loop, pingVars, worldVars, pipe, current, start,
                 sendTask, written, receiverVars>>

(* The receiver wants no more messages: world.Close, and the loop ends.    *)
SenderOnCloseReceived ==
  /\ Reads("S", "CLOSE")
  /\ Consume("S")
  /\ loop' = [loop EXCEPT !["S"] = "closing"]
  /\ CloseWorld("loop")
  /\ UNCHANGED <<connVars, stream, token, pingVars, queue, pipe, current, start, userClose,
                 sendTask, written, receiverVars>>

SenderLoopEnd ==
  /\ loop["S"] = "closing"
  /\ WorldClosed("loop")
  /\ loop' = [loop EXCEPT !["S"] = "closed"]
  /\ UNCHANGED <<connVars, wire, stream, token, pingVars, senderVars, receiverVars>>

-----------------------------------------------------------------------------
(***************************************************************************)
(* The receiver                                                            *)
(***************************************************************************)

(* Where the loop goes when the consumer has taken this from world: for a  *)
(* message it awaits the Task of the consumer's callback, with the         *)
(* exception it has handed over, here in Fault, it ends.                   *)
AfterDelivery(item) == IF item = Fault THEN {"failed", "leaving"} ELSE {"callback"}

BugLostWakeup(item) ==
  inWorld' = <<item>> /\ loop' = [loop EXCEPT !["R"] = "deliver"] /\ UNCHANGED <<receive, got>>

BugKeepReading(item) ==
  IF receive = "pending"
    THEN /\ got' = Append(got, item)
         /\ receive' = "idle"
         /\ loop' = [loop EXCEPT !["R"] = "callback"]
         /\ UNCHANGED inWorld
    ELSE inWorld' = <<item>> /\ loop' = [loop EXCEPT !["R"] = "deliver"] /\ UNCHANGED <<receive, got>>

BugDoNotWait(item) ==
  /\ loop' = [loop EXCEPT !["R"] = "callback"]
  /\ IF receive = "pending"
       THEN got' = Append(got, item) /\ receive' = "idle" /\ UNCHANGED inWorld
       ELSE inWorld' = <<item>> /\ UNCHANGED <<receive, got>>

(* world.SendAsync(item) by the receive loop: to the consumer if it waits, *)
(* else the loop waits until the item is received.                         *)
Deliver(item) ==
  IF receive = "pending"
    THEN /\ got' = Append(got, item)
         /\ receive' = "idle"
         /\ \E next \in AfterDelivery(item) : loop' = [loop EXCEPT !["R"] = next]
         /\ UNCHANGED inWorld
    ELSE /\ inWorld' = <<item>>
         /\ loop' = [loop EXCEPT !["R"] = "deliver"]
         /\ UNCHANGED <<receive, got>>

(* The catch of OnMsgReceived: ERR to the sender, the exception to the     *)
(* consumer.  `packets' is what the wires carry without the ERR.           *)
SendFault(packets) ==
  \E result \in WriteResults("R") :
    /\ wire' = IF result = "ok" /\ ~broken
                 THEN [packets EXCEPT !["S"] = Append(@, Simple("ERR"))] ELSE packets
    /\ IF result = "ok"
         THEN Deliver(Fault)
         ELSE /\ loop' = [loop EXCEPT !["R"] = IF result = "cancelled" THEN "ended" ELSE "failed"]
              /\ UNCHANGED receiverVars

(* OnMsgReceived: a message goes to world, unless SerDes rejects it.  With *)
(* a cancelled token the bytes are not read any more.                      *)
OnMsgReceived ==
  /\ Reads("R", "MSG")
  /\ \/ /\ ~token["R"]
        /\ Consume("R")
        /\ loop' = [loop EXCEPT !["R"] = "ended"]
        /\ UNCHANGED receiverVars
     \/ /\ token["R"]
        /\ Consume("R")
        /\ Deliver(Head(wire["R"]).msg)
     \/ /\ token["R"]
        /\ SendFault([wire EXCEPT !["R"] = Tail(@)])
  /\ UNCHANGED <<connVars, stream, token, pingVars, senderVars>>

(* The consumer receives: what waits in world, or it waits itself.  It has *)
(* the message at once; the Task of its callback is still to end.          *)
ReceiveAsync ==
  /\ receive = "idle"
  /\ IF inWorld = <<>>
       THEN receive' = "pending" /\ UNCHANGED <<loop, inWorld, got>>
       ELSE /\ got' = got \o inWorld
            /\ inWorld' = <<>>
            /\ \E next \in AfterDelivery(Head(inWorld)) : loop' = [loop EXCEPT !["R"] = next]
            /\ UNCHANGED receive
  /\ UNCHANGED <<connVars, wire, stream, token, pingVars, senderVars>>

(* The Task of the consumer's callback ends, and world.SendAsync with it:  *)
(* well, or in an exception or cancelled, which OnMsgReceived catches.     *)
CallbackEnds ==
  /\ loop["R"] = "callback"
  /\ \/ /\ loop' = [loop EXCEPT !["R"] = "ack"]
        /\ UNCHANGED <<wire, receiverVars>>
     \/ SendFault(wire)
  /\ UNCHANGED <<connVars, stream, token, pingVars, senderVars>>

(* "inform sender that msg has been received fine".  When the ACK cannot   *)
(* be written nor can the ERR, and the loop ends by that exception.        *)
SendAck ==
  /\ loop["R"] = "ack"
  /\ \E result \in WriteResults("R") :
       /\ Write("R", Simple("ACK"), result)
       /\ loop' = [loop EXCEPT !["R"] = CASE result = "ok" -> "reading"
                                          [] result = "cancelled" -> "ended"
                                          [] result = "failed" -> "failed"]
  /\ UNCHANGED <<connVars, stream, token, pingVars, senderVars, receiverVars>>

(* The sender is done: world.Close cancels the waiting consumer, then      *)
(* RequestCancel; StartReceiver's Close cannot write its CLOSE any more.   *)
ReceiverOnCloseReceived ==
  /\ Reads("R", "CLOSE")
  /\ Consume("R")
  /\ receive' = IF receive = "pending" THEN "cancelled" ELSE receive
  /\ token' = [token EXCEPT !["R"] = FALSE]
  /\ loop' = [loop EXCEPT !["R"] = "closed"]
  /\ UNCHANGED <<connVars, stream, pingVars, senderVars, inWorld, got>>

(* StartReceiver's Close after a loop that an exception has ended which    *)
(* ReceiveLoop takes for a cancelled read: CLOSE asks the sender to stop.  *)
StartReceiverClose ==
  /\ loop["R"] = "leaving"
  /\ \E result \in WriteResults("R") :
       /\ Write("R", Simple("CLOSE"), result)
       /\ loop' = [loop EXCEPT !["R"] = IF result = "failed" THEN "failed" ELSE "ended"]
  /\ UNCHANGED <<connVars, stream, token, pingVars, senderVars, receiverVars>>

(* Close by the owner of the receiver: CLOSE asks the sender to stop. *)
ReceiverClose ==
  /\ loop["R"] \in {"reading", "deliver", "callback", "ack"}
  /\ Simple("CLOSE") \notin {wire["S"][i] : i \in DOMAIN wire["S"]}
  /\ closes["loop"] = "none"
  /\ \E result \in WriteResults("R") : result = "ok" /\ Write("R", Simple("CLOSE"), result)
  /\ UNCHANGED <<connVars, stream, loop, token, pingVars, senderVars, receiverVars>>

-----------------------------------------------------------------------------
Handshake == HandshakeClientOpen \/ HandshakeServer \/ HandshakeClientAck

LoopStep(x) ==
  EndOfStream(x) \/ OnPingReceived(x) \/ OnPongReceived(x)
  \/ OnAckReceived(x) \/ OnErrReceived(x)

SenderLoop == LoopStep("S") \/ SenderOnCloseReceived \/ SenderLoopEnd
ReceiverLoop ==
  LoopStep("R") \/ OnMsgReceived \/ SendAck \/ ReceiverOnCloseReceived \/ StartReceiverClose
PingLoop == SendPing \/ PingTimeout \/ PingEnd
PipeWorldSend == PipeReceive \/ PipeSend \/ PipeClose
StartSender == StartClose \/ StartCancel \/ StartEnd
SenderClose == UserCloseCancel \/ \E k \in Closer : CloseWorldEnd(k)

Next ==
  \/ Handshake
  \/ SenderLoop \/ ReceiverLoop \/ PingLoop
  \/ PipeWorldSend \/ StartSender \/ SenderClose
  \/ \E m \in Messages : SendAsync(m)
  \/ UserClose \/ ReceiveAsync \/ CallbackEnds \/ ReceiverClose
  \/ Break

Spec == Init /\ [][Next]_vars

(* Asynchronous code runs on when what it awaits is there. *)
Fairness ==
  /\ WF_vars(Handshake)
  /\ WF_vars(SenderLoop)
  /\ WF_vars(ReceiverLoop)
  /\ WF_vars(PipeWorldSend)
  /\ WF_vars(StartSender)
  /\ WF_vars(SenderClose)

(* A consumer that keeps receiving, as ChanEvent and Chan.Pipe do, and     *)
(* whose callbacks end.                                                    *)
FairSpec == Spec /\ Fairness /\ WF_vars(ReceiveAsync) /\ WF_vars(CallbackEnds)
=============================================================================
