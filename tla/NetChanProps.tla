--------------------------- MODULE NetChanProps ---------------------------
(***************************************************************************)
(* What one connection of a net-chan promises.                             *)
(***************************************************************************)
EXTENDS NetChan, SequencesExt

AtMostOne(S) == {<<>>} \cup {<<s>> : s \in S}
Distinct(s) == \A i, j \in DOMAIN s : i # j => s[i] # s[j]

LoopStates == {"connect", "accept", "opened", "reading", "deliver", "callback", "ack",
               "closing", "closed", "leaving", "ended", "failed"}

(* Types, and which control states exclude each other: PipeWorldSend holds a *)
(* message exactly while it sends it, and the world of the receiver holds one *)
(* exactly while OnMsgReceived waits for its consumer.                     *)
ConnectionOK ==
  /\ client \in Side /\ keyMatches \in BOOLEAN
  /\ wire \in [Side -> Seq(Packet)]
  /\ stream \in {"up", "closed", "silent"}
  /\ loop \in [Side -> LoopStates]
  /\ token \in [Side -> BOOLEAN]
  /\ pong \in BOOLEAN
  /\ ping \in {"off", "wait", "timedout", "ended", "failed"}

WorldOK ==
  /\ queue \in Seq(Messages)
  /\ addingDone \in BOOLEAN
  /\ closes \in [Closer -> {"none", "poll", "done"}]
  /\ closeTask \in Closer \cup {"none"}
  /\ addingDone <=> closeTask # "none"

SenderOK ==
  /\ pipe \in {"off", "receive", "pending", "send", "close", "ended", "failed"}
  /\ current \in AtMostOne(Messages)
  /\ (current # <<>>) <=> (pipe = "send")
  /\ start \in {"off", "whenAny", "close", "whenAll", "ended"}
  /\ userClose \in {"none", "close", "done"}
  /\ sendTask \in [Messages -> {"none", "open", "ok", "failed", "cancelled"}]
  /\ written \in Seq(Messages)

ReceiverOK ==
  /\ inWorld \in AtMostOne(Messages \cup {Fault})
  /\ (inWorld # <<>>) <=> (loop["R"] = "deliver")
  /\ receive \in {"idle", "pending", "cancelled"}
  /\ got \in Seq(Messages \cup {Fault})

TypeOK == ConnectionOK /\ WorldOK /\ SenderOK /\ ReceiverOK

(* The MSG packets carry these messages and no others, in this order.      *)
Carries(packets, messages) ==
  LET carried == {i \in DOMAIN packets : packets[i].op = "MSG"} IN
  /\ \A i \in carried : \E k \in DOMAIN messages : packets[i].msg = messages[k]
  /\ \A k \in DOMAIN messages : \E i \in carried : packets[i].msg = messages[k]
  /\ \A i, j \in carried, k, l \in DOMAIN messages :
       i < j /\ packets[i].msg = messages[k] /\ packets[j].msg = messages[l] => k < l

(* The messages among what was received: an exception ends the flow.       *)
Read(items) == IF items # <<>> /\ Last(items) = Fault THEN Front(items) ELSE items

-----------------------------------------------------------------------------
(* What the consumer gets is, in the order of sending and each message     *)
(* once, an initial part of what was written to the stream: an error or a  *)
(* break ends the flow but makes no hole in it (OnMsgReceived, one packet  *)
(* at a time).                                                             *)
NoHoles == Distinct(written) /\ IsPrefix(Read(got \o inWorld), written)

(* While both ends are up nothing is missing: what has been written is got, *)
(* in the receiver's world, or on its way, in this order.                  *)
NothingMissing ==
  (~broken /\ ~Over(loop["R"]) /\ inWorld # <<Fault>>) =>
    LET taken == got \o inWorld IN
    /\ IsPrefix(taken, written)
    /\ Carries(wire["R"], SubSeq(written, Len(taken) + 1, Len(written)))

(* A receiver that ended by the sender's CLOSE has been given all messages *)
(* there were and none will follow: PipeWorldSend writes CLOSE only after  *)
(* the sender's world has been drained with no send failing, and           *)
(* OnCloseReceived comes after the consumers of all messages.              *)
CloseIsComplete ==
  loop["R"] = "closed" =>
     /\ got = written /\ inWorld = <<>>
     /\ pipe = "ended" /\ queue = <<>>
     /\ \A m \in Messages : sendTask[m] \in {"none", "ok", "cancelled"}

(* SendAsync tells the truth to the sender: its task is completed for the  *)
(* messages that are on the stream or past it and for no other, so what    *)
(* failed or was cancelled is never delivered; a message whose task is     *)
(* open is still in the sender (DataWithErrorInfo, PipeWorldSend).         *)
SendTaskIsTrue ==
  \A m \in Messages :
    /\ sendTask[m] = "ok" <=> m \in ToSet(written)
    /\ sendTask[m] = "open" <=> m \in ToSet(queue) \cup ToSet(current)

(* A Close of the sender that has completed leaves no message behind: all  *)
(* that SendAsync accepted has been taken by PipeWorldSend, and at most the *)
(* one it is writing is undecided (CloseOnce awaits world.Close, which     *)
(* polls; a send that comes later is cancelled or taken at once).          *)
ClosedSenderIsDrained ==
  userClose = "done" =>
    \A m \in Messages : sendTask[m] = "open" => current = <<m>>

(* PingLoop gives a connection up only if it is broken or one of the two   *)
(* receive loops does not take packets: it is over, or it is held up by    *)
(* the consumer, who has not received or whose callback has not ended, or  *)
(* by a world that does not close.                                         *)
PingLoopIsFair ==
  [][ping' = "timedout" /\ ping # "timedout" =>
        broken \/ \E x \in Side : Over(loop[x]) \/ loop[x] \in {"deliver", "callback", "closing"}]_vars

(* A written message reaches a consumer that keeps receiving and whose     *)
(* callbacks end, unless the connection breaks or the receiver is over.    *)
WrittenIsReceived ==
  \A m \in Messages :
    m \in ToSet(written) ~> (m \in ToSet(got) \/ broken \/ Over(loop["R"]))

(* A receive loop is over once the connection has been closed: the end of  *)
(* the stream ends the reads, which the token would not do.  Not the loop  *)
(* of a sender that waits for its world to close, whose pipe has failed.   *)
EndOfStreamEndsLoops ==
  \A x \in Side : stream = "closed" ~> (Over(loop[x]) \/ loop[x] \in {"connect", "closing"})

-----------------------------------------------------------------------------
(* CloseOnce of the sender: "DON'T send CLOSE : it will be called once     *)
(* PipeWorlSend completes: after read all from world".  When no send fails *)
(* on a connection that does not break, an owner that has closed the       *)
(* sender can rely on CLOSE being sent.                                    *)
CloseIsSent ==
  userClose = "done" /\ pipe # "off" ~>
     \/ pipe = "ended" \/ Over(loop["R"])
     \/ \E m \in Messages : sendTask[m] = "failed"

(* CancelWorld: "exception happened: all senders fail".                    *)
AllSendersFail ==
  \A m \in Messages : (pipe = "failed" /\ sendTask[m] = "open") ~> sendTask[m] # "open"
=============================================================================
