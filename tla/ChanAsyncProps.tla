--------------------------- MODULE ChanAsyncProps ---------------------------
(***************************************************************************)
(* What is checked of ChanAsync.                                           *)
(***************************************************************************)
EXTENDS ChanAsync

Located(x, seq) == \E i \in DOMAIN seq : seq[i] = x

(* The receive call that message m was matched with, in the order in which *)
(* the match is made: in somebody's hand, then in the result of the call.  *)
Paired ==
  {<<got[c], c>> : c \in {d \in RecvCall : got[d] # Nothing}}
  \cup {<<msgOf(s), hand[s]>> : s \in {t \in Senders : pc[t] = "deliver"}}
  \cup {<<hand[r], callOf(r)>> : r \in {t \in Receivers : pc[t] \in {"deliver", "return"}}}

SenderPc == {"idle", "lock", "add", "deliver", "callback"}
ReceiverPc == {"idle", "lock", "add", "deliver", "return"}
CloserPc == {"idle", "complete", "poll", "drain", "closed"}

SendOutcome == {"none", "open", "follows", "refused"} \cup Ends
RecvOutcome == {"none", "open"} \cup Ends

ChannelOK ==
  /\ addingDone \in BOOLEAN
  /\ closeTask \in Closers \cup {NoThread}
  /\ lock \in Senders \cup Receivers \cup {NoThread}
  /\ waiters \in Seq(Message)
  /\ promises \in Seq(RecvCall)

ThreadOK ==
  /\ pc \in [Threads -> SenderPc \cup ReceiverPc \cup CloserPc]
  /\ \A s \in Senders : pc[s] \in SenderPc
  /\ \A r \in Receivers : pc[r] \in ReceiverPc
  /\ \A c \in Closers : pc[c] \in CloserPc

CallOK ==
  /\ calls \in [Senders \cup Receivers -> Nat]
  /\ hand \in [Senders \cup Receivers -> Message \cup RecvCall \cup {Nothing}]
  /\ \A s \in Senders : calls[s] <= SendLimit /\ hand[s] \in RecvCall \cup {Nothing}
  /\ \A r \in Receivers : calls[r] <= RecvLimit /\ hand[r] \in Message \cup {Nothing}

TaskOK ==
  /\ sendTask \in [Message -> SendOutcome]
  /\ recvTask \in [RecvCall -> RecvOutcome]
  /\ got \in [RecvCall -> Message \cup {Nothing}]

TypeOK == ChannelOK /\ ThreadOK /\ CallOK /\ TaskOK

(* Why both queues share one lock (ChanAsync.cs:27-28, "must stay locked   *)
(* until added"): a message never waits beside a waiting receive call, as  *)
(* nobody would ever match those two.                                      *)
QueuesDisjoint == waiters = <<>> \/ promises = <<>>

(* A message ends in at most one receive call, and a receive call gets at  *)
(* most one message, through every queue, hand and result.                 *)
MatchedOnce ==
  /\ \A p, q \in Paired : p[1] = q[1] <=> p[2] = q[2]
  /\ \A p \in Paired : ~Located(p[1], waiters) /\ ~Located(p[2], promises)
  /\ \A i, j \in DOMAIN waiters : i # j => waiters[i] # waiters[j]
  /\ \A i, j \in DOMAIN promises : i # j => promises[i] # promises[j]

(* The task of a send tells what became of its message: one that the      *)
(* channel refused (the Add threw, ChanAsync.cs:71-76) is nowhere in the   *)
(* channel, then or later; one that has ended, or is left to a callback's  *)
(* Task, was given to a receive call before ("Each task resulting from     *)
(* .Send completes upon delivery through .Receive", Chan/README.md:107).   *)
RefusedNotDelivered ==
  \A m \in Message : sendTask[m] = "refused" =>
     ~Located(m, waiters) /\ \A p \in Paired : p[1] # m

Given(m) == \E p \in Paired : p[1] = m

CompletedDelivered ==
  \A m \in Message : sendTask[m] \in Ends \cup {"follows"} => Given(m)

SendTellsFate == RefusedNotDelivered /\ CompletedDelivered

(* What one sender sends arrives at one receiver in the order it was sent, *)
(* whichever side of each delivery came first (the test                    *)
(* OrderWithSingleInAndOut, for any number of threads).                    *)
PairOrder ==
  \A p, q \in Paired :
    p[1][1] = q[1][1] /\ p[2][1] = q[2][1] /\ p[1][2] < q[1][2] => p[2][2] < q[2][2]

(* "Close completes when chan is empty" (Chan/README.md:91): when          *)
(* AfterClosed is complete no accepted message waits for a receiver.  Of a *)
(* send that is not over, either its call is still running, or a receive   *)
(* call has its message: the Task of that call's callback decides, and     *)
(* nothing will when the callback threw.                                   *)
ClosedEmpty ==
  AfterClosed =>
    /\ waiters = <<>>
    /\ \A m \in Message : sendTask[m] \in {"open", "follows"} =>
         \/ pc[m[1]] # "idle" /\ m = msgOf(m[1])
         \/ \E p \in Paired : p[1] = m /\ recvTask[p[2]] # "cancelled"

(* ChanBase.cs:35, "after true once, it should never be false again":      *)
(* after CompleteAdding no message joins the waiters.                      *)
WaitersOnlyLeave ==
  [][addingDone => \/ waiters' = waiters
                   \/ waiters # <<>> /\ waiters' = Tail(waiters)]_vars

(* A call is completed once.  What decides a send is decided once too: a   *)
(* send that follows a callback's Task is never refused or waiting again.  *)
TasksSettleOnce ==
  [][/\ \A m \in Message :
          /\ sendTask[m] \in Ends \cup {"refused"} => sendTask'[m] = sendTask[m]
          /\ sendTask[m] = "follows" => sendTask'[m] \in Ends \cup {"follows"}
     /\ \A c \in RecvCall : recvTask[c] \in Ends => recvTask'[c] = recvTask[c]]_vars

(***************************************************************************)
(* Liveness, under FairSpec                                                *)
(***************************************************************************)

(* No call blocks its thread for good: SendAsync and ReceiveAsync return a *)
(* task, and Close lets go of its caller ("never block thread, unless too  *)
(* many", Chan/README.md:106: the capacities are not exceeded).            *)
CallsReturn ==
  \A t \in Senders \cup Receivers : pc[t] # "idle" ~> pc[t] = "idle"

(* A message given to a receive call decides the task of its sender ("Each *)
(* task resulting from .Send completes upon delivery through .Receive",    *)
(* Chan/README.md:107): it follows the Task of the receiver's callback,    *)
(* or has ended, and does not stay open beside a receive that succeeded.   *)
DeliveryDecidesSend ==
  \A m \in Message :
    (\E c \in RecvCall : got[c] = m /\ recvTask[c] = "ok")
      ~> sendTask[m] \in Ends \cup {"follows"}

(* Close ends while receivers go on receiving: they take every message     *)
(* that was accepted before it ("waits for receivers", Chan/README.md:91). *)
CloseCompletes ==
  (\A r \in Receivers : WF_vars(RecvStart(r)))
    => \A c \in Closers : pc[c] = "complete" ~> pc[c] = "closed"

(* What is left of the next property as the code is built: a send that is  *)
(* made when AfterClosed is complete is given to a waiting receive call or *)
(* refused; it never waits for a receiver itself.                          *)
LateSendDecided ==
  \A m \in Message :
    AfterClosed /\ pc[m[1]] = "lock" /\ m = msgOf(m[1]) ~> sendTask[m] # "open"

(* "any subsequent call to receive or send is bound to be cancelled"       *)
(* (IChanBase.cs:10): a call that begins after AfterClosed has completed   *)
(* never ends in anything else.                                            *)
LateCallsCancelled ==
  /\ \A m \in Message :
       [](AfterClosed /\ sendTask[m] = "none"
            => [](sendTask[m] \in {"none", "open", "refused"}))
  /\ \A c \in RecvCall :
       [](AfterClosed /\ recvTask[c] = "none"
            => [](recvTask[c] \in {"none", "open", "cancelled"}))

(* "Returned task is cancelled if the channel is closed and there will be  *)
(* no more messages" (IChanBase.cs:24): a receive call that is open when a *)
(* Close is under way does not stay open.                                  *)
OpenReceiveSettles ==
  \A c \in RecvCall :
    recvTask[c] = "open" /\ addingDone /\ ~AfterClosed ~> recvTask[c] # "open"

(* ".Receive: if any waiter: deliver" (Chan/README.md:145-146): a receive  *)
(* call that is made while messages wait gets through to them.             *)
ReceiveReachesWaiters ==
  \A r \in Receivers : pc[r] = "lock" /\ waiters # <<>> ~> pc[r] # "lock"

(***************************************************************************)
(* ChanAsync implements the abstract channel.                              *)
(***************************************************************************)
Fifo == INSTANCE FifoChan WITH
  Messages <- Message,
  Requests <- RecvCall,
  offers <- waiters,
  requests <- promises,
  paired <- Paired,
  refused <- {m \in Message : sendTask[m] = "refused"},
  cancelled <- {c \in RecvCall : recvTask[c] = "cancelled"}

(* Every step of the locked implementation is one decision of the abstract *)
(* channel, or decides nothing.                                            *)
ImplementsFifo == Fifo!Spec
=============================================================================
