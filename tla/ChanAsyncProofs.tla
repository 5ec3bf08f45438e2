-------------------------- MODULE ChanAsyncProofs --------------------------
(***************************************************************************)
(* Theorems about ChanAsync, for every number of threads, calls and        *)
(* capacities, whatever the receivers' callbacks do: what the lock keeps,  *)
(* and that the channel is first come first served.                        *)
(***************************************************************************)
EXTENDS ChanAsyncProps, TLAPS

(* A thread inside a call has begun one. *)
InsideCall ==
  \A t \in Senders \cup Receivers : pc[t] # "idle" => calls[t] >= 1

(* The lock is held from a failed TryTake to the end of the Add. *)
LockHeld ==
  \A t \in Senders \cup Receivers : lock = t <=> pc[t] = "add"

(* What the TryTake found still holds at the Add. *)
StillEmpty ==
  /\ \A s \in Senders : pc[s] = "add" => promises = <<>>
  /\ \A r \in Receivers : pc[r] = "add" => waiters = <<>>

TypeInv == TypeOK /\ InsideCall
IInv == TypeInv /\ LockHeld /\ StillEmpty /\ QueuesDisjoint

-----------------------------------------------------------------------------
(***************************************************************************)
(* Type correctness                                                        *)
(***************************************************************************)

(* The threads that exchange messages, and what they exchange. *)
LEMMA CallTypes ==
  ASSUME TypeInv
  PROVE  /\ \A s \in Senders : pc[s] # "idle" => msgOf(s) \in Message
         /\ \A r \in Receivers : pc[r] # "idle" => callOf(r) \in RecvCall
  BY LimitAssumption DEF LimitAssumption, TypeInv, TypeOK, CallOK, InsideCall, msgOf, callOf, Message, RecvCall

(* The head and the rest of a queue. *)
LEMMA QueueTypes ==
  ASSUME TypeInv
  PROVE  /\ promises # <<>> => Head(promises) \in RecvCall /\ Dequeue(promises) \in Seq(RecvCall)
         /\ waiters # <<>> => Head(waiters) \in Message /\ Dequeue(waiters) \in Seq(Message)
  BY DEF TypeInv, TypeOK, ChannelOK, Dequeue

(* The empty channel has the types. *)
LEMMA TypeInit == Init => TypeInv
  <1> SUFFICES ASSUME Init PROVE TypeInv
    OBVIOUS
  <1> USE ThreadAssumption DEF ThreadAssumption, Init, Threads
  <1>1. ChannelOK
    <2>1. waiters \in Seq(Message) /\ promises \in Seq(RecvCall)
      OBVIOUS
    <2> QED
      BY <2>1 DEF ChannelOK
  <1>4. ThreadOK
    BY DEF ThreadOK, SenderPc, ReceiverPc, CloserPc
  <1>2. CallOK /\ InsideCall
    BY LimitAssumption DEF LimitAssumption, CallOK, InsideCall
  <1>3. TaskOK
    BY DEF TaskOK, SendOutcome, RecvOutcome
  <1> QED
    BY <1>1, <1>2, <1>3, <1>4 DEF TypeInv, TypeOK

(* Every operation of the channel keeps the types. *)
LEMMA TypeNext == TypeInv /\ [Next]_vars => TypeInv'
  <1> SUFFICES ASSUME TypeInv, [Next]_vars PROVE TypeInv'
    OBVIOUS
  <1> USE ThreadAssumption DEF ThreadAssumption, closeVars, Threads, TypeInv, TypeOK
  <1>1. ASSUME NEW s \in Senders, SendStart(s) PROVE TypeInv'
    <2>1. ChannelOK'
      BY <1>1 DEF ChannelOK, SendStart
    <2>2. ThreadOK'
      BY <1>1 DEF ThreadOK, SenderPc, ReceiverPc, CloserPc, SendStart
    <2>3. CallOK'
      BY <1>1, LimitAssumption DEF CallOK, SendStart, LimitAssumption
    <2>4. TaskOK'
      BY <1>1 DEF TaskOK, SendOutcome, RecvOutcome, Ends, SendStart
    <2>5. InsideCall'
      BY <1>1 DEF InsideCall, ThreadOK, CallOK, SendStart
    <2> QED
      BY <2>1, <2>2, <2>3, <2>4, <2>5
  <1>2. ASSUME NEW s \in Senders, SendTryTake(s) PROVE TypeInv'
    <2>1. TaskOK'
      BY <1>2 DEF TaskOK, SendTryTake
    <2>2. ChannelOK'
      BY <1>2, QueueTypes DEF ChannelOK, SendTryTake
    <2>3. ThreadOK'
      BY <1>2 DEF ThreadOK, SenderPc, ReceiverPc, CloserPc, SendTryTake
    <2>4. CallOK'
      BY <1>2, QueueTypes DEF CallOK, SendTryTake
    <2>5. InsideCall'
      BY <1>2 DEF InsideCall, ThreadOK, CallOK, SendTryTake
    <2> QED
      BY <2>1, <2>2, <2>3, <2>4, <2>5
  <1>3. ASSUME NEW s \in Senders, SendAdd(s) PROVE TypeInv'
    <2>1. CallOK'
      BY <1>3 DEF CallOK, SendAdd
    <2>2. ChannelOK'
      BY <1>3, CallTypes DEF ChannelOK, SendAdd, Enqueue, Unlock
    <2>3. ThreadOK'
      BY <1>3 DEF ThreadOK, SenderPc, ReceiverPc, CloserPc, SendAdd
    <2>4. TaskOK'
      BY <1>3 DEF TaskOK, SendOutcome, RecvOutcome, Ends, SendAdd
    <2>5. InsideCall'
      BY <1>3 DEF InsideCall, ThreadOK, CallOK, SendAdd
    <2> QED
      BY <2>1, <2>2, <2>3, <2>4, <2>5
  <1>4. ASSUME NEW s \in Senders, SendSetResult(s) PROVE TypeInv'
    <2>1. (ChannelOK /\ CallOK)'
      BY <1>4 DEF ChannelOK, CallOK, SendSetResult
    <2>2. ThreadOK'
      BY <1>4 DEF ThreadOK, SenderPc, ReceiverPc, CloserPc, SendSetResult
    <2>3. TaskOK'
      BY <1>4, CallTypes DEF TaskOK, SendOutcome, RecvOutcome, Ends, SendSetResult
    <2>4. InsideCall'
      BY <1>4 DEF InsideCall, ThreadOK, CallOK, SendSetResult
    <2> QED
      BY <2>1, <2>2, <2>3, <2>4
  <1>5. ASSUME NEW s \in Senders, SendCallback(s) PROVE TypeInv'
    <2>1. ChannelOK'
      BY <1>5 DEF ChannelOK, SendCallback
    <2>2. ThreadOK'
      BY <1>5 DEF ThreadOK, SenderPc, ReceiverPc, CloserPc, SendCallback
    <2>3. CallOK'
      BY <1>5 DEF CallOK, SendCallback
    <2>4. TaskOK'
      BY <1>5 DEF TaskOK, SendOutcome, Ends, SendCallback
    <2>5. InsideCall'
      BY <1>5 DEF InsideCall, ThreadOK, CallOK, SendCallback
    <2> QED
      BY <2>1, <2>2, <2>3, <2>4, <2>5
  <1>6. ASSUME NEW r \in Receivers, RecvStart(r) PROVE TypeInv'
    <2>1. ChannelOK'
      BY <1>6 DEF ChannelOK, RecvStart
    <2>2. ThreadOK'
      BY <1>6 DEF ThreadOK, SenderPc, ReceiverPc, CloserPc, RecvStart
    <2>3. CallOK'
      BY <1>6, LimitAssumption DEF CallOK, RecvStart, LimitAssumption
    <2>4. TaskOK'
      BY <1>6 DEF TaskOK, SendOutcome, RecvOutcome, Ends, RecvStart
    <2>5. InsideCall'
      BY <1>6 DEF InsideCall, ThreadOK, CallOK, RecvStart
    <2> QED
      BY <2>1, <2>2, <2>3, <2>4, <2>5
  <1>7. ASSUME NEW r \in Receivers, RecvTryTake(r) PROVE TypeInv'
    <2>1. TaskOK'
      BY <1>7 DEF TaskOK, RecvTryTake
    <2>2. ChannelOK'
      BY <1>7, QueueTypes DEF ChannelOK, RecvTryTake
    <2>3. ThreadOK'
      BY <1>7 DEF ThreadOK, SenderPc, ReceiverPc, CloserPc, RecvTryTake
    <2>4. CallOK'
      BY <1>7, QueueTypes DEF CallOK, RecvTryTake
    <2>5. InsideCall'
      BY <1>7 DEF InsideCall, ThreadOK, CallOK, RecvTryTake
    <2> QED
      BY <2>1, <2>2, <2>3, <2>4, <2>5
  <1>8. ASSUME NEW r \in Receivers, RecvAdd(r) PROVE TypeInv'
    <2>1. (CallOK /\ TaskOK)'
      BY <1>8 DEF CallOK, TaskOK, RecvAdd
    <2>2. ChannelOK'
      BY <1>8, CallTypes DEF ChannelOK, RecvAdd, Enqueue, Unlock
    <2>3. ThreadOK'
      BY <1>8 DEF ThreadOK, SenderPc, ReceiverPc, CloserPc, RecvAdd
    <2>4. InsideCall'
      BY <1>8 DEF InsideCall, ThreadOK, CallOK, RecvAdd
    <2> QED
      BY <2>1, <2>2, <2>3, <2>4
  <1>9. ASSUME NEW r \in Receivers, RecvDeliver(r) PROVE TypeInv'
    <2>1. ChannelOK'
      BY <1>9 DEF ChannelOK, RecvDeliver
    <2>2. ThreadOK'
      BY <1>9 DEF ThreadOK, SenderPc, ReceiverPc, CloserPc, RecvDeliver
    <2>3. CallOK'
      BY <1>9 DEF CallOK, RecvDeliver
    <2>4. TaskOK'
      BY <1>9 DEF TaskOK, SendOutcome, RecvOutcome, Ends, RecvDeliver, CallOK
    <2>5. InsideCall'
      BY <1>9 DEF InsideCall, ThreadOK, CallOK, RecvDeliver
    <2> QED
      BY <2>1, <2>2, <2>3, <2>4, <2>5
  <1>10. ASSUME NEW r \in Receivers, RecvReturn(r) PROVE TypeInv'
    <2>1. ChannelOK'
      BY <1>10 DEF ChannelOK, RecvReturn
    <2>2. ThreadOK'
      BY <1>10 DEF ThreadOK, SenderPc, ReceiverPc, CloserPc, RecvReturn
    <2>3. CallOK'
      BY <1>10 DEF CallOK, RecvReturn
    <2>4. TaskOK'
      BY <1>10 DEF TaskOK, SendOutcome, RecvOutcome, Ends, RecvReturn, CallOK
    <2>5. InsideCall'
      BY <1>10 DEF InsideCall, ThreadOK, CallOK, RecvReturn
    <2> QED
      BY <2>1, <2>2, <2>3, <2>4, <2>5
  <1>11. ASSUME NEW m \in Message, CallbackEnds(m) PROVE TypeInv'
    <2>1. (ChannelOK /\ CallOK)'
      BY <1>11 DEF ChannelOK, CallOK, CallbackEnds
    <2>2. ThreadOK'
      BY <1>11 DEF ThreadOK, CallbackEnds
    <2>3. TaskOK'
      BY <1>11 DEF TaskOK, SendOutcome, CallbackEnds
    <2>4. InsideCall'
      BY <1>11 DEF InsideCall, CallbackEnds
    <2> QED
      BY <2>1, <2>2, <2>3, <2>4
  <1>12. ASSUME NEW c \in Closers, Invoke(c) PROVE TypeInv'
    <2>1. (CallOK /\ TaskOK)'
      BY <1>12 DEF CallOK, TaskOK, Invoke
    <2>2. ChannelOK'
      BY <1>12 DEF ChannelOK, Invoke
    <2>3. ThreadOK'
      BY <1>12 DEF ThreadOK, SenderPc, ReceiverPc, CloserPc, Invoke
    <2>4. InsideCall'
      BY <1>12 DEF InsideCall, ThreadOK, CallOK, Invoke
    <2> QED
      BY <2>1, <2>2, <2>3, <2>4
  <1>13. ASSUME NEW c \in Closers, CompleteAdding(c) PROVE TypeInv'
    <2>1. (CallOK /\ TaskOK)'
      BY <1>13 DEF CallOK, TaskOK, CompleteAdding
    <2>2. ChannelOK'
      BY <1>13 DEF ChannelOK, CompleteAdding
    <2>3. ThreadOK'
      BY <1>13 DEF ThreadOK, SenderPc, ReceiverPc, CloserPc, CompleteAdding
    <2>4. InsideCall'
      BY <1>13 DEF InsideCall, ThreadOK, CallOK, CompleteAdding
    <2> QED
      BY <2>1, <2>2, <2>3, <2>4
  <1>14. ASSUME NEW c \in Closers, CloseDelay(c) PROVE TypeInv'
    <2>1. (ThreadOK /\ CallOK /\ TaskOK)'
      BY <1>14 DEF ThreadOK, CallOK, TaskOK, CloseDelay
    <2>2. ChannelOK'
      BY <1>14 DEF ChannelOK, CloseDelay, Publish
    <2>3. InsideCall'
      BY <1>14 DEF InsideCall, ThreadOK, CallOK, CloseDelay
    <2> QED
      BY <2>1, <2>2, <2>3
  <1>15. ASSUME NEW c \in Closers, CloseEmpty(c) PROVE TypeInv'
    <2>1. (ChannelOK /\ CallOK /\ TaskOK)'
      BY <1>15 DEF ChannelOK, CallOK, TaskOK, CloseEmpty
    <2>2. ThreadOK'
      BY <1>15 DEF ThreadOK, SenderPc, ReceiverPc, CloserPc, CloseEmpty
    <2>3. InsideCall'
      BY <1>15 DEF InsideCall, ThreadOK, CallOK, CloseEmpty
    <2> QED
      BY <2>1, <2>2, <2>3
  <1>16. ASSUME NEW c \in Closers, CloseDrain(c) PROVE TypeInv'
    <2>1. (ThreadOK /\ CallOK)'
      BY <1>16 DEF ThreadOK, CallOK, CloseDrain
    <2>2. ChannelOK'
      BY <1>16, QueueTypes DEF ChannelOK, CloseDrain
    <2>3. TaskOK'
      BY <1>16 DEF TaskOK, SendOutcome, RecvOutcome, Ends, CloseDrain
    <2>4. InsideCall'
      BY <1>16 DEF InsideCall, ThreadOK, CallOK, CloseDrain
    <2> QED
      BY <2>1, <2>2, <2>3, <2>4
  <1>17. ASSUME NEW c \in Closers, CloseEnd(c) PROVE TypeInv'
    <2>1. (CallOK /\ TaskOK)'
      BY <1>17 DEF CallOK, TaskOK, CloseEnd
    <2>2. ChannelOK'
      BY <1>17 DEF ChannelOK, CloseEnd, Publish
    <2>3. ThreadOK'
      BY <1>17 DEF ThreadOK, SenderPc, ReceiverPc, CloserPc, CloseEnd
    <2>4. InsideCall'
      BY <1>17 DEF InsideCall, ThreadOK, CallOK, CloseEnd
    <2> QED
      BY <2>1, <2>2, <2>3, <2>4
  <1>18. CASE UNCHANGED vars
    BY <1>18 DEF vars, ChannelOK, ThreadOK, CallOK, TaskOK, InsideCall
  <1> QED
    BY <1>1, <1>2, <1>3, <1>4, <1>5, <1>6, <1>7, <1>8, <1>9, <1>10, <1>11, <1>12, <1>13,
       <1>14, <1>15, <1>16, <1>17, <1>18
    DEF Next, SenderStep, ReceiverStep, CloserStep

(* Every variable of the channel keeps its type, whatever the threads do   *)
(* (ChanAsync.cs, ChanBase.cs).                                            *)
THEOREM TypeCorrect == Spec => []TypeOK
  <1>1. Spec => []TypeInv
    BY TypeInit, TypeNext, PTL DEF Spec
  <1> QED
    BY <1>1, PTL DEF TypeInv

-----------------------------------------------------------------------------
(***************************************************************************)
(* The lock                                                                *)
(***************************************************************************)

(* The empty channel has both queues empty and the lock free. *)
LEMMA LockInit == Init => IInv
  BY TypeInit, ThreadAssumption
  DEF ThreadAssumption, Init, IInv, LockHeld, StillEmpty, QueuesDisjoint, Threads

(* An Add to one queue happens under the lock, after a TryTake that found  *)
(* the other queue empty; what happens without the lock only takes.        *)
LEMMA LockNext == IInv /\ [Next]_vars => IInv'
  <1> SUFFICES ASSUME IInv, [Next]_vars PROVE IInv'
    OBVIOUS
  <1>0. TypeInv'
    BY TypeNext DEF IInv
  <1> DEFINE LInv == LockHeld /\ StillEmpty /\ QueuesDisjoint
  <1>a. waiters \in Seq(Message) /\ promises \in Seq(RecvCall) /\ ThreadOK
    BY DEF IInv, TypeInv, TypeOK, ChannelOK
  <1>b. \A t \in Senders \cup Receivers : t # NoThread /\ t \in Threads
    BY ThreadAssumption DEF ThreadAssumption, Threads
  <1> USE ThreadAssumption, <1>a, <1>b
      DEF ThreadAssumption, IInv, LockHeld, StillEmpty, QueuesDisjoint, ThreadOK, closeVars
  <1>1. ASSUME NEW s \in Senders, SendStart(s) PROVE LInv'
    BY <1>1 DEF SendStart
  <1>2. ASSUME NEW s \in Senders, SendTryTake(s) PROVE LInv'
    BY <1>2 DEF SendTryTake, LockFree, Dequeue
  <1>3. ASSUME NEW s \in Senders, SendAdd(s) PROVE LInv'
    BY <1>3 DEF SendAdd, Enqueue, Unlock
  <1>4. ASSUME NEW s \in Senders, SendSetResult(s) PROVE LInv'
    BY <1>4 DEF SendSetResult
  <1>5. ASSUME NEW s \in Senders, SendCallback(s) PROVE LInv'
    BY <1>5 DEF SendCallback
  <1>6. ASSUME NEW r \in Receivers, RecvStart(r) PROVE LInv'
    BY <1>6 DEF RecvStart
  <1>7. ASSUME NEW r \in Receivers, RecvTryTake(r) PROVE LInv'
    BY <1>7 DEF RecvTryTake, LockFree, Dequeue
  <1>8. ASSUME NEW r \in Receivers, RecvAdd(r) PROVE LInv'
    BY <1>8 DEF RecvAdd, Enqueue, Unlock
  <1>9. ASSUME NEW r \in Receivers, RecvDeliver(r) PROVE LInv'
    BY <1>9 DEF RecvDeliver
  <1>10. ASSUME NEW r \in Receivers, RecvReturn(r) PROVE LInv'
    BY <1>10 DEF RecvReturn
  <1>11. ASSUME NEW m \in Message, CallbackEnds(m) PROVE LInv'
    BY <1>11 DEF CallbackEnds
  <1>12. ASSUME NEW c \in Closers, Invoke(c) PROVE LInv'
    BY <1>12 DEF Invoke
  <1>13. ASSUME NEW c \in Closers, CompleteAdding(c) PROVE LInv'
    BY <1>13 DEF CompleteAdding
  <1>14. ASSUME NEW c \in Closers, CloseDelay(c) PROVE LInv'
    BY <1>14 DEF CloseDelay
  <1>15. ASSUME NEW c \in Closers, CloseEmpty(c) PROVE LInv'
    BY <1>15 DEF CloseEmpty
  <1>16. ASSUME NEW c \in Closers, CloseDrain(c) PROVE LInv'
    BY <1>16 DEF CloseDrain, Dequeue
  <1>17. ASSUME NEW c \in Closers, CloseEnd(c) PROVE LInv'
    BY <1>17 DEF CloseEnd
  <1>18. ASSUME UNCHANGED vars PROVE LInv'
    <2>1. LockHeld' /\ StillEmpty'
      BY <1>18 DEF vars
    <2>2. QueuesDisjoint'
      BY <1>18 DEF vars
    <2> QED
      BY <2>1, <2>2
  <1> QED
    BY <1>0, <1>1, <1>2, <1>3, <1>4, <1>5, <1>6, <1>7, <1>8, <1>9, <1>10, <1>11, <1>12,
       <1>13, <1>14, <1>15, <1>16, <1>17, <1>18
    DEF Next, SenderStep, ReceiverStep, CloserStep

(* The lock over both queues does what its comment says                    *)
(* (ChanAsync.cs:27-34, 65-71): a message and a receive call never wait    *)
(* side by side.                                                           *)
THEOREM NeverBothWait == Spec => []QueuesDisjoint
  <1>1. Spec => []IInv
    BY LockInit, LockNext, PTL DEF Spec
  <1> QED
    BY <1>1, PTL DEF IInv

(* After CompleteAdding the waiters only leave, oldest first: Close, which *)
(* polls for their end, cannot be overtaken (ChanAsync.cs:87-92,           *)
(* ChanBase.cs:35).                                                        *)
THEOREM NoLateWaiter == Spec => WaitersOnlyLeave
  <1>1. TypeInv /\ [Next]_vars =>
          [addingDone => waiters' = waiters \/ (waiters # <<>> /\ waiters' = Tail(waiters))]_vars
    BY DEF Next, SenderStep, ReceiverStep, CloserStep, SendStart, SendTryTake, SendAdd,
           SendSetResult, SendCallback, RecvStart, RecvTryTake, RecvAdd, RecvDeliver,
           RecvReturn, CallbackEnds, Invoke, CompleteAdding, CloseDelay, CloseEmpty,
           CloseDrain, CloseEnd, Dequeue, vars, closeVars
  <1>2. Spec => []TypeInv
    BY TypeInit, TypeNext, PTL DEF Spec
  <1> QED
    BY <1>1, <1>2, PTL DEF Spec, WaitersOnlyLeave

-----------------------------------------------------------------------------
(* ChanAsync implements FifoChan.  A step of ChanAsync decides about a     *)
(* call that nothing has been decided about yet, and completes tasks that  *)
(* are open.  RInv says what that takes: where each message and each       *)
(* receive call can be, and what their tasks are there.                    *)

(* Nothing is decided about the messages and calls that are still to come, *)
(* and about those whose call is before its match or its Add.              *)
UnsentMessage(m) ==
  \/ m[2] > calls[m[1]]
  \/ m = msgOf(m[1]) /\ pc[m[1]] \in {"lock", "add"}

UnmadeCall(c) ==
  \/ c[2] > calls[c[1]]
  \/ c = callOf(c[1]) /\ pc[c[1]] \in {"lock", "add"}

FreshMessages ==
  \A m \in Message : UnsentMessage(m) =>
    ~Located(m, waiters) /\ \A p \in Paired : p[1] # m

FreshCalls ==
  \A c \in RecvCall : UnmadeCall(c) =>
    ~Located(c, promises) /\ \A p \in Paired : p[2] # c

Fresh == FreshMessages /\ FreshCalls

(* The tasks of what waits, of a call that runs and of what is in a hand   *)
(* are open; a receive call is given a message when its task is settled.   *)
SendOpen ==
  /\ \A m \in Message : m[2] > calls[m[1]] => sendTask[m] = "none"
  /\ \A m \in Message : Located(m, waiters) => sendTask[m] = "open"
  /\ \A s \in Senders : pc[s] # "idle" => sendTask[msgOf(s)] = "open"
  /\ \A r \in Receivers : pc[r] = "deliver" => sendTask[hand[r]] = "open"

RecvOpen ==
  /\ \A c \in RecvCall : c[2] > calls[c[1]] => recvTask[c] = "none"
  /\ \A c \in RecvCall : Located(c, promises) => recvTask[c] = "open"
  /\ \A r \in Receivers : pc[r] # "idle" => recvTask[callOf(r)] = "open"
  /\ \A s \in Senders : pc[s] = "deliver" => recvTask[hand[s]] = "open"
  /\ \A c \in RecvCall : got[c] # Nothing <=> recvTask[c] \in {"ok", "failed"}

(* What is in a hand; a promise in a sender's hand is of a call that has   *)
(* returned.                                                               *)
HandOK ==
  /\ \A s \in Senders : pc[s] \in {"deliver", "callback"} => hand[s] \in RecvCall
  /\ \A s \in Senders : pc[s] = "callback" => got[hand[s]] = msgOf(s)
  /\ \A r \in Receivers : pc[r] \in {"deliver", "return"} => hand[r] \in Message
  /\ \A s \in Senders, r \in Receivers :
       pc[s] = "deliver" /\ pc[r] # "idle" => hand[s] # callOf(r)

Open == SendOpen /\ RecvOpen /\ HandOK

RInv == IInv /\ MatchedOnce /\ RefusedNotDelivered /\ Fresh /\ Open

-----------------------------------------------------------------------------
(***************************************************************************)
(* How a step changes Paired                                               *)
(***************************************************************************)

(* What Paired contains. *)
LEMMA InPaired ==
  ASSUME NEW p
  PROVE  p \in Paired <=>
           \/ \E c \in RecvCall : got[c] # Nothing /\ p = <<got[c], c>>
           \/ \E s \in Senders : pc[s] = "deliver" /\ p = <<msgOf(s), hand[s]>>
           \/ \E r \in Receivers : pc[r] \in {"deliver", "return"} /\ p = <<hand[r], callOf(r)>>
  BY DEF Paired

(* A receiver moves its pair from its hand to the result of its call. *)
LEMMA PairMoves ==
  ASSUME RInv, NEW r \in Receivers, pc[r] \in {"deliver", "return"},
         got' = [got EXCEPT ![callOf(r)] = hand[r]],
         hand' = [hand EXCEPT ![r] = Nothing],
         pc' = [pc EXCEPT ![r] = "idle"],
         calls' = calls
  PROVE  Paired' = Paired
  <1> USE ThreadAssumption
      DEF ThreadAssumption, RInv, Fresh, Open, IInv, TypeInv, TypeOK, ThreadOK, CallOK, Threads
  <1>1. callOf(r) \in RecvCall /\ got[callOf(r)] = Nothing /\ hand[r] \in Message /\ hand[r] # Nothing
    BY CallTypes DEF HandOK, RecvOpen, Message, Nothing
  <1>2. DOMAIN got = RecvCall
    BY DEF TaskOK
  <1>3. /\ \A t \in Receivers : callOf(t)' = callOf(t)
        /\ \A t \in Receivers : pc[t]' \in {"deliver", "return"} <=> t # r /\ pc[t] \in {"deliver", "return"}
        /\ \A t \in Receivers : t # r => hand'[t] = hand[t]
        /\ \A s \in Senders : msgOf(s)' = msgOf(s) /\ pc'[s] = pc[s] /\ hand'[s] = hand[s]
    BY DEF msgOf, callOf
  <1>4. ASSUME NEW p \in Paired PROVE p \in Paired'
    <2>1. CASE \E c \in RecvCall : got[c] # Nothing /\ p = <<got[c], c>>
      BY <2>1, <1>1, <1>2 DEF Paired
    <2>2. CASE \E s \in Senders : pc[s] = "deliver" /\ p = <<msgOf(s), hand[s]>>
      BY <2>2, <1>3 DEF Paired
    <2>3. CASE \E t \in Receivers : pc[t] \in {"deliver", "return"} /\ p = <<hand[t], callOf(t)>>
      <3>1. PICK t \in Receivers : pc[t] \in {"deliver", "return"} /\ p = <<hand[t], callOf(t)>>
        BY <2>3
      <3>2. CASE t = r
        BY <3>1, <3>2, <1>1, <1>2 DEF Paired
      <3>3. CASE t # r
        BY <3>1, <3>3, <1>3 DEF Paired
      <3> QED
        BY <3>2, <3>3
    <2> QED
      BY <2>1, <2>2, <2>3, InPaired
  <1>5. ASSUME NEW p \in Paired' PROVE p \in Paired
    <2>1. CASE \E c \in RecvCall : got'[c] # Nothing /\ p = <<got'[c], c>>
      BY <2>1, <1>1, <1>2 DEF Paired
    <2>2. CASE \E s \in Senders : pc'[s] = "deliver" /\ p = <<msgOf(s)', hand'[s]>>
      BY <2>2, <1>3 DEF Paired
    <2>3. CASE \E t \in Receivers : pc'[t] \in {"deliver", "return"} /\ p = <<hand'[t], callOf(t)'>>
      BY <2>3, <1>3 DEF Paired
    <2> QED
      BY <2>1, <2>2, <2>3 DEF Paired
  <1> QED
    BY <1>4, <1>5

(* SendAsync makes a pair where it takes a promise, and nowhere else.      *)
LEMMA SendPairs ==
  ASSUME RInv, NEW s \in Senders
  PROVE  /\ SendStart(s) \/ SendAdd(s) \/ SendSetResult(s) \/ SendCallback(s) => Paired' = Paired
         /\ SendTryTake(s) => Paired' = IF promises = <<>> THEN Paired
                                         ELSE Paired \cup {<<msgOf(s), Head(promises)>>}
  <1> USE ThreadAssumption
      DEF ThreadAssumption, RInv, Fresh, Open, IInv, TypeInv, TypeOK, ThreadOK, CallOK,
          closeVars, Threads
  <1>1. ASSUME SendStart(s) PROVE Paired' = Paired
    BY <1>1 DEF SendStart, Paired, msgOf, callOf
  <1>2. ASSUME SendAdd(s) PROVE Paired' = Paired
    BY <1>2 DEF SendAdd, Paired, msgOf, callOf
  <1>3. ASSUME SendSetResult(s) PROVE Paired' = Paired
    <2>1. hand[s] \in RecvCall /\ got[hand[s]] = Nothing /\ msgOf(s) # Nothing
      BY <1>3 DEF SendSetResult, HandOK, RecvOpen, Nothing, msgOf
    <2>2. got' = [got EXCEPT ![hand[s]] = msgOf(s)] /\ DOMAIN got = RecvCall
      BY <1>3 DEF SendSetResult, TaskOK
    <2>3. /\ msgOf(s)' = msgOf(s) /\ hand' = hand
          /\ \A t \in Senders : pc[t]' = "deliver" <=> t # s /\ pc[t] = "deliver"
          /\ \A r \in Receivers : pc[r]' = pc[r] /\ callOf(r)' = callOf(r)
          /\ \A t \in Senders : msgOf(t)' = msgOf(t)
          /\ pc[s] = "deliver"
      BY <1>3 DEF SendSetResult, msgOf, callOf
    <2>4. ASSUME NEW p \in Paired PROVE p \in Paired'
      <3>1. CASE \E c \in RecvCall : got[c] # Nothing /\ p = <<got[c], c>>
        BY <3>1, <2>1, <2>2 DEF Paired
      <3>2. CASE \E t \in Senders : pc[t] = "deliver" /\ p = <<msgOf(t), hand[t]>>
        <4>1. PICK t \in Senders : pc[t] = "deliver" /\ p = <<msgOf(t), hand[t]>>
          BY <3>2
        <4>2. CASE t = s
          BY <4>1, <4>2, <2>1, <2>2 DEF Paired
        <4>3. CASE t # s
          BY <4>1, <4>3, <2>3 DEF Paired
        <4> QED
          BY <4>2, <4>3
      <3>3. CASE \E r \in Receivers : pc[r] \in {"deliver", "return"} /\ p = <<hand[r], callOf(r)>>
        BY <3>3, <2>3 DEF Paired
      <3> QED
        BY <3>1, <3>2, <3>3, InPaired
    <2>5. ASSUME NEW p \in Paired' PROVE p \in Paired
      <3>1. CASE \E c \in RecvCall : got'[c] # Nothing /\ p = <<got'[c], c>>
        BY <3>1, <2>1, <2>2, <2>3 DEF Paired
      <3>2. CASE \E t \in Senders : pc'[t] = "deliver" /\ p = <<msgOf(t)', hand'[t]>>
        BY <3>2, <2>3 DEF Paired
      <3>3. CASE \E r \in Receivers : pc'[r] \in {"deliver", "return"} /\ p = <<hand'[r], callOf(r)'>>
        BY <3>3, <2>3 DEF Paired
      <3> QED
        BY <3>1, <3>2, <3>3 DEF Paired
    <2> QED
      BY <2>4, <2>5
  <1>4. ASSUME SendCallback(s) PROVE Paired' = Paired
    BY <1>4 DEF SendCallback, Paired, msgOf, callOf
  <1>5. ASSUME SendTryTake(s), promises = <<>> PROVE Paired' = Paired
    BY <1>5 DEF SendTryTake, Paired, msgOf, callOf
  <1>6. ASSUME SendTryTake(s), promises # <<>> PROVE Paired' = Paired \cup {<<msgOf(s), Head(promises)>>}
    BY <1>6 DEF SendTryTake, Paired, msgOf, callOf
  <1> QED
    BY <1>1, <1>2, <1>3, <1>4, <1>5, <1>6

(* ReceiveAsync makes a pair where it takes a waiter, and nowhere else.    *)
LEMMA RecvPairs ==
  ASSUME RInv, NEW r \in Receivers
  PROVE  /\ RecvStart(r) \/ RecvAdd(r) \/ RecvDeliver(r) \/ RecvReturn(r) => Paired' = Paired
         /\ RecvTryTake(r) =>
              Paired' = IF waiters = <<>> THEN Paired
                        ELSE Paired \cup {<<Head(waiters), callOf(r)>>}
  <1> USE ThreadAssumption
      DEF ThreadAssumption, RInv, Fresh, Open, IInv, TypeInv, TypeOK, ThreadOK, CallOK,
          closeVars, Threads
  <1>1. ASSUME RecvStart(r) PROVE Paired' = Paired
    BY <1>1 DEF RecvStart, Paired, msgOf, callOf
  <1>2. ASSUME RecvAdd(r) PROVE Paired' = Paired
    BY <1>2 DEF RecvAdd, Paired, msgOf, callOf
  <1>3. ASSUME RecvDeliver(r) PROVE Paired' = Paired
    <2>1. CASE pc' = [pc EXCEPT ![r] = "return"] /\ UNCHANGED <<got, hand>>
      BY <1>3, <2>1 DEF RecvDeliver, Paired, msgOf, callOf
    <2>2. CASE /\ got' = [got EXCEPT ![callOf(r)] = hand[r]]
               /\ hand' = [hand EXCEPT ![r] = Nothing]
               /\ pc' = [pc EXCEPT ![r] = "idle"]
      BY <1>3, <2>2, PairMoves DEF RecvDeliver
    <2> QED
      BY <1>3, <2>1, <2>2 DEF RecvDeliver
  <1>4. ASSUME RecvReturn(r) PROVE Paired' = Paired
    BY <1>4, PairMoves DEF RecvReturn
  <1>5. ASSUME RecvTryTake(r), waiters = <<>> PROVE Paired' = Paired
    BY <1>5 DEF RecvTryTake, Paired, msgOf, callOf
  <1>6. ASSUME RecvTryTake(r), waiters # <<>>
        PROVE  Paired' = Paired \cup {<<Head(waiters), callOf(r)>>}
    BY <1>6 DEF RecvTryTake, Paired, msgOf, callOf
  <1> QED
    BY <1>1, <1>2, <1>3, <1>4, <1>5, <1>6

-----------------------------------------------------------------------------
(* The steps of the abstract channel keep what it has matched. *)
LEMMA FifoMatched ==
  ASSUME TypeInv, MatchedOnce, [Fifo!Next]_(Fifo!vars)
  PROVE  MatchedOnce'
  <1> USE DEF TypeInv, TypeOK, ChannelOK, MatchedOnce, Located
  <1>1. ASSUME NEW m \in Message, Fifo!Offer(m) PROVE MatchedOnce'
    <2>0. /\ \A i \in DOMAIN waiters : waiters[i] # m
          /\ \A p \in Paired : p[1] # m
      BY <1>1 DEF Fifo!Offer, Fifo!FreshMessage, Fifo!InSeq
    <2>1. CASE UNCHANGED <<waiters, promises, Paired>>
      BY <2>1
    <2>2. CASE /\ promises # <<>>
               /\ Paired' = Paired \cup {<<m, Head(promises)>>}
               /\ promises' = Tail(promises)
               /\ UNCHANGED waiters
      BY <2>0, <2>2
    <2>3. CASE waiters' = Append(waiters, m) /\ UNCHANGED <<promises, Paired>>
      BY <2>0, <2>3
    <2> QED
      BY <1>1, <2>1, <2>2, <2>3 DEF Fifo!Offer
  <1>2. ASSUME NEW c \in RecvCall, Fifo!Request(c) PROVE MatchedOnce'
    <2>0. /\ \A i \in DOMAIN promises : promises[i] # c
          /\ \A p \in Paired : p[2] # c
      BY <1>2 DEF Fifo!Request, Fifo!FreshRequest, Fifo!InSeq
    <2>1. CASE UNCHANGED <<waiters, promises, Paired>>
      BY <2>1
    <2>2. CASE /\ waiters # <<>>
               /\ Paired' = Paired \cup {<<Head(waiters), c>>}
               /\ waiters' = Tail(waiters)
               /\ UNCHANGED promises
      BY <2>0, <2>2
    <2>3. CASE promises' = Append(promises, c) /\ UNCHANGED <<waiters, Paired>>
      BY <2>0, <2>3
    <2> QED
      BY <1>2, <2>1, <2>2, <2>3 DEF Fifo!Request
  <1>3. CASE Fifo!Cancel
    BY <1>3 DEF Fifo!Cancel
  <1>4. CASE UNCHANGED Fifo!vars
    BY <1>4 DEF Fifo!vars
  <1> QED
    BY <1>1, <1>2, <1>3, <1>4 DEF Fifo!Next

(* The steps of the abstract channel give nobody a refused message. *)
LEMMA FifoRefused ==
  ASSUME TypeInv, MatchedOnce, RefusedNotDelivered, [Fifo!Next]_(Fifo!vars)
  PROVE  RefusedNotDelivered'
  <1> DEFINE Refused == {m \in Message : sendTask[m] = "refused"}
  <1>0. /\ RefusedNotDelivered <=>
             \A m \in Refused : ~Located(m, waiters) /\ \A p \in Paired : p[1] # m
        /\ RefusedNotDelivered' <=>
             \A m \in Refused' : ~Located(m, waiters') /\ \A p \in Paired' : p[1] # m
    BY DEF RefusedNotDelivered
  <1> USE DEF TypeInv, TypeOK, ChannelOK, Located
  <1>1. ASSUME NEW m \in Message, Fifo!Offer(m) PROVE RefusedNotDelivered'
    <2>0. /\ \A i \in DOMAIN waiters : waiters[i] # m
          /\ \A p \in Paired : p[1] # m
          /\ m \notin Refused
      BY <1>1 DEF Fifo!Offer, Fifo!FreshMessage, Fifo!InSeq
    <2>1. CASE Refused' = Refused \cup {m} /\ UNCHANGED <<waiters, Paired>>
      BY <1>0, <2>0, <2>1
    <2>2. CASE Paired' = Paired \cup {<<m, Head(promises)>>} /\ UNCHANGED <<waiters, Refused>>
      BY <1>0, <2>0, <2>2
    <2>3. CASE waiters' = Append(waiters, m) /\ UNCHANGED <<Paired, Refused>>
      BY <1>0, <2>0, <2>3
    <2> QED
      BY <1>1, <2>1, <2>2, <2>3 DEF Fifo!Offer
  <1>2. ASSUME NEW c \in RecvCall, Fifo!Request(c) PROVE RefusedNotDelivered'
    <2>1. CASE UNCHANGED <<waiters, Paired, Refused>>
      BY <1>0, <2>1
    <2>2. CASE /\ waiters # <<>>
               /\ Paired' = Paired \cup {<<Head(waiters), c>>}
               /\ waiters' = Tail(waiters)
               /\ UNCHANGED Refused
      BY <1>0, <2>2
    <2> QED
      BY <1>2, <2>1, <2>2 DEF Fifo!Request
  <1>3. CASE Fifo!Cancel \/ UNCHANGED Fifo!vars
    <2>1. UNCHANGED <<waiters, Paired, Refused>>
      BY <1>3 DEF Fifo!Cancel, Fifo!vars
    <2> QED
      BY <1>0, <2>1
  <1> QED
    BY <1>1, <1>2, <1>3 DEF Fifo!Next

(* A send that the channel refuses. *)
LEMMA RefusedStep ==
  ASSUME TypeInv, NEW x, x \in Message, Fifo!FreshMessage(x),
         sendTask' = [sendTask EXCEPT ![x] = "refused"],
         UNCHANGED <<waiters, promises, Paired, recvTask>>
  PROVE  Fifo!Next
  <1>1. Fifo!Offer(x)
    BY DEF Fifo!Offer, TypeInv, TypeOK, TaskOK
  <1> QED
    BY <1>1 DEF Fifo!Next

(* What the calls of a sender decide. *)
LEMMA SendDecides ==
  ASSUME RInv, NEW s \in Senders, SendStart(s) \/ SenderStep(s)
  PROVE  [Fifo!Next]_(Fifo!vars)
  <1> USE ThreadAssumption, LimitAssumption
      DEF ThreadAssumption, RInv, Fresh, Open, IInv, TypeInv, TypeOK, ThreadOK, CallOK,
          closeVars, Threads
  <1>2. CASE SendStart(s)
    <2> DEFINE m == <<s, calls[s] + 1>>
    <2>1. m \in Message /\ sendTask[m] = "none"
      BY <1>2 DEF SendStart, Message, SendOpen, LimitAssumption
    <2>3. sendTask' = [sendTask EXCEPT ![m] = "open"]
      BY <1>2 DEF SendStart
    <2>4. UNCHANGED <<waiters, promises, Paired, recvTask>>
      BY <1>2, SendPairs DEF SendStart
    <2> QED
      BY <2>1, <2>3, <2>4 DEF Fifo!vars, TaskOK
  <1>3. CASE SendTryTake(s)
    <2>1. msgOf(s) \in Message /\ UnsentMessage(msgOf(s))
      BY <1>3, CallTypes DEF SendTryTake, UnsentMessage, Message, msgOf
    <2>2. Fifo!FreshMessage(msgOf(s))
      <3>1. sendTask[msgOf(s)] = "open"
        BY <1>3 DEF SendTryTake, SendOpen
      <3> QED
        BY <2>1, <3>1 DEF FreshMessages, Fifo!FreshMessage, Fifo!InSeq, Located
    <2>3. UNCHANGED <<waiters, sendTask, recvTask>>
      BY <1>3 DEF SendTryTake
    <2>4. CASE promises = <<>>
      BY <1>3, <2>3, <2>4, SendPairs DEF SendTryTake, Fifo!vars
    <2>5. CASE promises # <<>>
      <3>1. promises' = Tail(promises) /\ Paired' = Paired \cup {<<msgOf(s), Head(promises)>>}
        BY <1>3, <2>5, SendPairs DEF SendTryTake, Dequeue
      <3> QED
        BY <2>1, <2>2, <2>3, <2>5, <3>1 DEF Fifo!Offer, Fifo!Next
    <2> QED
      BY <2>4, <2>5
  <1>4. CASE SendAdd(s)
    <2>1. msgOf(s) \in Message /\ UnsentMessage(msgOf(s))
      BY <1>4, CallTypes DEF SendAdd, UnsentMessage, Message, msgOf
    <2>2. Fifo!FreshMessage(msgOf(s))
      <3>1. sendTask[msgOf(s)] = "open"
        BY <1>4 DEF SendAdd, SendOpen
      <3> QED
        BY <2>1, <3>1 DEF FreshMessages, Fifo!FreshMessage, Fifo!InSeq, Located
    <2>3. UNCHANGED <<promises, recvTask, Paired>>
      BY <1>4, SendPairs DEF SendAdd
    <2>4. promises = <<>>
      BY <1>4 DEF SendAdd, StillEmpty
    <2>5. CASE waiters' = Enqueue(waiters, msgOf(s)) /\ UNCHANGED sendTask
      BY <2>1, <2>2, <2>3, <2>4, <2>5 DEF Enqueue, Fifo!Offer, Fifo!Next
    <2>6. CASE sendTask' = [sendTask EXCEPT ![msgOf(s)] = "refused"] /\ UNCHANGED waiters
      BY <2>1, <2>2, <2>3, <2>6, RefusedStep
    <2> QED
      BY <1>4, <2>5, <2>6 DEF SendAdd
  <1>5. CASE SendSetResult(s)
    <2>1. recvTask[hand[s]] = "open" /\ hand[s] \in RecvCall
      BY <1>5 DEF SendSetResult, RecvOpen, HandOK
    <2>2. recvTask' = [recvTask EXCEPT ![hand[s]] = "ok"]
      BY <1>5 DEF SendSetResult
    <2>3. UNCHANGED <<waiters, promises, Paired, sendTask>>
      BY <1>5, SendPairs DEF SendSetResult
    <2> QED
      BY <2>1, <2>2, <2>3 DEF Fifo!vars, TaskOK
  <1>6. CASE SendCallback(s)
    <2>1. sendTask[msgOf(s)] = "open" /\ msgOf(s) \in Message
      BY <1>6, CallTypes DEF SendCallback, SendOpen
    <2>2. PICK outcome \in {"follows", "failed"} : sendTask' = [sendTask EXCEPT ![msgOf(s)] = outcome]
      BY <1>6 DEF SendCallback
    <2>3. UNCHANGED <<waiters, promises, Paired, recvTask>>
      BY <1>6, SendPairs DEF SendCallback
    <2> QED
      BY <2>1, <2>2, <2>3 DEF Fifo!vars, TaskOK
  <1> QED
    BY <1>2, <1>3, <1>4, <1>5, <1>6 DEF SenderStep

(* What the calls of a receiver decide. *)
LEMMA RecvDecides ==
  ASSUME RInv, NEW r \in Receivers, RecvStart(r) \/ ReceiverStep(r)
  PROVE  [Fifo!Next]_(Fifo!vars)
  <1> USE ThreadAssumption, LimitAssumption
      DEF ThreadAssumption, RInv, Fresh, Open, IInv, TypeInv, TypeOK, ThreadOK, CallOK,
          closeVars, Threads
  <1>1. CASE RecvStart(r)
    <2> DEFINE c == <<r, calls[r] + 1>>
    <2>1. c \in RecvCall /\ recvTask[c] = "none"
      BY <1>1 DEF RecvStart, RecvCall, RecvOpen, LimitAssumption
    <2>3. recvTask' = [recvTask EXCEPT ![c] = "open"]
      BY <1>1 DEF RecvStart
    <2>4. UNCHANGED <<waiters, promises, Paired, sendTask>>
      BY <1>1, RecvPairs DEF RecvStart
    <2> QED
      BY <2>1, <2>3, <2>4 DEF Fifo!vars, TaskOK
  <1>2. ASSUME pc[r] \in {"lock", "add"}
        PROVE  callOf(r) \in RecvCall /\ Fifo!FreshRequest(callOf(r))
    <2>1. callOf(r) \in RecvCall /\ UnmadeCall(callOf(r)) /\ recvTask[callOf(r)] = "open"
      BY <1>2, CallTypes DEF UnmadeCall, callOf, RecvOpen
    <2> QED
      BY <2>1 DEF FreshCalls, Fifo!FreshRequest, Fifo!InSeq, Located
  <1>3. ASSUME RecvTryTake(r), waiters # <<>> PROVE Fifo!Next
    <2>1. waiters' = Tail(waiters) /\ Paired' = Paired \cup {<<Head(waiters), callOf(r)>>}
      BY <1>3, RecvPairs DEF RecvTryTake, Dequeue
    <2>2. UNCHANGED <<promises, sendTask, recvTask>>
      BY <1>3 DEF RecvTryTake
    <2>3. pc[r] \in {"lock", "add"}
      BY <1>3 DEF RecvTryTake
    <2> QED
      BY <1>2, <1>3, <2>1, <2>2, <2>3 DEF Fifo!Request, Fifo!Next
  <1>4. ASSUME RecvTryTake(r), waiters = <<>> PROVE UNCHANGED Fifo!vars
    BY <1>4, RecvPairs DEF RecvTryTake, Fifo!vars
  <1>6. CASE RecvAdd(r)
    <2>1. UNCHANGED <<waiters, Paired, sendTask, recvTask>> /\ waiters = <<>>
      BY <1>6, RecvPairs DEF RecvAdd, StillEmpty
    <2>2. promises' = Append(promises, callOf(r)) /\ pc[r] \in {"lock", "add"}
      BY <1>6 DEF RecvAdd, Enqueue
    <2> QED
      BY <1>2, <2>1, <2>2 DEF Fifo!Request, Fifo!Next
  <1>7. CASE RecvDeliver(r)
    <2>1. UNCHANGED <<waiters, promises, Paired>>
      BY <1>7, RecvPairs DEF RecvDeliver
    <2>2. callOf(r) \in RecvCall /\ recvTask[callOf(r)] = "open"
      BY <1>7, CallTypes DEF RecvDeliver, RecvOpen
    <2>3. hand[r] \in Message /\ sendTask[hand[r]] = "open"
      BY <1>7 DEF RecvDeliver, SendOpen, HandOK
    <2>4. \/ sendTask' = [sendTask EXCEPT ![hand[r]] = "follows"] /\ UNCHANGED recvTask
          \/ recvTask' = [recvTask EXCEPT ![callOf(r)] = "failed"] /\ UNCHANGED sendTask
      BY <1>7 DEF RecvDeliver
    <2> QED
      BY <2>1, <2>2, <2>3, <2>4 DEF Fifo!vars, TaskOK
  <1>8. CASE RecvReturn(r)
    <2>1. UNCHANGED <<waiters, promises, Paired, sendTask>>
      BY <1>8, RecvPairs DEF RecvReturn
    <2>2. callOf(r) \in RecvCall /\ recvTask[callOf(r)] = "open"
      BY <1>8, CallTypes DEF RecvReturn, RecvOpen
    <2>3. recvTask' = [recvTask EXCEPT ![callOf(r)] = "ok"]
      BY <1>8 DEF RecvReturn
    <2> QED
      BY <2>1, <2>2, <2>3 DEF Fifo!vars, TaskOK
  <1> QED
    BY <1>1, <1>3, <1>4, <1>6, <1>7, <1>8 DEF ReceiverStep

(* The end of a callback's Task decides nothing: its message is paired.    *)
LEMMA EndDecides ==
  ASSUME RInv, NEW m \in Message, CallbackEnds(m)
  PROVE  UNCHANGED Fifo!vars
  <1>1. UNCHANGED <<waiters, promises, Paired, recvTask>>
    BY DEF CallbackEnds, closeVars, Paired, msgOf, callOf
  <1>2. PICK end \in Ends : sendTask' = [sendTask EXCEPT ![m] = end]
    BY DEF CallbackEnds
  <1>3. sendTask[m] = "follows" /\ end # "refused" /\ sendTask \in [Message -> SendOutcome]
    BY DEF CallbackEnds, Ends, RInv, IInv, TypeInv, TypeOK, TaskOK
  <1> QED
    BY <1>1, <1>2, <1>3 DEF Fifo!vars

(* What Close decides. *)
LEMMA CloseDecides ==
  ASSUME RInv, NEW c \in Closers, Invoke(c) \/ CloserStep(c)
  PROVE  [Fifo!Next]_(Fifo!vars)
  <1> USE ThreadAssumption
      DEF ThreadAssumption, RInv, Fresh, Open, IInv, TypeInv, TypeOK, ThreadOK, CallOK,
          closeVars, Threads
  <1>1. Paired' = Paired
    BY DEF Invoke, CloserStep, CompleteAdding, CloseDelay, CloseEmpty, CloseDrain, CloseEnd,
           Paired, msgOf, callOf
  <1>2. CASE CloseDrain(c)
    <2>1. promises' = Tail(promises) /\ promises # <<>> /\ UNCHANGED <<waiters, sendTask>>
      BY <1>2 DEF CloseDrain, Dequeue
    <2>2. recvTask' = [recvTask EXCEPT ![Head(promises)] = "cancelled"] /\ Head(promises) \in RecvCall
      BY <1>2, QueueTypes DEF CloseDrain
    <2>3. Fifo!Cancel
      BY <1>1, <2>1, <2>2 DEF Fifo!Cancel, TaskOK
    <2> QED
      BY <2>3 DEF Fifo!Next
  <1>3. CASE Invoke(c) \/ CompleteAdding(c) \/ CloseDelay(c) \/ CloseEmpty(c) \/ CloseEnd(c)
    BY <1>1, <1>3 DEF Invoke, CompleteAdding, CloseDelay, CloseEmpty, CloseEnd, Fifo!vars
  <1> QED
    BY <1>2, <1>3 DEF CloserStep

-----------------------------------------------------------------------------
(***************************************************************************)
(* What is undecided stays so until its step                               *)
(***************************************************************************)

(* Elements of a queue after an Add or a TryTake. *)
LEMMA QueueElements ==
  ASSUME NEW S, NEW q \in Seq(S), NEW x
  PROVE  /\ \A y : Located(y, Append(q, x)) => Located(y, q) \/ y = x
         /\ q # <<>> => \A y : Located(y, Tail(q)) => Located(y, q)
         /\ q # <<>> => Located(Head(q), q)
  BY DEF Located

(* A step that decides about x alone, which is not unsent after it, and    *)
(* matches otherwise only what waits, keeps the unsent messages fresh.     *)
LEMMA StillFreshMessages ==
  ASSUME RInv, NEW x,
         \A m \in Message : UnsentMessage(m)' => UnsentMessage(m) /\ m # x,
         \A y : Located(y, waiters') => Located(y, waiters) \/ y = x,
         \A p \in Paired' : p \in Paired \/ p[1] = x \/ Located(p[1], waiters)
  PROVE  FreshMessages'
  BY DEF RInv, Fresh, FreshMessages

(* The same of the calls that have not been made. *)
LEMMA StillFreshCalls ==
  ASSUME RInv, NEW x,
         \A c \in RecvCall : UnmadeCall(c)' => UnmadeCall(c) /\ c # x,
         \A y : Located(y, promises') => Located(y, promises) \/ y = x,
         \A p \in Paired' : p \in Paired \/ p[2] = x \/ Located(p[2], promises)
  PROVE  FreshCalls'
  BY DEF RInv, Fresh, FreshCalls

(* SendAsync keeps the unsent and the unmade fresh. *)
LEMMA SendFresh ==
  ASSUME RInv, NEW s \in Senders, SendStart(s) \/ SenderStep(s)
  PROVE  Fresh'
  <1> USE ThreadAssumption, LimitAssumption
      DEF ThreadAssumption, LimitAssumption, RInv, Fresh, Open, IInv, TypeInv, TypeOK, ChannelOK,
          ThreadOK, CallOK, closeVars, Threads
  <1>1. CASE SendStart(s)
    <2>1. \A m \in Message : UnsentMessage(m)' => UnsentMessage(m) /\ m # Nothing
      BY <1>1 DEF SendStart, UnsentMessage, Message, msgOf, Nothing
    <2>2. \A c \in RecvCall : UnmadeCall(c)' => UnmadeCall(c) /\ c # Nothing
      BY <1>1 DEF SendStart, UnmadeCall, RecvCall, callOf, Nothing
    <2>3. \A e : Located(e, waiters') => Located(e, waiters) \/ e = Nothing
      BY <1>1 DEF SendStart
    <2>4. \A e : Located(e, promises') => Located(e, promises) \/ e = Nothing
      BY <1>1 DEF SendStart
    <2>5. Paired' = Paired
      BY <1>1, SendPairs
    <2> QED
      BY <2>1, <2>2, <2>3, <2>4, <2>5, StillFreshMessages, StillFreshCalls
  <1>2. CASE SendTryTake(s) /\ promises = <<>>
    <2>1. \A m \in Message : UnsentMessage(m)' => UnsentMessage(m) /\ m # Nothing
      BY <1>2 DEF SendTryTake, UnsentMessage, Message, msgOf, Nothing
    <2>2. \A c \in RecvCall : UnmadeCall(c)' => UnmadeCall(c) /\ c # Nothing
      BY <1>2 DEF SendTryTake, UnmadeCall, RecvCall, callOf, Nothing
    <2>3. \A e : Located(e, waiters') => Located(e, waiters) \/ e = Nothing
      BY <1>2 DEF SendTryTake
    <2>4. \A e : Located(e, promises') => Located(e, promises) \/ e = Nothing
      BY <1>2 DEF SendTryTake
    <2>5. Paired' = Paired
      BY <1>2, SendPairs
    <2> QED
      BY <2>1, <2>2, <2>3, <2>4, <2>5, StillFreshMessages, StillFreshCalls
  <1>3. CASE SendTryTake(s) /\ promises # <<>>
    <2>1. \A m \in Message : UnsentMessage(m)' => UnsentMessage(m) /\ m # msgOf(s)
      BY <1>3 DEF SendTryTake, UnsentMessage, Message, msgOf
    <2>2. \A c \in RecvCall : UnmadeCall(c)' => UnmadeCall(c) /\ c # Nothing
      BY <1>3 DEF SendTryTake, UnmadeCall, RecvCall, callOf, Nothing
    <2>3. \A e : Located(e, waiters') => Located(e, waiters) \/ e = msgOf(s)
      BY <1>3 DEF SendTryTake
    <2>4. \A e : Located(e, promises') => Located(e, promises) \/ e = Nothing
      <3>1. promises # <<>> /\ promises' = Tail(promises)
        BY <1>3 DEF SendTryTake, Dequeue
      <3> QED
        BY <3>1, QueueElements
    <2>5. promises # <<>> /\ Paired' = Paired \cup {<<msgOf(s), Head(promises)>>}
      BY <1>3, SendPairs DEF SendTryTake
    <2>6. Located(Head(promises), promises)
      BY <2>5, QueueElements
    <2>7. \A p \in Paired' : p \in Paired \/ p[1] = msgOf(s) \/ Located(p[1], waiters)
      BY <2>5, <2>6
    <2>8. \A p \in Paired' : p \in Paired \/ p[2] = Nothing \/ Located(p[2], promises)
      BY <2>5, <2>6
    <2> QED
      BY <2>1, <2>2, <2>3, <2>4, <2>7, <2>8, StillFreshMessages, StillFreshCalls
  <1>4. CASE SendAdd(s)
    <2>1. \A m \in Message : UnsentMessage(m)' => UnsentMessage(m) /\ m # msgOf(s)
      BY <1>4 DEF SendAdd, UnsentMessage, Message, msgOf
    <2>2. \A c \in RecvCall : UnmadeCall(c)' => UnmadeCall(c) /\ c # Nothing
      BY <1>4 DEF SendAdd, UnmadeCall, RecvCall, callOf, Nothing
    <2>3. \A e : Located(e, waiters') => Located(e, waiters) \/ e = msgOf(s)
      <3>1. waiters' = waiters \/ waiters' = Append(waiters, msgOf(s))
        BY <1>4 DEF SendAdd, Enqueue
      <3>2. \A e : Located(e, Append(waiters, msgOf(s))) => Located(e, waiters) \/ e = msgOf(s)
        BY QueueElements
      <3> QED
        BY <3>1, <3>2
    <2>4. \A e : Located(e, promises') => Located(e, promises) \/ e = Nothing
      BY <1>4 DEF SendAdd
    <2>5. Paired' = Paired
      BY <1>4, SendPairs
    <2> QED
      BY <2>1, <2>2, <2>3, <2>4, <2>5, StillFreshMessages, StillFreshCalls
  <1>5. CASE SendSetResult(s)
    <2>1. \A m \in Message : UnsentMessage(m)' => UnsentMessage(m) /\ m # Nothing
      BY <1>5 DEF SendSetResult, UnsentMessage, Message, msgOf, Nothing
    <2>2. \A c \in RecvCall : UnmadeCall(c)' => UnmadeCall(c) /\ c # Nothing
      BY <1>5 DEF SendSetResult, UnmadeCall, RecvCall, callOf, Nothing
    <2>3. \A e : Located(e, waiters') => Located(e, waiters) \/ e = Nothing
      BY <1>5 DEF SendSetResult
    <2>4. \A e : Located(e, promises') => Located(e, promises) \/ e = Nothing
      BY <1>5 DEF SendSetResult
    <2>5. Paired' = Paired
      BY <1>5, SendPairs
    <2> QED
      BY <2>1, <2>2, <2>3, <2>4, <2>5, StillFreshMessages, StillFreshCalls
  <1>6. CASE SendCallback(s)
    <2>1. \A m \in Message : UnsentMessage(m)' => UnsentMessage(m) /\ m # Nothing
      BY <1>6 DEF SendCallback, UnsentMessage, Message, msgOf, Nothing
    <2>2. \A c \in RecvCall : UnmadeCall(c)' => UnmadeCall(c) /\ c # Nothing
      BY <1>6 DEF SendCallback, UnmadeCall, RecvCall, callOf, Nothing
    <2>3. \A e : Located(e, waiters') => Located(e, waiters) \/ e = Nothing
      BY <1>6 DEF SendCallback
    <2>4. \A e : Located(e, promises') => Located(e, promises) \/ e = Nothing
      BY <1>6 DEF SendCallback
    <2>5. Paired' = Paired
      BY <1>6, SendPairs
    <2> QED
      BY <2>1, <2>2, <2>3, <2>4, <2>5, StillFreshMessages, StillFreshCalls
  <1> QED
    BY <1>1, <1>2, <1>3, <1>4, <1>5, <1>6 DEF SenderStep, SendTryTake

(* So does ReceiveAsync. *)
LEMMA RecvFresh ==
  ASSUME RInv, NEW r \in Receivers, RecvStart(r) \/ ReceiverStep(r)
  PROVE  Fresh'
  <1> USE ThreadAssumption, LimitAssumption
      DEF ThreadAssumption, LimitAssumption, RInv, Fresh, Open, IInv, TypeInv, TypeOK, ChannelOK,
          ThreadOK, CallOK, closeVars, Threads
  <1>1. CASE RecvStart(r)
    <2>1. \A m \in Message : UnsentMessage(m)' => UnsentMessage(m) /\ m # Nothing
      BY <1>1 DEF RecvStart, UnsentMessage, Message, msgOf, Nothing
    <2>2. \A c \in RecvCall : UnmadeCall(c)' => UnmadeCall(c) /\ c # Nothing
      BY <1>1 DEF RecvStart, UnmadeCall, RecvCall, callOf, Nothing
    <2>3. \A e : Located(e, waiters') => Located(e, waiters) \/ e = Nothing
      BY <1>1 DEF RecvStart
    <2>4. \A e : Located(e, promises') => Located(e, promises) \/ e = Nothing
      BY <1>1 DEF RecvStart
    <2>5. Paired' = Paired
      BY <1>1, RecvPairs
    <2> QED
      BY <2>1, <2>2, <2>3, <2>4, <2>5, StillFreshMessages, StillFreshCalls
  <1>2. CASE RecvTryTake(r) /\ waiters = <<>>
    <2>1. \A m \in Message : UnsentMessage(m)' => UnsentMessage(m) /\ m # Nothing
      BY <1>2 DEF RecvTryTake, UnsentMessage, Message, msgOf, Nothing
    <2>2. \A c \in RecvCall : UnmadeCall(c)' => UnmadeCall(c) /\ c # Nothing
      BY <1>2 DEF RecvTryTake, UnmadeCall, RecvCall, callOf, Nothing
    <2>3. \A e : Located(e, waiters') => Located(e, waiters) \/ e = Nothing
      BY <1>2 DEF RecvTryTake
    <2>4. \A e : Located(e, promises') => Located(e, promises) \/ e = Nothing
      BY <1>2 DEF RecvTryTake
    <2>5. Paired' = Paired
      BY <1>2, RecvPairs
    <2> QED
      BY <2>1, <2>2, <2>3, <2>4, <2>5, StillFreshMessages, StillFreshCalls
  <1>3. CASE RecvTryTake(r) /\ waiters # <<>>
    <2>1. \A m \in Message : UnsentMessage(m)' => UnsentMessage(m) /\ m # Nothing
      BY <1>3 DEF RecvTryTake, UnsentMessage, Message, msgOf, Nothing
    <2>2. \A c \in RecvCall : UnmadeCall(c)' => UnmadeCall(c) /\ c # callOf(r)
      BY <1>3 DEF RecvTryTake, UnmadeCall, RecvCall, callOf
    <2>3. \A e : Located(e, waiters') => Located(e, waiters) \/ e = Nothing
      <3>1. waiters # <<>> /\ waiters' = Tail(waiters)
        BY <1>3 DEF RecvTryTake, Dequeue
      <3> QED
        BY <3>1, QueueElements
    <2>4. \A e : Located(e, promises') => Located(e, promises) \/ e = callOf(r)
      BY <1>3 DEF RecvTryTake
    <2>5. waiters # <<>> /\ Paired' = Paired \cup {<<Head(waiters), callOf(r)>>}
      BY <1>3, RecvPairs DEF RecvTryTake
    <2>6. Located(Head(waiters), waiters)
      BY <2>5, QueueElements
    <2>7. \A p \in Paired' : p \in Paired \/ p[1] = Nothing \/ Located(p[1], waiters)
      BY <2>5, <2>6
    <2>8. \A p \in Paired' : p \in Paired \/ p[2] = callOf(r) \/ Located(p[2], promises)
      BY <2>5, <2>6
    <2> QED
      BY <2>1, <2>2, <2>3, <2>4, <2>7, <2>8, StillFreshMessages, StillFreshCalls
  <1>4. CASE RecvAdd(r)
    <2>1. \A m \in Message : UnsentMessage(m)' => UnsentMessage(m) /\ m # Nothing
      BY <1>4 DEF RecvAdd, UnsentMessage, Message, msgOf, Nothing
    <2>2. \A c \in RecvCall : UnmadeCall(c)' => UnmadeCall(c) /\ c # callOf(r)
      BY <1>4 DEF RecvAdd, UnmadeCall, RecvCall, callOf
    <2>3. \A e : Located(e, waiters') => Located(e, waiters) \/ e = Nothing
      BY <1>4 DEF RecvAdd
    <2>4. \A e : Located(e, promises') => Located(e, promises) \/ e = callOf(r)
      <3>1. promises' = promises \/ promises' = Append(promises, callOf(r))
        BY <1>4 DEF RecvAdd, Enqueue
      <3>2. \A e : Located(e, Append(promises, callOf(r))) => Located(e, promises) \/ e = callOf(r)
        BY QueueElements
      <3> QED
        BY <3>1, <3>2
    <2>5. Paired' = Paired
      BY <1>4, RecvPairs
    <2> QED
      BY <2>1, <2>2, <2>3, <2>4, <2>5, StillFreshMessages, StillFreshCalls
  <1>5. CASE RecvDeliver(r)
    <2>1. \A m \in Message : UnsentMessage(m)' => UnsentMessage(m) /\ m # Nothing
      BY <1>5 DEF RecvDeliver, UnsentMessage, Message, msgOf, Nothing
    <2>2. \A c \in RecvCall : UnmadeCall(c)' => UnmadeCall(c) /\ c # Nothing
      BY <1>5 DEF RecvDeliver, UnmadeCall, RecvCall, callOf, Nothing
    <2>3. \A e : Located(e, waiters') => Located(e, waiters) \/ e = Nothing
      BY <1>5 DEF RecvDeliver
    <2>4. \A e : Located(e, promises') => Located(e, promises) \/ e = Nothing
      BY <1>5 DEF RecvDeliver
    <2>5. Paired' = Paired
      BY <1>5, RecvPairs
    <2> QED
      BY <2>1, <2>2, <2>3, <2>4, <2>5, StillFreshMessages, StillFreshCalls
  <1>6. CASE RecvReturn(r)
    <2>1. \A m \in Message : UnsentMessage(m)' => UnsentMessage(m) /\ m # Nothing
      BY <1>6 DEF RecvReturn, UnsentMessage, Message, msgOf, Nothing
    <2>2. \A c \in RecvCall : UnmadeCall(c)' => UnmadeCall(c) /\ c # Nothing
      BY <1>6 DEF RecvReturn, UnmadeCall, RecvCall, callOf, Nothing
    <2>3. \A e : Located(e, waiters') => Located(e, waiters) \/ e = Nothing
      BY <1>6 DEF RecvReturn
    <2>4. \A e : Located(e, promises') => Located(e, promises) \/ e = Nothing
      BY <1>6 DEF RecvReturn
    <2>5. Paired' = Paired
      BY <1>6, RecvPairs
    <2> QED
      BY <2>1, <2>2, <2>3, <2>4, <2>5, StillFreshMessages, StillFreshCalls
  <1> QED
    BY <1>1, <1>2, <1>3, <1>4, <1>5, <1>6 DEF ReceiverStep

-----------------------------------------------------------------------------
(* Who has what: what is in a hand or in a call is nowhere else. *)
LEMMA Owners ==
  ASSUME RInv
  PROVE  /\ \A s \in Senders : pc[s] # "idle" =>
              /\ ~Located(msgOf(s), waiters)
              /\ \A r \in Receivers : pc[r] \in {"deliver", "return"} => hand[r] # msgOf(s)
         /\ \A r \in Receivers : pc[r] # "idle" => ~Located(callOf(r), promises)
         /\ \A s \in Senders : pc[s] = "deliver" =>
              /\ ~Located(hand[s], promises)
              /\ \A t \in Senders : pc[t] = "deliver" /\ t # s => hand[t] # hand[s]
         /\ \A r \in Receivers : pc[r] \in {"deliver", "return"} =>
              /\ ~Located(hand[r], waiters)
              /\ \A q \in Receivers : pc[q] \in {"deliver", "return"} /\ q # r => hand[q] # hand[r]
  <1> USE DEF RInv, Fresh, Open, IInv, TypeInv, TypeOK, ThreadOK, SenderPc, ReceiverPc
  <1>1. ASSUME NEW s \in Senders, pc[s] \in {"deliver", "callback"}
        PROVE  <<msgOf(s), hand[s]>> \in Paired
    <2>1. CASE pc[s] = "deliver"
      BY <2>1 DEF Paired
    <2>2. CASE pc[s] = "callback"
      <3>1. hand[s] \in RecvCall /\ got[hand[s]] = msgOf(s) /\ msgOf(s) # Nothing
        BY <2>2, ThreadAssumption DEF HandOK, msgOf, Nothing, ThreadAssumption, Threads
      <3> QED
        BY <3>1 DEF Paired
    <2> QED
      BY <1>1, <2>1, <2>2
  <1>2. ASSUME NEW r \in Receivers, pc[r] \in {"deliver", "return"}
        PROVE  <<hand[r], callOf(r)>> \in Paired
    BY <1>2 DEF Paired
  <1>3. \A p \in Paired : ~Located(p[1], waiters) /\ ~Located(p[2], promises)
    BY DEF MatchedOnce
  <1>4. \A p, q \in Paired : p[1] = q[1] <=> p[2] = q[2]
    BY DEF MatchedOnce
  <1>5. ASSUME NEW s \in Senders, pc[s] # "idle" PROVE ~Located(msgOf(s), waiters)
    <2>1. CASE pc[s] \in {"lock", "add"}
      BY <2>1, <1>5, CallTypes DEF FreshMessages, UnsentMessage, Message, msgOf
    <2>2. CASE pc[s] \in {"deliver", "callback"}
      BY <2>2, <1>1, <1>3
    <2> QED
      BY <1>5, <2>1, <2>2
  <1>6. ASSUME NEW r \in Receivers, pc[r] # "idle" PROVE ~Located(callOf(r), promises)
    <2>1. CASE pc[r] \in {"lock", "add"}
      BY <2>1, <1>6, CallTypes DEF FreshCalls, UnmadeCall, RecvCall, callOf
    <2>2. CASE pc[r] \in {"deliver", "return"}
      BY <2>2, <1>2, <1>3
    <2> QED
      BY <1>6, <2>1, <2>2
  <1>7. ASSUME NEW s \in Senders, pc[s] # "idle",
               NEW r \in Receivers, pc[r] \in {"deliver", "return"}
        PROVE  hand[r] # msgOf(s)
    <2>1. CASE pc[s] \in {"lock", "add"}
      <3>1. \A p \in Paired : p[1] # msgOf(s)
        BY <2>1, <1>7, CallTypes DEF FreshMessages, UnsentMessage, Message, msgOf
      <3> QED
        BY <3>1, <1>7, <1>2
    <2>2. CASE pc[s] \in {"deliver", "callback"}
      <3>1. SUFFICES ASSUME hand[r] = msgOf(s) PROVE FALSE
        OBVIOUS
      <3>2. hand[s] = callOf(r)
        BY <3>1, <2>2, <1>1, <1>2, <1>4, <1>7
      <3>3. pc[s] = "callback"
        BY <3>2, <2>2, <1>7 DEF HandOK
      <3>4. got[callOf(r)] # Nothing
        BY <3>2, <3>3, ThreadAssumption DEF HandOK, msgOf, Nothing, ThreadAssumption, Threads
      <3>5. callOf(r) \in RecvCall /\ recvTask[callOf(r)] = "open"
        BY <1>7, CallTypes DEF RecvOpen
      <3> QED
        BY <3>4, <3>5 DEF RecvOpen
    <2> QED
      BY <1>7, <2>1, <2>2
  <1>8. ASSUME NEW s \in Senders, pc[s] = "deliver"
        PROVE  /\ ~Located(hand[s], promises)
               /\ \A t \in Senders : pc[t] = "deliver" /\ t # s => hand[t] # hand[s]
    <2>1. \A t \in Senders : t # s => msgOf(t) # msgOf(s)
      BY DEF msgOf
    <2>2. ~Located(hand[s], promises)
      BY <1>8, <1>1, <1>3
    <2>3. ASSUME NEW t \in Senders, pc[t] = "deliver", t # s PROVE hand[t] # hand[s]
      BY <1>8, <2>1, <2>3, <1>1, <1>4, ZenonT(40)
    <2> QED
      BY <2>2, <2>3
  <1>9. ASSUME NEW r \in Receivers, pc[r] \in {"deliver", "return"}
        PROVE  /\ ~Located(hand[r], waiters)
               /\ \A q \in Receivers : pc[q] \in {"deliver", "return"} /\ q # r => hand[q] # hand[r]
    <2>1. \A q \in Receivers : q # r => callOf(q) # callOf(r)
      BY DEF callOf
    <2>2. ~Located(hand[r], waiters)
      BY <1>9, <1>2, <1>3
    <2>3. ASSUME NEW q \in Receivers, pc[q] \in {"deliver", "return"}, q # r PROVE hand[q] # hand[r]
      BY <1>9, <2>1, <2>3, <1>2, <1>4
    <2> QED
      BY <2>2, <2>3
  <1> QED
    BY <1>5, <1>6, <1>7, <1>8, <1>9

(* What waits after a step waited before it, or has just been added. *)
LEMMA Elements ==
  ASSUME TypeInv
  PROVE  /\ \A m, x : Located(m, Append(waiters, x)) => Located(m, waiters) \/ m = x
         /\ waiters # <<>> => Located(Head(waiters), waiters)
         /\ promises # <<>> => Located(Head(promises), promises)
         /\ waiters # <<>> => \A m : Located(m, Tail(waiters)) =>
              Located(m, waiters) /\ (MatchedOnce => m # Head(waiters))
         /\ \A c, x : Located(c, Append(promises, x)) => Located(c, promises) \/ c = x
         /\ promises # <<>> => \A c : Located(c, Tail(promises)) =>
              Located(c, promises) /\ (MatchedOnce => c # Head(promises))
  <1>1. waiters \in Seq(Message) /\ promises \in Seq(RecvCall)
    BY DEF TypeInv, TypeOK, ChannelOK
  <1>2. ASSUME MatchedOnce, waiters # <<>> PROVE \A m : Located(m, Tail(waiters)) => m # Head(waiters)
    BY <1>1, <1>2 DEF MatchedOnce, Located
  <1>3. ASSUME MatchedOnce, promises # <<>> PROVE \A c : Located(c, Tail(promises)) => c # Head(promises)
    BY <1>1, <1>3 DEF MatchedOnce, Located
  <1> QED
    BY <1>1, <1>2, <1>3, QueueElements

(* What SendAsync completes was open, and what is open stays accounted for. *)
LEMMA SendOpens ==
  ASSUME RInv, NEW s \in Senders, SendStart(s) \/ SenderStep(s)
  PROVE  Open'
  <1> USE ThreadAssumption, LimitAssumption
      DEF ThreadAssumption, LimitAssumption, RInv, Fresh, Open, IInv, TypeInv, TypeOK, ChannelOK,
          ThreadOK, CallOK, TaskOK, closeVars, Threads
  <1>1. CASE SendStart(s)
    <2>1. SendOpen'
      <3>1. \A m \in Message : m[2] > calls'[m[1]] => sendTask'[m] = "none"
        <4>1. \A m \in Message : m[2] > calls'[m[1]] => m[2] > calls[m[1]] /\ m # <<s, calls[s] + 1>>
          BY <1>1 DEF SendStart, Message
        <4> QED
          BY <1>1, <4>1 DEF SendStart, SendOpen
      <3>2. \A m \in Message : Located(m, waiters') => sendTask'[m] = "open"
        BY <1>1 DEF SendStart, SendOpen
      <3>3. \A t \in Senders : pc'[t] # "idle" => sendTask'[msgOf(t)'] = "open"
        <4> SUFFICES ASSUME NEW t \in Senders, pc'[t] # "idle" PROVE sendTask'[msgOf(t)'] = "open"
          OBVIOUS
        <4>1. CASE t = s
          <5>1. msgOf(t)' = <<s, calls[s] + 1>> /\ msgOf(t)' \in Message
            BY <1>1, <4>1 DEF SendStart, msgOf, Message
          <5> QED
            BY <1>1, <5>1 DEF SendStart
        <4>2. CASE t # s
          <5>1. msgOf(t)' = msgOf(t) /\ pc[t] # "idle" /\ msgOf(t) # <<s, calls[s] + 1>>
            BY <1>1, <4>2 DEF SendStart, msgOf
          <5> QED
            BY <1>1, <5>1, CallTypes DEF SendStart, SendOpen
        <4> QED
          BY <4>1, <4>2
      <3>4. \A q \in Receivers : pc'[q] = "deliver" => sendTask'[hand'[q]] = "open"
        <4>1. <<s, calls[s] + 1>> \in Message /\ sendTask[<<s, calls[s] + 1>>] = "none"
          BY <1>1 DEF SendStart, Message, SendOpen
        <4>2. \A m \in Message : sendTask[m] = "open" => sendTask'[m] = "open"
          BY <1>1, <4>1 DEF SendStart
        <4>3. \A q \in Receivers : pc'[q] = pc[q] /\ hand'[q] = hand[q]
          BY <1>1 DEF SendStart
        <4> QED
          BY <4>2, <4>3 DEF SendOpen, HandOK
      <3> QED
        BY <3>1, <3>2, <3>3, <3>4 DEF SendOpen
    <2>2. RecvOpen'
      <3>1. \A d \in RecvCall : d[2] > calls'[d[1]] => recvTask'[d] = "none"
        BY <1>1 DEF SendStart, RecvOpen, RecvCall
      <3>2. \A d \in RecvCall : Located(d, promises') => recvTask'[d] = "open"
        BY <1>1 DEF SendStart, RecvOpen
      <3>3. \A q \in Receivers : pc'[q] # "idle" => recvTask'[callOf(q)'] = "open"
        BY <1>1 DEF SendStart, RecvOpen, callOf
      <3>4. \A t \in Senders : pc'[t] = "deliver" => recvTask'[hand'[t]] = "open"
        BY <1>1 DEF SendStart, RecvOpen
      <3>5. \A d \in RecvCall : got'[d] # Nothing <=> recvTask'[d] \in {"ok", "failed"}
        BY <1>1 DEF SendStart, RecvOpen
      <3> QED
        BY <3>1, <3>2, <3>3, <3>4, <3>5 DEF RecvOpen
    <2>3. HandOK'
      <3>1. \A t \in Senders : pc'[t] \in {"deliver", "callback"} => hand'[t] \in RecvCall
        BY <1>1 DEF SendStart, HandOK
      <3>2. \A t \in Senders : pc'[t] = "callback" => got'[hand'[t]] = msgOf(t)'
        BY <1>1 DEF SendStart, HandOK, msgOf
      <3>3. \A q \in Receivers : pc'[q] \in {"deliver", "return"} => hand'[q] \in Message
        BY <1>1 DEF SendStart, HandOK
      <3>4. \A t \in Senders, q \in Receivers :
              pc'[t] = "deliver" /\ pc'[q] # "idle" => hand'[t] # callOf(q)'
        BY <1>1 DEF SendStart, HandOK, callOf
      <3> QED
        BY <3>1, <3>2, <3>3, <3>4 DEF HandOK
    <2> QED
      BY <2>1, <2>2, <2>3 DEF Open
  <1>2. CASE SendTryTake(s)
    <2>1. SendOpen'
      <3>1. \A m \in Message : m[2] > calls'[m[1]] => sendTask'[m] = "none"
        BY <1>2 DEF SendTryTake, SendOpen
      <3>2. \A m \in Message : Located(m, waiters') => sendTask'[m] = "open"
        BY <1>2 DEF SendTryTake, SendOpen
      <3>3. \A t \in Senders : pc'[t] # "idle" => sendTask'[msgOf(t)'] = "open"
        BY <1>2 DEF SendTryTake, SendOpen, msgOf
      <3>4. \A q \in Receivers : pc'[q] = "deliver" => sendTask'[hand'[q]] = "open"
        <4>1. (\A q \in Receivers : pc'[q] = pc[q] /\ hand'[q] = hand[q]) /\ UNCHANGED sendTask
          BY <1>2 DEF SendTryTake
        <4> QED
          BY <4>1 DEF SendOpen
      <3> QED
        BY <3>1, <3>2, <3>3, <3>4 DEF SendOpen
    <2>2. RecvOpen'
      <3>1. \A d \in RecvCall : d[2] > calls'[d[1]] => recvTask'[d] = "none"
        BY <1>2 DEF SendTryTake, RecvOpen
      <3>2. \A d \in RecvCall : Located(d, promises') => recvTask'[d] = "open"
        <4>1. promises' = promises \/ (promises # <<>> /\ promises' = Tail(promises))
          BY <1>2 DEF SendTryTake, Dequeue
        <4>2. \A d : Located(d, promises') => Located(d, promises)
          BY <4>1, Elements
        <4> QED
          BY <1>2, <4>2 DEF SendTryTake, RecvOpen
      <3>3. \A q \in Receivers : pc'[q] # "idle" => recvTask'[callOf(q)'] = "open"
        BY <1>2 DEF SendTryTake, RecvOpen, callOf
      <3>4. \A t \in Senders : pc'[t] = "deliver" => recvTask'[hand'[t]] = "open"
        BY <1>2, Elements DEF SendTryTake, RecvOpen
      <3>5. \A d \in RecvCall : got'[d] # Nothing <=> recvTask'[d] \in {"ok", "failed"}
        BY <1>2 DEF SendTryTake, RecvOpen
      <3> QED
        BY <3>1, <3>2, <3>3, <3>4, <3>5 DEF RecvOpen
    <2>3. HandOK'
      <3>1. \A t \in Senders : pc'[t] \in {"deliver", "callback"} => hand'[t] \in RecvCall
        BY <1>2 DEF SendTryTake, HandOK
      <3>2. \A t \in Senders : pc'[t] = "callback" => got'[hand'[t]] = msgOf(t)'
        BY <1>2 DEF SendTryTake, HandOK, msgOf
      <3>3. \A q \in Receivers : pc'[q] \in {"deliver", "return"} => hand'[q] \in Message
        BY <1>2 DEF SendTryTake, HandOK
      <3>4. \A t \in Senders, q \in Receivers :
              pc'[t] = "deliver" /\ pc'[q] # "idle" => hand'[t] # callOf(q)'
        <4>1. CASE promises = <<>>
          BY <1>2, <4>1 DEF SendTryTake, HandOK, callOf
        <4>2. CASE promises # <<>>
          <5>1. \A q \in Receivers : pc[q] # "idle" => callOf(q) # Head(promises)
            BY <4>2, Owners, Elements
          <5> QED
            BY <1>2, <4>2, <5>1 DEF SendTryTake, HandOK, callOf
        <4> QED
          BY <4>1, <4>2
      <3> QED
        BY <3>1, <3>2, <3>3, <3>4 DEF HandOK
    <2> QED
      BY <2>1, <2>2, <2>3 DEF Open
  <1>3. CASE SendAdd(s)
    <2>1. SendOpen'
      <3>1. \A m \in Message : m[2] > calls'[m[1]] => sendTask'[m] = "none"
        BY <1>3 DEF SendAdd, SendOpen, Enqueue
      <3>2. \A m \in Message : Located(m, waiters') => sendTask'[m] = "open"
        <4>1. CASE sendTask' = [sendTask EXCEPT ![msgOf(s)] = "refused"] /\ waiters' = waiters
          BY <1>3, <4>1, Owners DEF SendAdd, SendOpen
        <4>2. CASE sendTask' = sendTask /\ waiters' = Append(waiters, msgOf(s))
          BY <1>3, <4>2, Elements DEF SendAdd, SendOpen
        <4> QED
          BY <1>3, <4>1, <4>2 DEF SendAdd, Enqueue
      <3>3. \A t \in Senders : pc'[t] # "idle" => sendTask'[msgOf(t)'] = "open"
        BY <1>3, CallTypes DEF SendAdd, SendOpen, Enqueue, msgOf
      <3>4. \A q \in Receivers : pc'[q] = "deliver" => sendTask'[hand'[q]] = "open"
        BY <1>3, Owners DEF SendAdd, SendOpen, HandOK
      <3> QED
        BY <3>1, <3>2, <3>3, <3>4 DEF SendOpen
    <2>2. RecvOpen'
      <3>1. \A d \in RecvCall : d[2] > calls'[d[1]] => recvTask'[d] = "none"
        BY <1>3 DEF SendAdd, RecvOpen, Enqueue
      <3>2. \A d \in RecvCall : Located(d, promises') => recvTask'[d] = "open"
        BY <1>3 DEF SendAdd, RecvOpen, Enqueue
      <3>3. \A q \in Receivers : pc'[q] # "idle" => recvTask'[callOf(q)'] = "open"
        BY <1>3 DEF SendAdd, RecvOpen, Enqueue, callOf
      <3>4. \A t \in Senders : pc'[t] = "deliver" => recvTask'[hand'[t]] = "open"
        BY <1>3 DEF SendAdd, RecvOpen, Enqueue
      <3>5. \A d \in RecvCall : got'[d] # Nothing <=> recvTask'[d] \in {"ok", "failed"}
        BY <1>3 DEF SendAdd, RecvOpen, Enqueue
      <3> QED
        BY <3>1, <3>2, <3>3, <3>4, <3>5 DEF RecvOpen
    <2>3. HandOK'
      <3>1. \A t \in Senders : pc'[t] \in {"deliver", "callback"} => hand'[t] \in RecvCall
        BY <1>3 DEF SendAdd, HandOK, Enqueue
      <3>2. \A t \in Senders : pc'[t] = "callback" => got'[hand'[t]] = msgOf(t)'
        BY <1>3 DEF SendAdd, HandOK, Enqueue, msgOf
      <3>3. \A q \in Receivers : pc'[q] \in {"deliver", "return"} => hand'[q] \in Message
        BY <1>3 DEF SendAdd, HandOK, Enqueue
      <3>4. \A t \in Senders, q \in Receivers :
              pc'[t] = "deliver" /\ pc'[q] # "idle" => hand'[t] # callOf(q)'
        BY <1>3 DEF SendAdd, HandOK, Enqueue, callOf
      <3> QED
        BY <3>1, <3>2, <3>3, <3>4 DEF HandOK
    <2> QED
      BY <2>1, <2>2, <2>3 DEF Open
  <1>4. CASE SendSetResult(s)
    <2>1. SendOpen'
      <3>1. \A m \in Message : m[2] > calls'[m[1]] => sendTask'[m] = "none"
        BY <1>4 DEF SendSetResult, SendOpen
      <3>2. \A m \in Message : Located(m, waiters') => sendTask'[m] = "open"
        BY <1>4 DEF SendSetResult, SendOpen
      <3>3. \A t \in Senders : pc'[t] # "idle" => sendTask'[msgOf(t)'] = "open"
        BY <1>4 DEF SendSetResult, SendOpen, msgOf
      <3>4. \A q \in Receivers : pc'[q] = "deliver" => sendTask'[hand'[q]] = "open"
        BY <1>4 DEF SendSetResult, SendOpen
      <3> QED
        BY <3>1, <3>2, <3>3, <3>4 DEF SendOpen
    <2>2. RecvOpen'
      <3>1. \A d \in RecvCall : d[2] > calls'[d[1]] => recvTask'[d] = "none"
        BY <1>4 DEF SendSetResult, RecvOpen
      <3>2. \A d \in RecvCall : Located(d, promises') => recvTask'[d] = "open"
        BY <1>4, Owners DEF SendSetResult, RecvOpen
      <3>3. \A q \in Receivers : pc'[q] # "idle" => recvTask'[callOf(q)'] = "open"
        <4>1. \A q \in Receivers : pc[q] # "idle" => callOf(q) # hand[s] /\ callOf(q)' = callOf(q)
          BY <1>4 DEF SendSetResult, HandOK, callOf
        <4> QED
          BY <1>4, <4>1 DEF SendSetResult, RecvOpen
      <3>4. \A t \in Senders : pc'[t] = "deliver" => recvTask'[hand'[t]] = "open"
        BY <1>4, Owners DEF SendSetResult, RecvOpen
      <3>5. \A d \in RecvCall : got'[d] # Nothing <=> recvTask'[d] \in {"ok", "failed"}
        BY <1>4 DEF SendSetResult, RecvOpen, Nothing, msgOf
      <3> QED
        BY <3>1, <3>2, <3>3, <3>4, <3>5 DEF RecvOpen
    <2>3. HandOK'
      <3>1. \A t \in Senders : pc'[t] \in {"deliver", "callback"} => hand'[t] \in RecvCall
        BY <1>4 DEF SendSetResult, HandOK
      <3>2. \A t \in Senders : pc'[t] = "callback" => got'[hand'[t]] = msgOf(t)'
        <4>1. hand[s] \in RecvCall /\ got[hand[s]] = Nothing /\ got' = [got EXCEPT ![hand[s]] = msgOf(s)]
          BY <1>4 DEF SendSetResult, HandOK, RecvOpen
        <4>2. \A t \in Senders : pc[t] = "callback" => hand[t] # hand[s]
          BY <4>1, ThreadAssumption DEF HandOK, msgOf, Nothing
        <4>3. \A t \in Senders : msgOf(t)' = msgOf(t) /\ hand'[t] = hand[t]
          BY <1>4 DEF SendSetResult, msgOf
        <4>4. \A t \in Senders : pc'[t] = "callback" => t = s \/ pc[t] = "callback"
          BY <1>4 DEF SendSetResult
        <4> QED
          BY <4>1, <4>2, <4>3, <4>4 DEF HandOK
      <3>3. \A q \in Receivers : pc'[q] \in {"deliver", "return"} => hand'[q] \in Message
        BY <1>4 DEF SendSetResult, HandOK
      <3>4. \A t \in Senders, q \in Receivers :
              pc'[t] = "deliver" /\ pc'[q] # "idle" => hand'[t] # callOf(q)'
        BY <1>4 DEF SendSetResult, HandOK, callOf
      <3> QED
        BY <3>1, <3>2, <3>3, <3>4 DEF HandOK
    <2> QED
      BY <2>1, <2>2, <2>3 DEF Open
  <1>5. CASE SendCallback(s)
    <2>1. SendOpen'
      <3>1. \A m \in Message : m[2] > calls'[m[1]] => sendTask'[m] = "none"
        BY <1>5 DEF SendCallback, SendOpen
      <3>0. \A m \in Message : m # msgOf(s) => sendTask'[m] = sendTask[m]
        BY <1>5 DEF SendCallback
      <3>2. \A m \in Message : Located(m, waiters') => sendTask'[m] = "open"
        BY <1>5, <3>0, Owners DEF SendCallback, SendOpen
      <3>3. \A t \in Senders : pc'[t] # "idle" => sendTask'[msgOf(t)'] = "open"
        <4>1. \A t \in Senders : pc'[t] # "idle" => t # s /\ pc[t] # "idle" /\ msgOf(t)' = msgOf(t)
          BY <1>5 DEF SendCallback, msgOf
        <4>2. \A t \in Senders : t # s => msgOf(t) # msgOf(s)
          BY DEF msgOf
        <4> QED
          BY <3>0, <4>1, <4>2, CallTypes DEF SendOpen
      <3>4. \A q \in Receivers : pc'[q] = "deliver" => sendTask'[hand'[q]] = "open"
        <4>1. \A q \in Receivers : pc'[q] = pc[q] /\ hand'[q] = hand[q]
          BY <1>5 DEF SendCallback
        <4>2. \A q \in Receivers : pc[q] = "deliver" => hand[q] \in Message /\ hand[q] # msgOf(s)
          BY <1>5, Owners DEF SendCallback, HandOK
        <4> QED
          BY <3>0, <4>1, <4>2 DEF SendOpen
      <3> QED
        BY <3>1, <3>2, <3>3, <3>4 DEF SendOpen
    <2>2. RecvOpen'
      <3>1. \A d \in RecvCall : d[2] > calls'[d[1]] => recvTask'[d] = "none"
        BY <1>5 DEF SendCallback, RecvOpen
      <3>2. \A d \in RecvCall : Located(d, promises') => recvTask'[d] = "open"
        BY <1>5 DEF SendCallback, RecvOpen
      <3>3. \A q \in Receivers : pc'[q] # "idle" => recvTask'[callOf(q)'] = "open"
        BY <1>5 DEF SendCallback, RecvOpen, callOf
      <3>4. \A t \in Senders : pc'[t] = "deliver" => recvTask'[hand'[t]] = "open"
        BY <1>5 DEF SendCallback, RecvOpen
      <3>5. \A d \in RecvCall : got'[d] # Nothing <=> recvTask'[d] \in {"ok", "failed"}
        BY <1>5 DEF SendCallback, RecvOpen
      <3> QED
        BY <3>1, <3>2, <3>3, <3>4, <3>5 DEF RecvOpen
    <2>3. HandOK'
      <3>1. \A t \in Senders : pc'[t] \in {"deliver", "callback"} => hand'[t] \in RecvCall
        BY <1>5 DEF SendCallback, HandOK
      <3>2. \A t \in Senders : pc'[t] = "callback" => got'[hand'[t]] = msgOf(t)'
        BY <1>5 DEF SendCallback, HandOK, msgOf
      <3>3. \A q \in Receivers : pc'[q] \in {"deliver", "return"} => hand'[q] \in Message
        BY <1>5 DEF SendCallback, HandOK
      <3>4. \A t \in Senders, q \in Receivers :
              pc'[t] = "deliver" /\ pc'[q] # "idle" => hand'[t] # callOf(q)'
        BY <1>5 DEF SendCallback, HandOK, callOf
      <3> QED
        BY <3>1, <3>2, <3>3, <3>4 DEF HandOK
    <2> QED
      BY <2>1, <2>2, <2>3 DEF Open
  <1> QED
    BY <1>1, <1>2, <1>3, <1>4, <1>5 DEF SenderStep

(* The same of ReceiveAsync. *)
LEMMA RecvOpens ==
  ASSUME RInv, NEW r \in Receivers, RecvStart(r) \/ ReceiverStep(r)
  PROVE  Open'
  <1> USE ThreadAssumption, LimitAssumption
      DEF ThreadAssumption, LimitAssumption, RInv, Fresh, Open, IInv, TypeInv, TypeOK, ChannelOK,
          ThreadOK, CallOK, TaskOK, closeVars, Threads
  <1>1. CASE RecvStart(r)
    <2>1. SendOpen'
      <3>1. \A m \in Message : m[2] > calls'[m[1]] => sendTask'[m] = "none"
        BY <1>1 DEF RecvStart, SendOpen, Message
      <3>2. \A m \in Message : Located(m, waiters') => sendTask'[m] = "open"
        BY <1>1 DEF RecvStart, SendOpen
      <3>3. \A t \in Senders : pc'[t] # "idle" => sendTask'[msgOf(t)'] = "open"
        BY <1>1 DEF RecvStart, SendOpen, msgOf
      <3>4. \A q \in Receivers : pc'[q] = "deliver" => sendTask'[hand'[q]] = "open"
        BY <1>1 DEF RecvStart, SendOpen
      <3> QED
        BY <3>1, <3>2, <3>3, <3>4 DEF SendOpen
    <2>2. RecvOpen'
      <3>1. \A d \in RecvCall : d[2] > calls'[d[1]] => recvTask'[d] = "none"
        <4>1. \A d \in RecvCall : d[2] > calls'[d[1]] => d[2] > calls[d[1]] /\ d # <<r, calls[r] + 1>>
          BY <1>1 DEF RecvStart, RecvCall
        <4> QED
          BY <1>1, <4>1 DEF RecvStart, RecvOpen
      <3>2. \A d \in RecvCall : Located(d, promises') => recvTask'[d] = "open"
        BY <1>1 DEF RecvStart, RecvOpen
      <3>3. \A q \in Receivers : pc'[q] # "idle" => recvTask'[callOf(q)'] = "open"
        <4> SUFFICES ASSUME NEW q \in Receivers, pc'[q] # "idle" PROVE recvTask'[callOf(q)'] = "open"
          OBVIOUS
        <4>1. CASE q = r
          <5>1. callOf(q)' = <<r, calls[r] + 1>> /\ callOf(q)' \in RecvCall
            BY <1>1, <4>1 DEF RecvStart, callOf, RecvCall
          <5> QED
            BY <1>1, <5>1 DEF RecvStart
        <4>2. CASE q # r
          <5>1. callOf(q)' = callOf(q) /\ pc[q] # "idle" /\ callOf(q) # <<r, calls[r] + 1>>
            BY <1>1, <4>2 DEF RecvStart, callOf
          <5> QED
            BY <1>1, <5>1 DEF RecvStart, RecvOpen
        <4> QED
          BY <4>1, <4>2
      <3>4. \A t \in Senders : pc'[t] = "deliver" => recvTask'[hand'[t]] = "open"
        BY <1>1 DEF RecvStart, RecvOpen
      <3>5. \A d \in RecvCall : got'[d] # Nothing <=> recvTask'[d] \in {"ok", "failed"}
        <4>1. <<r, calls[r] + 1>> \in RecvCall /\ recvTask[<<r, calls[r] + 1>>] = "none"
          BY <1>1 DEF RecvStart, RecvCall, RecvOpen
        <4> QED
          BY <1>1, <4>1 DEF RecvStart, RecvOpen
      <3> QED
        BY <3>1, <3>2, <3>3, <3>4, <3>5 DEF RecvOpen
    <2>3. HandOK'
      <3>1. \A t \in Senders : pc'[t] \in {"deliver", "callback"} => hand'[t] \in RecvCall
        BY <1>1 DEF RecvStart, HandOK
      <3>2. \A t \in Senders : pc'[t] = "callback" => got'[hand'[t]] = msgOf(t)'
        BY <1>1 DEF RecvStart, HandOK, msgOf
      <3>3. \A q \in Receivers : pc'[q] \in {"deliver", "return"} => hand'[q] \in Message
        BY <1>1 DEF RecvStart, HandOK
      <3>4. \A t \in Senders, q \in Receivers :
              pc'[t] = "deliver" /\ pc'[q] # "idle" => hand'[t] # callOf(q)'
        <4>1. \A t \in Senders : pc[t] = "deliver" => <<msgOf(t), hand[t]>> \in Paired
          BY DEF Paired
        <4>2. <<r, calls[r] + 1>> \in RecvCall /\ UnmadeCall(<<r, calls[r] + 1>>)
          BY <1>1 DEF RecvStart, RecvCall, UnmadeCall
        <4>3. ASSUME NEW t \in Senders, pc[t] = "deliver" PROVE hand[t] # <<r, calls[r] + 1>>
          <5>1. \A p \in Paired : p[2] # <<r, calls[r] + 1>>
            BY <4>2 DEF FreshCalls
          <5> QED
            BY <4>1, <4>3, <5>1
        <4> QED
          BY <1>1, <4>3 DEF RecvStart, HandOK, callOf
      <3> QED
        BY <3>1, <3>2, <3>3, <3>4 DEF HandOK
    <2> QED
      BY <2>1, <2>2, <2>3 DEF Open
  <1>2. CASE RecvTryTake(r)
    <2>1. SendOpen'
      <3>1. \A m \in Message : m[2] > calls'[m[1]] => sendTask'[m] = "none"
        BY <1>2 DEF RecvTryTake, SendOpen
      <3>2. \A m \in Message : Located(m, waiters') => sendTask'[m] = "open"
        <4>1. waiters' = waiters \/ (waiters # <<>> /\ waiters' = Tail(waiters))
          BY <1>2 DEF RecvTryTake, Dequeue
        <4>2. \A m : Located(m, waiters') => Located(m, waiters)
          BY <4>1, Elements
        <4> QED
          BY <1>2, <4>2 DEF RecvTryTake, SendOpen
      <3>3. \A t \in Senders : pc'[t] # "idle" => sendTask'[msgOf(t)'] = "open"
        BY <1>2 DEF RecvTryTake, SendOpen, msgOf
      <3>4. \A q \in Receivers : pc'[q] = "deliver" => sendTask'[hand'[q]] = "open"
        BY <1>2, Elements DEF RecvTryTake, SendOpen
      <3> QED
        BY <3>1, <3>2, <3>3, <3>4 DEF SendOpen
    <2>2. RecvOpen'
      <3>1. \A d \in RecvCall : d[2] > calls'[d[1]] => recvTask'[d] = "none"
        BY <1>2 DEF RecvTryTake, RecvOpen
      <3>2. \A d \in RecvCall : Located(d, promises') => recvTask'[d] = "open"
        BY <1>2 DEF RecvTryTake, RecvOpen
      <3>3. \A q \in Receivers : pc'[q] # "idle" => recvTask'[callOf(q)'] = "open"
        BY <1>2 DEF RecvTryTake, RecvOpen, callOf
      <3>4. \A t \in Senders : pc'[t] = "deliver" => recvTask'[hand'[t]] = "open"
        BY <1>2 DEF RecvTryTake, RecvOpen
      <3>5. \A d \in RecvCall : got'[d] # Nothing <=> recvTask'[d] \in {"ok", "failed"}
        BY <1>2 DEF RecvTryTake, RecvOpen
      <3> QED
        BY <3>1, <3>2, <3>3, <3>4, <3>5 DEF RecvOpen
    <2>3. HandOK'
      <3>1. \A t \in Senders : pc'[t] \in {"deliver", "callback"} => hand'[t] \in RecvCall
        BY <1>2 DEF RecvTryTake, HandOK
      <3>2. \A t \in Senders : pc'[t] = "callback" => got'[hand'[t]] = msgOf(t)'
        BY <1>2 DEF RecvTryTake, HandOK, msgOf
      <3>3. \A q \in Receivers : pc'[q] \in {"deliver", "return"} => hand'[q] \in Message
        BY <1>2 DEF RecvTryTake, HandOK
      <3>4. \A t \in Senders, q \in Receivers :
              pc'[t] = "deliver" /\ pc'[q] # "idle" => hand'[t] # callOf(q)'
        BY <1>2, ZenonT(40) DEF RecvTryTake, HandOK, callOf
      <3> QED
        BY <3>1, <3>2, <3>3, <3>4 DEF HandOK
    <2> QED
      BY <2>1, <2>2, <2>3 DEF Open
  <1>3. CASE RecvAdd(r)
    <2>1. SendOpen'
      <3>1. \A m \in Message : m[2] > calls'[m[1]] => sendTask'[m] = "none"
        BY <1>3 DEF RecvAdd, SendOpen, Enqueue
      <3>2. \A m \in Message : Located(m, waiters') => sendTask'[m] = "open"
        BY <1>3 DEF RecvAdd, SendOpen, Enqueue
      <3>3. \A t \in Senders : pc'[t] # "idle" => sendTask'[msgOf(t)'] = "open"
        BY <1>3 DEF RecvAdd, SendOpen, Enqueue, msgOf
      <3>4. \A q \in Receivers : pc'[q] = "deliver" => sendTask'[hand'[q]] = "open"
        BY <1>3 DEF RecvAdd, SendOpen, Enqueue
      <3> QED
        BY <3>1, <3>2, <3>3, <3>4 DEF SendOpen
    <2>2. RecvOpen'
      <3>1. \A d \in RecvCall : d[2] > calls'[d[1]] => recvTask'[d] = "none"
        BY <1>3 DEF RecvAdd, RecvOpen, Enqueue
      <3>2. \A d \in RecvCall : Located(d, promises') => recvTask'[d] = "open"
        BY <1>3, Elements DEF RecvAdd, RecvOpen, Enqueue
      <3>3. \A q \in Receivers : pc'[q] # "idle" => recvTask'[callOf(q)'] = "open"
        BY <1>3 DEF RecvAdd, RecvOpen, Enqueue, callOf
      <3>4. \A t \in Senders : pc'[t] = "deliver" => recvTask'[hand'[t]] = "open"
        BY <1>3 DEF RecvAdd, RecvOpen, Enqueue
      <3>5. \A d \in RecvCall : got'[d] # Nothing <=> recvTask'[d] \in {"ok", "failed"}
        BY <1>3 DEF RecvAdd, RecvOpen, Enqueue
      <3> QED
        BY <3>1, <3>2, <3>3, <3>4, <3>5 DEF RecvOpen
    <2>3. HandOK'
      <3>1. \A t \in Senders : pc'[t] \in {"deliver", "callback"} => hand'[t] \in RecvCall
        BY <1>3 DEF RecvAdd, HandOK, Enqueue
      <3>2. \A t \in Senders : pc'[t] = "callback" => got'[hand'[t]] = msgOf(t)'
        BY <1>3 DEF RecvAdd, HandOK, Enqueue, msgOf
      <3>3. \A q \in Receivers : pc'[q] \in {"deliver", "return"} => hand'[q] \in Message
        BY <1>3 DEF RecvAdd, HandOK, Enqueue
      <3>4. \A t \in Senders, q \in Receivers :
              pc'[t] = "deliver" /\ pc'[q] # "idle" => hand'[t] # callOf(q)'
        BY <1>3 DEF RecvAdd, HandOK, Enqueue, callOf
      <3> QED
        BY <3>1, <3>2, <3>3, <3>4 DEF HandOK
    <2> QED
      BY <2>1, <2>2, <2>3 DEF Open
  <1>4. CASE RecvDeliver(r)
    <2>1. SendOpen'
      <3>1. \A m \in Message : m[2] > calls'[m[1]] => sendTask'[m] = "none"
        BY <1>4 DEF RecvDeliver, SendOpen
      <3>2. \A m \in Message : Located(m, waiters') => sendTask'[m] = "open"
        BY <1>4, Owners DEF RecvDeliver, SendOpen
      <3>3. \A t \in Senders : pc'[t] # "idle" => sendTask'[msgOf(t)'] = "open"
        <4>1. \A m \in Message : m # hand[r] => sendTask'[m] = sendTask[m]
          BY <1>4 DEF RecvDeliver
        <4>2. \A t \in Senders : pc[t] # "idle" => msgOf(t) # hand[r]
          BY <1>4, Owners DEF RecvDeliver
        <4>3. \A t \in Senders : pc'[t] = pc[t] /\ msgOf(t)' = msgOf(t)
          BY <1>4 DEF RecvDeliver, msgOf
        <4> QED
          BY <4>1, <4>2, <4>3, CallTypes DEF SendOpen
      <3>4. \A q \in Receivers : pc'[q] = "deliver" => sendTask'[hand'[q]] = "open"
        BY <1>4, Owners DEF RecvDeliver, SendOpen, HandOK
      <3> QED
        BY <3>1, <3>2, <3>3, <3>4 DEF SendOpen
    <2>2. RecvOpen'
      <3>1. \A d \in RecvCall : d[2] > calls'[d[1]] => recvTask'[d] = "none"
        BY <1>4 DEF RecvDeliver, RecvOpen
      <3>2. \A d \in RecvCall : Located(d, promises') => recvTask'[d] = "open"
        BY <1>4, Owners DEF RecvDeliver, RecvOpen
      <3>3. \A q \in Receivers : pc'[q] # "idle" => recvTask'[callOf(q)'] = "open"
        BY <1>4, CallTypes DEF RecvDeliver, RecvOpen, callOf
      <3>4. \A t \in Senders : pc'[t] = "deliver" => recvTask'[hand'[t]] = "open"
        <4>1. \A t \in Senders : pc[t] = "deliver" => hand[t] # callOf(r) /\ hand[t] \in RecvCall
          BY <1>4 DEF RecvDeliver, HandOK
        <4>2. \A t \in Senders : pc'[t] = pc[t] /\ hand'[t] = hand[t]
          BY <1>4 DEF RecvDeliver
        <4>3. \A d \in RecvCall : d # callOf(r) => recvTask'[d] = recvTask[d]
          BY <1>4 DEF RecvDeliver
        <4> QED
          BY <4>1, <4>2, <4>3 DEF RecvOpen
      <3>5. \A d \in RecvCall : got'[d] # Nothing <=> recvTask'[d] \in {"ok", "failed"}
        <4>1. hand[r] # Nothing
          BY <1>4, ThreadAssumption DEF RecvDeliver, HandOK, Message, Nothing
        <4> QED
          BY <1>4, <4>1 DEF RecvDeliver, RecvOpen
      <3> QED
        BY <3>1, <3>2, <3>3, <3>4, <3>5 DEF RecvOpen
    <2>3. HandOK'
      <3>1. \A t \in Senders : pc'[t] \in {"deliver", "callback"} => hand'[t] \in RecvCall
        BY <1>4 DEF RecvDeliver, HandOK
      <3>2. \A t \in Senders : pc'[t] = "callback" => got'[hand'[t]] = msgOf(t)'
        <4>1. got[callOf(r)] = Nothing
          BY <1>4, CallTypes DEF RecvDeliver, RecvOpen
        <4>2. \A t \in Senders : msgOf(t) # Nothing /\ msgOf(t)' = msgOf(t)
          BY <1>4, ThreadAssumption DEF RecvDeliver, msgOf, Nothing
        <4>3. \A t \in Senders : pc[t] = "callback" => hand[t] # callOf(r)
          BY <4>1, <4>2 DEF HandOK
        <4> QED
          BY <1>4, <4>2, <4>3 DEF RecvDeliver, HandOK
      <3>3. \A q \in Receivers : pc'[q] \in {"deliver", "return"} => hand'[q] \in Message
        BY <1>4 DEF RecvDeliver, HandOK
      <3>4. \A t \in Senders, q \in Receivers :
              pc'[t] = "deliver" /\ pc'[q] # "idle" => hand'[t] # callOf(q)'
        BY <1>4 DEF RecvDeliver, HandOK, callOf
      <3> QED
        BY <3>1, <3>2, <3>3, <3>4 DEF HandOK
    <2> QED
      BY <2>1, <2>2, <2>3 DEF Open
  <1>5. CASE RecvReturn(r)
    <2>1. SendOpen'
      <3>1. \A m \in Message : m[2] > calls'[m[1]] => sendTask'[m] = "none"
        BY <1>5 DEF RecvReturn, SendOpen
      <3>2. \A m \in Message : Located(m, waiters') => sendTask'[m] = "open"
        BY <1>5 DEF RecvReturn, SendOpen
      <3>3. \A t \in Senders : pc'[t] # "idle" => sendTask'[msgOf(t)'] = "open"
        BY <1>5 DEF RecvReturn, SendOpen, msgOf
      <3>4. \A q \in Receivers : pc'[q] = "deliver" => sendTask'[hand'[q]] = "open"
        BY <1>5 DEF RecvReturn, SendOpen
      <3> QED
        BY <3>1, <3>2, <3>3, <3>4 DEF SendOpen
    <2>2. RecvOpen'
      <3>1. \A d \in RecvCall : d[2] > calls'[d[1]] => recvTask'[d] = "none"
        BY <1>5 DEF RecvReturn, RecvOpen
      <3>2. \A d \in RecvCall : Located(d, promises') => recvTask'[d] = "open"
        BY <1>5, Owners DEF RecvReturn, RecvOpen
      <3>3. \A q \in Receivers : pc'[q] # "idle" => recvTask'[callOf(q)'] = "open"
        BY <1>5 DEF RecvReturn, RecvOpen, callOf
      <3>4. \A t \in Senders : pc'[t] = "deliver" => recvTask'[hand'[t]] = "open"
        BY <1>5 DEF RecvReturn, RecvOpen, HandOK
      <3>5. \A d \in RecvCall : got'[d] # Nothing <=> recvTask'[d] \in {"ok", "failed"}
        <4>1. hand[r] # Nothing
          BY <1>5, ThreadAssumption DEF RecvReturn, HandOK, Message, Nothing
        <4> QED
          BY <1>5, <4>1 DEF RecvReturn, RecvOpen
      <3> QED
        BY <3>1, <3>2, <3>3, <3>4, <3>5 DEF RecvOpen
    <2>3. HandOK'
      <3>1. \A t \in Senders : pc'[t] \in {"deliver", "callback"} => hand'[t] \in RecvCall
        BY <1>5 DEF RecvReturn, HandOK
      <3>2. \A t \in Senders : pc'[t] = "callback" => got'[hand'[t]] = msgOf(t)'
        <4>1. got[callOf(r)] = Nothing
          BY <1>5, CallTypes DEF RecvReturn, RecvOpen
        <4>2. \A t \in Senders : msgOf(t) # Nothing /\ msgOf(t)' = msgOf(t)
          BY <1>5, ThreadAssumption DEF RecvReturn, msgOf, Nothing
        <4>3. \A t \in Senders : pc[t] = "callback" => hand[t] # callOf(r)
          BY <4>1, <4>2 DEF HandOK
        <4> QED
          BY <1>5, <4>2, <4>3 DEF RecvReturn, HandOK
      <3>3. \A q \in Receivers : pc'[q] \in {"deliver", "return"} => hand'[q] \in Message
        BY <1>5 DEF RecvReturn, HandOK
      <3>4. \A t \in Senders, q \in Receivers :
              pc'[t] = "deliver" /\ pc'[q] # "idle" => hand'[t] # callOf(q)'
        BY <1>5 DEF RecvReturn, HandOK, callOf
      <3> QED
        BY <3>1, <3>2, <3>3, <3>4 DEF HandOK
    <2> QED
      BY <2>1, <2>2, <2>3 DEF Open
  <1> QED
    BY <1>1, <1>2, <1>3, <1>4, <1>5 DEF ReceiverStep

(* The end of a callback's Task changes a task that is open no more.       *)
LEMMA EndKeeps ==
  ASSUME RInv, NEW m \in Message, CallbackEnds(m)
  PROVE  Fresh' /\ Open'
  <1>1. /\ UNCHANGED <<waiters, promises, pc, calls, hand, recvTask, got>>
        /\ \A s : msgOf(s)' = msgOf(s)
        /\ \A r : callOf(r)' = callOf(r)
        /\ Paired' = Paired
    BY DEF CallbackEnds, msgOf, callOf, Paired
  <1>2. \A x \in Message : sendTask[x] # "follows" => sendTask'[x] = sendTask[x]
    BY DEF CallbackEnds, RInv, IInv, TypeInv, TypeOK, TaskOK
  <1>3. Fresh'
    BY <1>1 DEF RInv, Fresh, FreshMessages, FreshCalls, UnsentMessage, UnmadeCall
  <1>4. SendOpen'
    <2>1. \A s \in Senders : pc[s] # "idle" => msgOf(s) \in Message
      BY CallTypes DEF RInv, IInv
    <2>2. \A r \in Receivers : pc[r] = "deliver" => hand[r] \in Message
      BY DEF RInv, Open, HandOK
    <2> QED
      BY <1>1, <1>2, <2>1, <2>2 DEF RInv, Open, SendOpen
  <1>5. RecvOpen' /\ HandOK'
    BY <1>1 DEF RInv, Open, RecvOpen, HandOK
  <1> QED
    BY <1>3, <1>4, <1>5 DEF Open

(* Close takes promises; nothing else of the accounts changes. *)
LEMMA CloseKeeps ==
  ASSUME RInv, NEW c \in Closers, Invoke(c) \/ CloserStep(c)
  PROVE  Fresh' /\ Open'
  <1> USE ThreadAssumption
      DEF ThreadAssumption, RInv, Fresh, Open, IInv, TypeInv, TypeOK, ChannelOK, ThreadOK,
          TaskOK, closeVars, Threads
  <1>0. /\ UNCHANGED <<waiters, calls, hand, sendTask, got>>
        /\ \A t \in Senders \cup Receivers : pc'[t] = pc[t]
        /\ \A s \in Senders : msgOf(s)' = msgOf(s)
        /\ \A r \in Receivers : callOf(r)' = callOf(r)
    BY DEF Invoke, CloserStep, CompleteAdding, CloseDelay, CloseEmpty, CloseDrain, CloseEnd, msgOf, callOf
  <1>1. Paired' = Paired
    BY <1>0 DEF Paired
  <1>2. /\ \A m \in Message : UnsentMessage(m)' = UnsentMessage(m)
        /\ \A d \in RecvCall : UnmadeCall(d)' = UnmadeCall(d)
    BY <1>0 DEF UnsentMessage, UnmadeCall, Message, RecvCall
  <1>3. SendOpen' /\ HandOK' /\ FreshMessages'
    <2>1. SendOpen'
      BY <1>0 DEF SendOpen
    <2>2. HandOK'
      BY <1>0 DEF HandOK
    <2>3. FreshMessages'
      BY <1>0, <1>1, <1>2 DEF FreshMessages
    <2> QED
      BY <2>1, <2>2, <2>3
  <1>4. CASE CloseDrain(c)
    <2>1. /\ promises # <<>> /\ promises' = Tail(promises)
          /\ recvTask' = [recvTask EXCEPT ![Head(promises)] = "cancelled"]
      BY <1>4 DEF CloseDrain, Dequeue
    <2>2. /\ \A d : Located(d, Tail(promises)) => Located(d, promises) /\ d # Head(promises)
          /\ Located(Head(promises), promises)
      BY <2>1, Elements
    <2>3. FreshCalls'
      BY <1>1, <1>2, <2>1, <2>2 DEF FreshCalls
    <2>4. \A d \in RecvCall : d # Head(promises) => recvTask'[d] = recvTask[d]
      BY <2>1
    <2>5. recvTask[Head(promises)] = "open" /\ recvTask'[Head(promises)] = "cancelled"
      BY <2>1, <2>2 DEF RecvOpen
    <2>6. \A r \in Receivers : pc[r] # "idle" => callOf(r) \in RecvCall /\ callOf(r) # Head(promises)
      BY <2>2, Owners, CallTypes
    <2>7. \A s \in Senders : pc[s] = "deliver" => hand[s] \in RecvCall /\ hand[s] # Head(promises)
      BY <2>2, Owners DEF HandOK
    <2>8. Head(promises) \in RecvCall
      BY <2>1
    <2>9. RecvOpen'
      <3>1. \A d \in RecvCall : d[2] > calls'[d[1]] => recvTask'[d] = "none"
        BY <1>0, <2>4, <2>5, <2>8 DEF RecvOpen
      <3>2. \A d \in RecvCall : Located(d, promises') => recvTask'[d] = "open"
        BY <2>1, <2>2, <2>4 DEF RecvOpen
      <3>3. \A r \in Receivers : pc'[r] # "idle" => recvTask'[callOf(r)'] = "open"
        BY <1>0, <2>4, <2>6 DEF RecvOpen
      <3>4. \A s \in Senders : pc'[s] = "deliver" => recvTask'[hand'[s]] = "open"
        BY <1>0, <2>4, <2>7 DEF RecvOpen
      <3>5. \A d \in RecvCall : got'[d] # Nothing <=> recvTask'[d] \in {"ok", "failed"}
        BY <1>0, <2>4, <2>5 DEF RecvOpen
      <3> QED
        BY <3>1, <3>2, <3>3, <3>4, <3>5 DEF RecvOpen
    <2> QED
      BY <1>3, <2>3, <2>9 DEF Fresh, Open
  <1>5. CASE UNCHANGED <<promises, recvTask>>
    <2>1. FreshCalls'
      BY <1>1, <1>2, <1>5 DEF FreshCalls
    <2>2. RecvOpen'
      BY <1>0, <1>5 DEF RecvOpen
    <2> QED
      BY <1>3, <2>1, <2>2 DEF Fresh, Open
  <1> QED
    BY <1>4, <1>5 DEF Invoke, CloserStep, CompleteAdding, CloseDelay, CloseEmpty, CloseEnd

-----------------------------------------------------------------------------
(* Nothing is accounted for in the empty channel. *)
LEMMA RefinementInit == Init => RInv /\ Fifo!Init
  <1> SUFFICES ASSUME Init PROVE RInv /\ Fifo!Init
    OBVIOUS
  <1>1. IInv
    BY LockInit
  <1> USE ThreadAssumption DEF ThreadAssumption, Init, Threads
  <1>2. Paired = {}
    BY DEF Paired
  <1>3. MatchedOnce /\ RefusedNotDelivered
    BY <1>2 DEF MatchedOnce, RefusedNotDelivered, Located
  <1>4. FreshMessages /\ FreshCalls
    BY <1>2 DEF FreshMessages, FreshCalls, Located
  <1>5. SendOpen /\ RecvOpen /\ HandOK
    BY DEF SendOpen, RecvOpen, HandOK, Located
  <1>6. Fifo!Init
    BY <1>2 DEF Fifo!Init
  <1> QED
    BY <1>1, <1>3, <1>4, <1>5, <1>6 DEF RInv, Fresh, Open

(* Every step decides about one call, as FifoChan does, or about none. *)
LEMMA Decides ==
  ASSUME RInv, [Next]_vars
  PROVE  [Fifo!Next]_(Fifo!vars)
  <1>1. CASE UNCHANGED vars
    BY <1>1 DEF vars, Fifo!vars, Paired, msgOf, callOf
  <1> QED
    BY <1>1, SendDecides, RecvDecides, EndDecides, CloseDecides DEF Next

(* The accounts are kept by every step. *)
LEMMA RefinementNext == RInv /\ [Next]_vars => RInv'
  <1> SUFFICES ASSUME RInv, [Next]_vars PROVE RInv'
    OBVIOUS
  <1>1. IInv'
    BY LockNext DEF RInv
  <1>2. MatchedOnce' /\ RefusedNotDelivered'
    BY Decides, FifoMatched, FifoRefused DEF RInv, IInv
  <1>3. Fresh' /\ Open'
    <2>1. CASE UNCHANGED vars
      <3>1. /\ UNCHANGED <<waiters, promises, pc, calls, hand, sendTask, recvTask, got>>
            /\ \A s : msgOf(s)' = msgOf(s)
            /\ \A r : callOf(r)' = callOf(r)
            /\ Paired' = Paired
        BY <2>1 DEF vars, msgOf, callOf, Paired
      <3>2. Fresh'
        BY <3>1 DEF RInv, Fresh, FreshMessages, FreshCalls, UnsentMessage, UnmadeCall
      <3>3. Open'
        BY <3>1 DEF RInv, Open, SendOpen, RecvOpen, HandOK
      <3> QED
        BY <3>2, <3>3
    <2> QED
      BY <2>1, SendFresh, RecvFresh, SendOpens, RecvOpens, EndKeeps, CloseKeeps DEF Next
  <1> QED
    BY <1>1, <1>2, <1>3 DEF RInv

(* The locked channel implements the abstract one: each of its steps pairs *)
(* one message with one receive call, first come first served, or refuses  *)
(* or cancels one, or lets one wait, or decides nothing (ChanAsync.cs,     *)
(* ChanBase.cs; Chan/README.md, `Chan idea').                              *)
THEOREM Refinement == Spec => ImplementsFifo
  <1>1. Spec => []RInv
    BY RefinementInit, RefinementNext, PTL DEF Spec
  <1>2. RInv /\ [Next]_vars => [Fifo!Next]_(Fifo!vars)
    BY Decides
  <1> QED
    BY <1>1, <1>2, RefinementInit, PTL DEF Spec, ImplementsFifo, Fifo!Spec

(* No message is lost to two receive calls, or duplicated in the queues,   *)
(* and no receive call gets two (ChanAsync.cs, SendAsyncImpl and           *)
(* ReceiveAsyncImpl).                                                      *)
THEOREM NothingTwice == Spec => []MatchedOnce
  <1>1. Spec => []RInv
    BY RefinementInit, RefinementNext, PTL DEF Spec
  <1> QED
    BY <1>1, PTL DEF RInv

-----------------------------------------------------------------------------
(* What a step may do to a task. *)
SendStays ==
  \A m \in Message :
    /\ sendTask[m] \in Ends \cup {"refused"} => sendTask'[m] = sendTask[m]
    /\ sendTask[m] = "follows" => sendTask'[m] \in Ends \cup {"follows"}

RecvStays == \A c \in RecvCall : recvTask[c] \in Ends => recvTask'[c] = recvTask[c]

(* No step changes a settled task. *)
LEMMA SettledStays ==
  ASSUME RInv, Next
  PROVE  SendStays /\ RecvStays
  <1> USE DEF SendStays, RecvStays, Ends, RInv, Fresh, Open, IInv, TypeInv, TypeOK, TaskOK, closeVars
  <1>1. ASSUME NEW s \in Senders, SendStart(s) PROVE SendStays /\ RecvStays
    <2>1. <<s, calls[s] + 1>> \in Message /\ sendTask[<<s, calls[s] + 1>>] = "none"
      BY <1>1, LimitAssumption DEF LimitAssumption, SendStart, SendOpen, Message, CallOK
    <2> QED
      BY <1>1, <2>1 DEF SendStart
  <1>2. ASSUME NEW s \in Senders, SenderStep(s) PROVE SendStays /\ RecvStays
    <2>1. CASE SendTryTake(s)
      BY <2>1 DEF SendTryTake
    <2>2. CASE SendAdd(s)
      BY <2>2 DEF SendAdd, SendOpen
    <2>3. CASE SendSetResult(s)
      BY <2>3 DEF SendSetResult, RecvOpen
    <2>4. CASE SendCallback(s)
      BY <2>4 DEF SendCallback, SendOpen
    <2> QED
      BY <1>2, <2>1, <2>2, <2>3, <2>4 DEF SenderStep
  <1>3. ASSUME NEW r \in Receivers, RecvStart(r) PROVE SendStays /\ RecvStays
    <2>1. <<r, calls[r] + 1>> \in RecvCall /\ recvTask[<<r, calls[r] + 1>>] = "none"
      BY <1>3, LimitAssumption DEF LimitAssumption, RecvStart, RecvOpen, RecvCall, CallOK
    <2> QED
      BY <1>3, <2>1 DEF RecvStart
  <1>4. ASSUME NEW r \in Receivers, ReceiverStep(r) PROVE SendStays /\ RecvStays
    <2>1. CASE RecvTryTake(r) \/ RecvAdd(r)
      BY <2>1 DEF RecvTryTake, RecvAdd
    <2>2. CASE RecvDeliver(r)
      BY <2>2 DEF RecvDeliver, SendOpen, RecvOpen
    <2>3. CASE RecvReturn(r)
      BY <2>3 DEF RecvReturn, RecvOpen
    <2> QED
      BY <1>4, <2>1, <2>2, <2>3 DEF ReceiverStep
  <1>6. ASSUME NEW m \in Message, CallbackEnds(m) PROVE SendStays /\ RecvStays
    BY <1>6 DEF CallbackEnds
  <1>5. ASSUME NEW c \in Closers, Invoke(c) \/ CloserStep(c) PROVE SendStays /\ RecvStays
    <2>1. CASE CloseDrain(c)
      <3>1. Head(promises) \in RecvCall /\ recvTask[Head(promises)] = "open"
        BY <2>1, QueueTypes, Elements DEF CloseDrain, RecvOpen
      <3> QED
        BY <2>1, <3>1 DEF CloseDrain
    <2>2. CASE UNCHANGED <<sendTask, recvTask>>
      BY <2>2
    <2> QED
      BY <1>5, <2>1, <2>2
      DEF Invoke, CloserStep, CompleteAdding, CloseDelay, CloseEmpty, CloseEnd
  <1> QED
    BY <1>1, <1>2, <1>3, <1>4, <1>5, <1>6 DEF Next

(* Each task is completed once: DeliverAsync, TaskCompletionCallback and   *)
(* Close never meet in one task (SetResult would throw).                   *)
THEOREM SettleOnce == Spec => TasksSettleOnce
  <1>1. Spec => []RInv
    BY RefinementInit, RefinementNext, PTL DEF Spec
  <1>2. RInv /\ [Next]_vars =>
          [SendStays /\ RecvStays]_vars
    BY SettledStays
  <1> QED
    BY <1>1, <1>2, PTL DEF Spec, TasksSettleOnce, SendStays, RecvStays
=============================================================================
