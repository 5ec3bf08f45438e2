--------------------------- MODULE ChanAsyncOrder ---------------------------
(***************************************************************************)
(* The order of messages, what the task of a send tells, and what a closed *)
(* channel leaves behind, for every number of threads, calls and           *)
(* capacities, whatever the receivers' callbacks do.                       *)
(***************************************************************************)
EXTENDS ChanAsyncProofs

(* Calls of one thread are numbered in the order they were made. *)
Before(x, y) == x[1] = y[1] => x[2] < y[2]

Ordered(queue) == \A i, j \in DOMAIN queue : i < j => Before(queue[i], queue[j])
BeforeAll(x, queue) == \A i \in DOMAIN queue : Before(x, queue[i])
AfterAll(queue, x) == \A i \in DOMAIN queue : Before(queue[i], x)

(* The queues hold the calls of a thread in their order, and what is       *)
(* paired comes before what still waits.                                   *)
QueuesOrdered == Ordered(waiters) /\ Ordered(promises)
PairedFirst == \A p \in Paired : BeforeAll(p[1], waiters) /\ BeforeAll(p[2], promises)

OrderInv == QueuesOrdered /\ PairedFirst /\ PairOrder

-----------------------------------------------------------------------------
(***************************************************************************)
(* The order in which messages arrive                                      *)
(***************************************************************************)

(* Pairs are of a message and a call. *)
LEMMA PairTypes == RInv => \A p \in Paired : p[1] \in Message /\ p[2] \in RecvCall
  <1> SUFFICES ASSUME RInv, NEW p \in Paired PROVE p[1] \in Message /\ p[2] \in RecvCall
    OBVIOUS
  <1> USE DEF RInv, IInv, TypeInv, TypeOK, Open, HandOK, TaskOK
  <1>1. CASE \E c \in RecvCall : got[c] # Nothing /\ p = <<got[c], c>>
    BY <1>1
  <1>2. CASE \E s \in Senders : pc[s] = "deliver" /\ p = <<msgOf(s), hand[s]>>
    BY <1>2, CallTypes
  <1>3. CASE \E r \in Receivers : pc[r] \in {"deliver", "return"} /\ p = <<hand[r], callOf(r)>>
    BY <1>3, CallTypes
  <1> QED
    BY <1>1, <1>2, <1>3, InPaired

(* A call that has nothing decided yet comes after all of its thread. *)
LEMMA NewMessage ==
  ASSUME RInv, NEW s \in Senders, pc[s] \in {"lock", "add"}
  PROVE  /\ AfterAll(waiters, msgOf(s))
         /\ \A p \in Paired : Before(p[1], msgOf(s))
  <1> USE DEF RInv, IInv, TypeInv, TypeOK, ChannelOK
  <1>1. ASSUME NEW m \in Message, Located(m, waiters) \/ \E p \in Paired : p[1] = m
        PROVE  Before(m, msgOf(s))
    <2>1. ~UnsentMessage(m)
      BY <1>1 DEF Fresh, FreshMessages
    <2>2. m[1] = s => m[2] <= calls[s] /\ m # <<s, calls[s]>>
      BY <1>1, <2>1 DEF UnsentMessage, msgOf, Message, CallOK
    <2>3. m[1] = s => m[2] # calls[s]
      BY <2>2 DEF Message
    <2> QED
      BY <2>2, <2>3, LimitAssumption DEF Before, msgOf, Message, CallOK, LimitAssumption
  <1>2. \A i \in DOMAIN waiters : waiters[i] \in Message /\ Located(waiters[i], waiters)
    BY DEF Located
  <1> QED
    BY <1>1, <1>2, PairTypes DEF AfterAll

LEMMA NewCall ==
  ASSUME RInv, NEW r \in Receivers, pc[r] \in {"lock", "add"}
  PROVE  /\ AfterAll(promises, callOf(r))
         /\ \A p \in Paired : Before(p[2], callOf(r))
  <1> USE DEF RInv, IInv, TypeInv, TypeOK, ChannelOK
  <1>1. ASSUME NEW c \in RecvCall, Located(c, promises) \/ \E p \in Paired : p[2] = c
        PROVE  Before(c, callOf(r))
    <2>1. ~UnmadeCall(c)
      BY <1>1 DEF Fresh, FreshCalls
    <2>2. c[1] = r => c[2] <= calls[r] /\ c # <<r, calls[r]>>
      BY <1>1, <2>1 DEF UnmadeCall, callOf, RecvCall, CallOK
    <2>3. c[1] = r => c[2] # calls[r]
      BY <2>2 DEF RecvCall
    <2> QED
      BY <2>2, <2>3, LimitAssumption DEF Before, callOf, RecvCall, CallOK, LimitAssumption
  <1>2. \A i \in DOMAIN promises : promises[i] \in RecvCall /\ Located(promises[i], promises)
    BY DEF Located
  <1> QED
    BY <1>1, <1>2, PairTypes DEF AfterAll

(* Queues stay ordered, and what leaves one comes before the rest of it. *)
LEMMA OrderedQueues ==
  ASSUME NEW S, NEW queue \in Seq(S), Ordered(queue)
  PROVE  /\ \A x : AfterAll(queue, x) => Ordered(Append(queue, x))
         /\ queue # <<>> => Ordered(Tail(queue)) /\ BeforeAll(Head(queue), Tail(queue))
         /\ \A x : queue # <<>> /\ BeforeAll(x, queue) => BeforeAll(x, Tail(queue)) /\ Before(x, Head(queue))
         /\ \A x, y : BeforeAll(x, queue) /\ Before(x, y) => BeforeAll(x, Append(queue, y))
  <1>1. ASSUME NEW x, AfterAll(queue, x) PROVE Ordered(Append(queue, x))
    BY <1>1 DEF Ordered, AfterAll
  <1>2. ASSUME queue # <<>> PROVE Ordered(Tail(queue)) /\ BeforeAll(Head(queue), Tail(queue))
    BY <1>2 DEF Ordered, BeforeAll
  <1>3. ASSUME NEW x, queue # <<>>, BeforeAll(x, queue)
        PROVE  BeforeAll(x, Tail(queue)) /\ Before(x, Head(queue))
    BY <1>3 DEF BeforeAll
  <1>4. ASSUME NEW x, NEW y, BeforeAll(x, queue), Before(x, y) PROVE BeforeAll(x, Append(queue, y))
    BY <1>4 DEF BeforeAll
  <1> QED
    BY <1>1, <1>2, <1>3, <1>4

(* A new pair of the first that waits and a call that is new. *)
LEMMA NewPair ==
  ASSUME RInv, PairOrder, NEW m \in Message, NEW c \in RecvCall,
         \A p \in Paired : Before(p[1], m) /\ Before(p[2], c),
         Paired' = Paired \cup {<<m, c>>}
  PROVE  PairOrder'
  <1>1. \A p \in Paired : p[1] \in Message /\ p[2] \in RecvCall
    BY PairTypes
  <1> QED
    BY <1>1, LimitAssumption DEF PairOrder, Before, Message, RecvCall, LimitAssumption

LEMMA SendOrder ==
  ASSUME RInv, OrderInv, NEW s \in Senders, SendStart(s) \/ SenderStep(s)
  PROVE  OrderInv'
  <1> USE DEF RInv, IInv, TypeInv, TypeOK, ChannelOK, OrderInv, QueuesOrdered
  <1>1. CASE SendStart(s) \/ SendSetResult(s) \/ SendCallback(s)
    <2>1. UNCHANGED <<waiters, promises>> /\ Paired' = Paired
      BY <1>1, SendPairs DEF SendStart, SendSetResult, SendCallback
    <2> QED
      BY <2>1 DEF PairedFirst, PairOrder
  <1>2. CASE SendTryTake(s) /\ promises # <<>>
    <2>1. /\ promises' = Tail(promises) /\ UNCHANGED waiters
          /\ Paired' = Paired \cup {<<msgOf(s), Head(promises)>>}
          /\ pc[s] = "lock" /\ waiters = <<>>
      BY <1>2, SendPairs DEF SendTryTake, Dequeue, QueuesDisjoint
    <2>2. msgOf(s) \in Message /\ Head(promises) \in RecvCall
      BY <1>2, CallTypes, <2>1
    <2>3. QueuesOrdered'
      BY <1>2, <2>1, OrderedQueues
    <2>4. \A p \in Paired : Before(p[1], msgOf(s)) /\ Before(p[2], Head(promises))
      BY <1>2, <2>1, NewMessage, OrderedQueues DEF PairedFirst
    <2>5. \A x : BeforeAll(x, <<>>)
      BY DEF BeforeAll
    <2>6. PairedFirst'
      BY <1>2, <2>1, <2>5, OrderedQueues DEF PairedFirst
    <2>7. PairOrder'
      BY <2>1, <2>2, <2>4, NewPair
    <2> QED
      BY <2>3, <2>6, <2>7
  <1>3. CASE SendTryTake(s) /\ promises = <<>>
    <2>1. UNCHANGED <<waiters, promises>> /\ Paired' = Paired
      BY <1>3, SendPairs DEF SendTryTake
    <2> QED
      BY <2>1 DEF PairedFirst, PairOrder
  <1>4. CASE SendAdd(s)
    <2>1. UNCHANGED promises /\ Paired' = Paired /\ pc[s] = "add"
      BY <1>4, SendPairs DEF SendAdd
    <2>2. CASE UNCHANGED waiters
      BY <2>1, <2>2 DEF PairedFirst, PairOrder
    <2>3. CASE waiters' = Append(waiters, msgOf(s))
      <3>1. QueuesOrdered'
        BY <2>1, <2>3, NewMessage, OrderedQueues
      <3>2. PairedFirst'
        BY <2>1, <2>3, NewMessage, OrderedQueues DEF PairedFirst
      <3> QED
        BY <2>1, <3>1, <3>2 DEF PairOrder
    <2> QED
      BY <1>4, <2>2, <2>3 DEF SendAdd, Enqueue
  <1> QED
    BY <1>1, <1>2, <1>3, <1>4 DEF SenderStep

LEMMA RecvOrder ==
  ASSUME RInv, OrderInv, NEW r \in Receivers, RecvStart(r) \/ ReceiverStep(r)
  PROVE  OrderInv'
  <1> USE DEF RInv, IInv, TypeInv, TypeOK, ChannelOK, OrderInv, QueuesOrdered
  <1>1. CASE RecvStart(r) \/ RecvDeliver(r) \/ RecvReturn(r)
    <2>1. UNCHANGED <<waiters, promises>> /\ Paired' = Paired
      BY <1>1, RecvPairs DEF RecvStart, RecvDeliver, RecvReturn
    <2> QED
      BY <2>1 DEF PairedFirst, PairOrder
  <1>2. CASE RecvTryTake(r) /\ waiters # <<>>
    <2>1. /\ waiters' = Tail(waiters) /\ UNCHANGED promises
          /\ Paired' = Paired \cup {<<Head(waiters), callOf(r)>>}
          /\ pc[r] = "lock" /\ promises = <<>>
      BY <1>2, RecvPairs DEF RecvTryTake, Dequeue, QueuesDisjoint
    <2>2. callOf(r) \in RecvCall /\ Head(waiters) \in Message
      BY <1>2, CallTypes, <2>1
    <2>3. QueuesOrdered'
      BY <1>2, <2>1, OrderedQueues
    <2>4. \A p \in Paired : Before(p[1], Head(waiters)) /\ Before(p[2], callOf(r))
      BY <1>2, <2>1, NewCall, OrderedQueues DEF PairedFirst
    <2>5. \A x : BeforeAll(x, <<>>)
      BY DEF BeforeAll
    <2>6. PairedFirst'
      BY <1>2, <2>1, <2>5, OrderedQueues DEF PairedFirst
    <2>7. PairOrder'
      BY <2>1, <2>2, <2>4, NewPair
    <2> QED
      BY <2>3, <2>6, <2>7
  <1>3. CASE RecvTryTake(r) /\ waiters = <<>>
    <2>1. UNCHANGED <<waiters, promises>> /\ Paired' = Paired
      BY <1>3, RecvPairs DEF RecvTryTake
    <2> QED
      BY <2>1 DEF PairedFirst, PairOrder
  <1>4. CASE RecvAdd(r)
    <2>1. UNCHANGED waiters /\ Paired' = Paired /\ pc[r] = "add" /\ promises' = Append(promises, callOf(r))
      BY <1>4, RecvPairs DEF RecvAdd, Enqueue
    <2>2. QueuesOrdered'
      BY <2>1, NewCall, OrderedQueues
    <2>3. PairedFirst'
      BY <2>1, NewCall, OrderedQueues DEF PairedFirst
    <2> QED
      BY <2>1, <2>2, <2>3 DEF PairOrder
  <1> QED
    BY <1>1, <1>2, <1>3, <1>4 DEF ReceiverStep

(* The end of a callback's Task moves nothing. *)
LEMMA EndOrder ==
  ASSUME OrderInv, NEW m \in Message, CallbackEnds(m)
  PROVE  OrderInv'
  <1>1. UNCHANGED <<waiters, promises>> /\ Paired' = Paired
    BY DEF CallbackEnds, Paired, msgOf, callOf
  <1> QED
    BY <1>1 DEF OrderInv, QueuesOrdered, PairedFirst, PairOrder

LEMMA CloseOrder ==
  ASSUME RInv, OrderInv, (\E c \in Closers : Invoke(c) \/ CloserStep(c)) \/ UNCHANGED vars
  PROVE  OrderInv'
  <1> USE DEF RInv, IInv, TypeInv, TypeOK, ChannelOK, OrderInv, QueuesOrdered
  <1>1. Paired' = Paired
    BY ThreadAssumption
    DEF Invoke, CloserStep, CompleteAdding, CloseDelay, CloseEmpty, CloseDrain, CloseEnd,
        Paired, msgOf, callOf, ThreadAssumption, Threads, ThreadOK, vars
  <1>2. UNCHANGED waiters /\ (UNCHANGED promises \/ (promises # <<>> /\ promises' = Tail(promises)))
    BY DEF Invoke, CloserStep, CompleteAdding, CloseDelay, CloseEmpty, CloseDrain, CloseEnd, Dequeue, vars
  <1>3. QueuesOrdered'
    BY <1>2, OrderedQueues
  <1>4. PairedFirst'
    BY <1>1, <1>2, OrderedQueues DEF PairedFirst
  <1> QED
    BY <1>1, <1>3, <1>4 DEF PairOrder

(* What one sender sends arrives at one receiver in the order it was sent  *)
(* (SendAsyncImpl and ReceiveAsyncImpl: Add at one end, TryTake at the     *)
(* other, of whichever queue is not empty).                                *)
THEOREM ArrivesInOrder == Spec => []PairOrder
  <1>1. Init => OrderInv
    BY ThreadAssumption
    DEF Init, OrderInv, QueuesOrdered, Ordered, PairedFirst, PairOrder, Paired, Threads, ThreadAssumption
  <1>2. RInv /\ OrderInv /\ [Next]_vars => OrderInv'
    BY SendOrder, RecvOrder, EndOrder, CloseOrder DEF Next
  <1>3. Spec => [](RInv /\ OrderInv)
    BY RefinementInit, RefinementNext, <1>1, <1>2, PTL DEF Spec
  <1> QED
    BY <1>3, PTL DEF OrderInv

-----------------------------------------------------------------------------
(***************************************************************************)
(* What the task of a send tells                                           *)
(***************************************************************************)

(* The message of an open send is in the queue, in the call that made it,  *)
(* or in a pair; the message of any other that was not refused is paired.  *)
InCall(m) == pc[m[1]] # "idle" /\ m = msgOf(m[1])

OpenSends ==
  \A m \in Message : sendTask[m] = "open" => Located(m, waiters) \/ InCall(m) \/ Given(m)

SendInv == OpenSends /\ CompletedDelivered

(* What is added is in the queue with what was there. *)
LEMMA LocatedAtEnd ==
  ASSUME NEW S, NEW queue \in Seq(S), NEW x \in S
  PROVE  /\ Located(x, Append(queue, x))
         /\ \A y : Located(y, queue) => Located(y, Append(queue, x))
  <1>1. /\ Len(queue) + 1 \in DOMAIN Append(queue, x) /\ Append(queue, x)[Len(queue) + 1] = x
        /\ \A i \in DOMAIN queue : i \in DOMAIN Append(queue, x) /\ Append(queue, x)[i] = queue[i]
    OBVIOUS
  <1> QED
    BY <1>1, ZenonT(20) DEF Located

(* What is taken from the head leaves the rest. *)
LEMMA LocatedAtHead ==
  ASSUME NEW S, NEW queue \in Seq(S), queue # <<>>, NEW x, Located(x, queue)
  PROVE  x = Head(queue) \/ Located(x, Tail(queue))
  <1>1. PICK i \in DOMAIN queue : queue[i] = x
    BY DEF Located
  <1>2. CASE i = 1
    BY <1>1, <1>2
  <1>3. CASE i # 1
    <2>1. i - 1 \in DOMAIN Tail(queue) /\ Tail(queue)[i - 1] = x
      BY <1>1, <1>3
    <2> QED
      BY <2>1 DEF Located
  <1> QED
    BY <1>2, <1>3

(* What is paired stays paired. *)
LEMMA PairsStay ==
  ASSUME RInv, [Next]_vars
  PROVE  \A m : Given(m) => Given(m)'
  <1>1. Paired \subseteq Paired'
    <2>1. ASSUME NEW s \in Senders, SendStart(s) \/ SenderStep(s) PROVE Paired \subseteq Paired'
      BY <2>1, SendPairs DEF SenderStep
    <2>2. ASSUME NEW r \in Receivers, RecvStart(r) \/ ReceiverStep(r) PROVE Paired \subseteq Paired'
      BY <2>2, RecvPairs DEF ReceiverStep
    <2>3. ASSUME NEW m \in Message, CallbackEnds(m) PROVE Paired' = Paired
      BY <2>3 DEF CallbackEnds, Paired, msgOf, callOf
    <2>4. ASSUME NEW c \in Closers, Invoke(c) \/ CloserStep(c) PROVE Paired' = Paired
      BY <2>4, ThreadAssumption
      DEF Invoke, CloserStep, CompleteAdding, CloseDelay, CloseEmpty, CloseDrain, CloseEnd,
          Paired, msgOf, callOf, ThreadAssumption, Threads, RInv, IInv, TypeInv, TypeOK, ThreadOK
    <2>5. ASSUME UNCHANGED vars PROVE Paired' = Paired
      BY <2>5 DEF vars, Paired, msgOf, callOf
    <2> QED
      BY <2>1, <2>2, <2>3, <2>4, <2>5 DEF Next
  <1> QED
    BY <1>1 DEF Given

LEMMA SendEnd ==
  ASSUME RInv, SendInv, NEW s \in Senders, SendStart(s) \/ SenderStep(s)
  PROVE  SendInv'
  <1> USE ThreadAssumption
      DEF ThreadAssumption, RInv, IInv, TypeInv, TypeOK, ThreadOK, TaskOK, ChannelOK, Threads, closeVars
  <1>0. \A m \in Message : m[1] # s => (InCall(m)' <=> InCall(m))
    <2>1. \A t \in Senders \ {s} : pc'[t] = pc[t] /\ calls'[t] = calls[t]
      BY DEF SendStart, SenderStep, SendTryTake, SendAdd, SendSetResult, SendCallback, CallOK
    <2> QED
      BY <2>1 DEF InCall, msgOf, Message
  <1>1. \A m : Given(m) => Given(m)'
    BY PairsStay DEF Next
  <1>2. CASE SendStart(s)
    <2>0. PICK n : n = <<s, calls[s] + 1>>
      OBVIOUS
    <2>1. /\ pc[s] = "idle" /\ UNCHANGED waiters
          /\ n \in Message /\ n[1] = s
          /\ calls' = [calls EXCEPT ![s] = calls[s] + 1]
      BY <1>2, <2>0, LimitAssumption DEF SendStart, Message, LimitAssumption, CallOK
    <2>2. /\ \A m \in Message : m # n => sendTask'[m] = sendTask[m]
          /\ sendTask'[n] = "open"
      BY <1>2, <2>0, <2>1 DEF SendStart
    <2>3. InCall(n)'
      <3>1. calls'[s] = calls[s] + 1
        BY <2>1 DEF CallOK
      <3>2. msgOf(s)' = n
        BY <2>0, <3>1 DEF msgOf
      <3>3. pc'[s] = "lock"
        BY <1>2 DEF SendStart
      <3> QED
        BY <2>1, <3>2, <3>3 DEF InCall, msgOf
    <2>4. \A m \in Message : InCall(m) => InCall(m)'
      BY <1>0, <2>1 DEF InCall
    <2>5. OpenSends'
      BY <1>1, <2>1, <2>2, <2>3, <2>4 DEF SendInv, OpenSends
    <2>6. CompletedDelivered'
      BY <1>1, <2>2 DEF SendInv, CompletedDelivered, Ends
    <2> QED
      BY <2>5, <2>6 DEF SendInv
  <1>3. CASE SenderStep(s)
    <2>1. UNCHANGED calls /\ msgOf(s)' = msgOf(s) /\ msgOf(s) \in Message /\ pc[s] # "idle" /\ msgOf(s)[1] = s
      BY <1>3, CallTypes DEF SenderStep, SendTryTake, SendAdd, SendSetResult, SendCallback, msgOf
    <2>2. \A m \in Message : m # msgOf(s) => sendTask'[m] = sendTask[m] /\ (InCall(m)' <=> InCall(m))
      BY <1>0, <1>3, <2>1 DEF SenderStep, SendTryTake, SendAdd, SendSetResult, SendCallback, InCall
    <2>3. /\ \A m : Located(m, waiters) => Located(m, waiters')
          /\ waiters' = Append(waiters, msgOf(s)) => Located(msgOf(s), waiters')
      <3>1. UNCHANGED waiters \/ waiters' = Append(waiters, msgOf(s))
        BY <1>3 DEF SenderStep, SendTryTake, SendAdd, SendSetResult, SendCallback, Enqueue
      <3>2. /\ \A m : Located(m, waiters) => Located(m, Append(waiters, msgOf(s)))
            /\ Located(msgOf(s), Append(waiters, msgOf(s)))
        BY <2>1, LocatedAtEnd
      <3>3. CASE UNCHANGED waiters
        BY <3>2, <3>3, ZenonT(20)
      <3>4. CASE waiters' = Append(waiters, msgOf(s))
        BY <3>2, <3>4, ZenonT(20)
      <3> QED
        BY <3>1, <3>3, <3>4
    <2>4. PICK n \in Message : n = msgOf(s)
      BY <2>1
    <2>5. \/ sendTask'[n] = "refused"
          \/ sendTask'[n] = "open" /\ (InCall(n)' \/ Located(n, waiters'))
          \/ Given(n)'
      <3>1. CASE SendAdd(s)
        <4>1. CASE waiters' = Append(waiters, msgOf(s)) /\ UNCHANGED sendTask
          <5>1. sendTask'[n] = "open"
            BY <2>4, <3>1, <4>1 DEF SendAdd, Open, SendOpen
          <5>2. Located(n, waiters')
            BY <2>3, <2>4, <4>1
          <5> QED
            BY <5>1, <5>2
        <4>2. CASE sendTask' = [sendTask EXCEPT ![msgOf(s)] = "refused"]
          BY <2>1, <2>4, <4>2
        <4> QED
          BY <3>1, <4>1, <4>2 DEF SendAdd, Enqueue
      <3>2. CASE SendCallback(s)
        <4>1. hand[s] \in RecvCall /\ got[hand[s]] = n /\ n # Nothing
          BY <2>4, <3>2 DEF SendCallback, Open, HandOK, msgOf, Nothing
        <4>2. <<n, hand[s]>> \in Paired
          BY <4>1 DEF Paired
        <4>3. Given(n)
          BY <4>2 DEF Given
        <4> QED
          BY <1>1, <4>3
      <3>3. CASE SendTryTake(s) \/ SendSetResult(s)
        <4>1. pc'[s] # "idle" /\ sendTask'[n] = "open" /\ n[1] = s /\ n = msgOf(s)'
          BY <2>1, <2>4, <3>3 DEF SendTryTake, SendSetResult, Open, SendOpen
        <4>2. InCall(n)'
          BY <4>1 DEF InCall, msgOf
        <4> QED
          BY <4>1, <4>2
      <3> QED
        BY <1>3, <3>1, <3>2, <3>3 DEF SenderStep
    <2>6. \A m \in Message : m # n => sendTask'[m] = sendTask[m] /\ (InCall(m)' <=> InCall(m))
      BY <2>2, <2>4
    <2>7. OpenSends'
      BY <1>1, <2>3, <2>5, <2>6 DEF SendInv, OpenSends
    <2>8. CompletedDelivered'
      <3>1. ASSUME NEW m \in Message, sendTask'[m] \in Ends \cup {"follows"} PROVE Given(m)'
        BY <1>1, <2>5, <2>6, <3>1 DEF SendInv, CompletedDelivered, Ends
      <3> QED
        BY <3>1 DEF CompletedDelivered
    <2> QED
      BY <2>7, <2>8 DEF SendInv
  <1> QED
    BY <1>2, <1>3

LEMMA RecvEnd ==
  ASSUME RInv, SendInv, NEW r \in Receivers, RecvStart(r) \/ ReceiverStep(r)
  PROVE  SendInv'
  <1> USE ThreadAssumption
      DEF ThreadAssumption, RInv, IInv, TypeInv, TypeOK, ThreadOK, TaskOK, ChannelOK, CallOK, Threads, closeVars
  <1>1. \A m : Given(m) => Given(m)'
    BY PairsStay DEF Next
  <1>2. \A m \in Message : InCall(m)' <=> InCall(m)
    <2>1. \A s \in Senders : pc'[s] = pc[s] /\ calls'[s] = calls[s]
      BY DEF RecvStart, ReceiverStep, RecvTryTake, RecvAdd, RecvDeliver, RecvReturn
    <2> QED
      BY <2>1 DEF InCall, msgOf, Message
  <1>3. CASE RecvTryTake(r) /\ waiters # <<>>
    <2>1. /\ UNCHANGED sendTask /\ waiters' = Tail(waiters)
          /\ Paired' = Paired \cup {<<Head(waiters), callOf(r)>>}
      BY <1>3, RecvPairs DEF RecvTryTake, Dequeue
    <2>2. PICK n : n = Head(waiters)
      OBVIOUS
    <2>3. Given(n)'
      <3>1. PICK c : c = callOf(r)
        OBVIOUS
      <3>2. <<n, c>> \in Paired'
        BY <2>1, <2>2, <3>1
      <3> QED
        BY <3>2, Zenon DEF Given
    <2>4. \A m : Located(m, waiters) => m = n \/ Located(m, waiters')
      <3>1. waiters \in Seq(Message) /\ waiters # <<>>
        BY <1>3
      <3> HIDE DEF RInv
      <3> QED
        BY <2>1, <2>2, <3>1, LocatedAtHead
    <2> QED
      BY <1>1, <1>2, <2>1, <2>3, <2>4 DEF SendInv, OpenSends, CompletedDelivered
  <1>4. CASE RecvDeliver(r)
    <2>1. UNCHANGED waiters /\ hand[r] \in Message /\ <<hand[r], callOf(r)>> \in Paired
      BY <1>4 DEF RecvDeliver, Open, HandOK, Paired
    <2>2. Given(hand[r])
      BY <2>1 DEF Given
    <2>3. \A m \in Message : m # hand[r] => sendTask'[m] = sendTask[m]
      BY <1>4 DEF RecvDeliver
    <2> QED
      <3>1. \A m \in Message : m # hand[r] => (sendTask'[m] = sendTask[m] /\ (Located(m, waiters') <=> Located(m, waiters)))
        BY <2>1, <2>3, Zenon
      <3>2. Given(hand[r]) => \A m \in Message : m = hand[r] => Given(m)
        OBVIOUS
      <3>3. \A m \in Message : m = hand[r] => Given(m)'
        BY <1>1, <2>2, <3>2
      <3>4. OpenSends'
        BY <1>1, <1>2, <3>1, <3>3 DEF SendInv, OpenSends
      <3>5. CompletedDelivered'
        BY <1>1, <3>1, <3>3 DEF SendInv, CompletedDelivered
      <3> QED
        BY <3>4, <3>5 DEF SendInv
  <1>5. CASE UNCHANGED <<waiters, sendTask>>
    <2>1. \A m \in Message : sendTask'[m] = sendTask[m] /\ (Located(m, waiters') <=> Located(m, waiters))
      BY <1>5, Zenon
    <2>2. OpenSends'
      BY <1>1, <1>2, <2>1 DEF SendInv, OpenSends
    <2>3. CompletedDelivered'
      BY <1>1, <2>1 DEF SendInv, CompletedDelivered
    <2> QED
      BY <2>2, <2>3 DEF SendInv
  <1> QED
    BY <1>3, <1>4, <1>5 DEF RecvStart, ReceiverStep, RecvTryTake, RecvAdd, RecvReturn

LEMMA OtherEnd ==
  ASSUME RInv, SendInv,
         \/ \E m \in Message : CallbackEnds(m)
         \/ \E c \in Closers : Invoke(c) \/ CloserStep(c)
         \/ UNCHANGED vars
  PROVE  SendInv'
  <1> USE ThreadAssumption
      DEF ThreadAssumption, RInv, IInv, TypeInv, TypeOK, ThreadOK, TaskOK, Threads, closeVars
  <1>1. \A m : Given(m) => Given(m)'
    BY PairsStay DEF Next
  <1>2. /\ UNCHANGED <<waiters, calls>>
        /\ \A s \in Senders : pc'[s] = pc[s]
    BY DEF CallbackEnds, Invoke, CloserStep, CompleteAdding, CloseDelay, CloseEmpty, CloseDrain, CloseEnd, vars
  <1>3. \A m \in Message : InCall(m)' <=> InCall(m)
    BY <1>2 DEF InCall, msgOf, Message
  <1>4. \A m \in Message : sendTask'[m] = sendTask[m] \/ (sendTask[m] = "follows" /\ sendTask'[m] \in Ends)
    BY DEF CallbackEnds, Invoke, CloserStep, CompleteAdding, CloseDelay, CloseEmpty, CloseDrain, CloseEnd, vars
  <1> QED
    BY <1>1, <1>2, <1>3, <1>4 DEF SendInv, OpenSends, CompletedDelivered, Ends

LEMMA SendInvInit == Init => SendInv
  BY DEF Init, SendInv, OpenSends, CompletedDelivered, Ends

LEMMA SendInvNext == RInv /\ SendInv /\ [Next]_vars => SendInv'
  BY SendEnd, RecvEnd, OtherEnd DEF Next

(* A refused message was not delivered and will not be; a send that has    *)
(* ended, or follows a callback's Task, has been delivered (SendAsyncImpl, *)
(* DeliverAsync.Deliver, TaskCompletionCallback.SetResult).                *)
THEOREM TaskTellsFate == Spec => []SendTellsFate
  <1>1. Spec => [](RInv /\ SendInv)
    BY RefinementInit, RefinementNext, SendInvInit, SendInvNext, PTL DEF Spec
  <1>2. RInv /\ SendInv => SendTellsFate
    BY DEF RInv, SendInv, SendTellsFate
  <1> QED
    BY <1>1, <1>2, PTL

-----------------------------------------------------------------------------
(***************************************************************************)
(* What a closed channel leaves behind                                     *)
(***************************************************************************)

(* A CloseOnce that has seen the queue empty has found it so for good.     *)
StaysEmpty ==
  \A c \in Closers :
    /\ pc[c] \in {"poll", "drain", "closed"} => addingDone
    /\ pc[c] \in {"drain", "closed"} => waiters = <<>>

(* A queue that is empty and complete stays so. *)
LEMMA EmptyStays ==
  ASSUME IInv, StaysEmpty, [Next]_vars
  PROVE  StaysEmpty'
  <1> USE ThreadAssumption
      DEF ThreadAssumption, IInv, TypeInv, TypeOK, ThreadOK, Threads, closeVars, StaysEmpty
  <1>1. ASSUME NEW s \in Senders, SendStart(s) \/ SenderStep(s) PROVE StaysEmpty'
    <2>1. (\A c \in Closers : pc'[c] = pc[c]) /\ UNCHANGED addingDone
      BY <1>1 DEF SendStart, SenderStep, SendTryTake, SendAdd, SendSetResult, SendCallback
    <2>2. addingDone => UNCHANGED waiters
      BY <1>1 DEF SendStart, SenderStep, SendTryTake, SendAdd, SendSetResult, SendCallback
    <2> QED
      BY <2>1, <2>2
  <1>2. ASSUME NEW r \in Receivers, RecvStart(r) \/ ReceiverStep(r) PROVE StaysEmpty'
    <2>1. (\A c \in Closers : pc'[c] = pc[c]) /\ UNCHANGED addingDone
      BY <1>2 DEF RecvStart, ReceiverStep, RecvTryTake, RecvAdd, RecvDeliver, RecvReturn
    <2>2. waiters = <<>> => UNCHANGED waiters
      BY <1>2 DEF RecvStart, ReceiverStep, RecvTryTake, RecvAdd, RecvDeliver, RecvReturn
    <2> QED
      BY <2>1, <2>2
  <1>3. ASSUME NEW c \in Closers, Invoke(c) \/ CloserStep(c) PROVE StaysEmpty'
    <2>1. UNCHANGED waiters /\ (addingDone => addingDone')
      BY <1>3 DEF Invoke, CloserStep, CompleteAdding, CloseDelay, CloseEmpty, CloseDrain, CloseEnd
    <2>2. \A d \in Closers : d # c => pc'[d] = pc[d]
      BY <1>3 DEF Invoke, CloserStep, CompleteAdding, CloseDelay, CloseEmpty, CloseDrain, CloseEnd
    <2>3. /\ pc'[c] \in {"poll", "drain", "closed"} => addingDone'
          /\ pc'[c] \in {"drain", "closed"} => waiters' = <<>>
      BY <1>3, <2>1 DEF Invoke, CloserStep, CompleteAdding, CloseDelay, CloseEmpty, CloseDrain, CloseEnd,
                        NoMessagesLeft
    <2> QED
      BY <2>1, <2>2, <2>3
  <1>4. ASSUME NEW m \in Message, CallbackEnds(m) PROVE StaysEmpty'
    BY <1>4 DEF CallbackEnds
  <1>5. CASE UNCHANGED vars
    BY <1>5 DEF vars
  <1> QED
    BY <1>1, <1>2, <1>3, <1>4, <1>5 DEF Next

(* Closing cancels no call that was given a message. *)
LEMMA PairedCalls == RInv => \A p \in Paired : recvTask[p[2]] # "cancelled"
  <1> SUFFICES ASSUME RInv, NEW p \in Paired PROVE recvTask[p[2]] # "cancelled"
    OBVIOUS
  <1> USE DEF RInv, Open, RecvOpen
  <1>1. CASE \E c \in RecvCall : got[c] # Nothing /\ p = <<got[c], c>>
    BY <1>1
  <1>2. CASE \E s \in Senders : pc[s] = "deliver" /\ p = <<msgOf(s), hand[s]>>
    BY <1>2
  <1>3. CASE \E r \in Receivers : pc[r] \in {"deliver", "return"} /\ p = <<hand[r], callOf(r)>>
    BY <1>3
  <1> QED
    BY <1>1, <1>2, <1>3, InPaired

(* When AfterClosed is complete no accepted message waits, and a send that *)
(* is not over is in its call, or its message was given to a receive call  *)
(* that Close did not cancel: what is left is up to that call's callback   *)
(* (CloseOnce, DeliverAsync), however many Closes run.                     *)
THEOREM ClosedIsEmpty == Spec => []ClosedEmpty
  <1>1. Init => StaysEmpty
    BY DEF Init, StaysEmpty, Threads
  <1>2. RInv /\ StaysEmpty /\ [Next]_vars => StaysEmpty'
    BY EmptyStays DEF RInv
  <1>3. Spec => [](RInv /\ SendInv /\ StaysEmpty)
    BY RefinementInit, RefinementNext, SendInvInit, SendInvNext, <1>1, <1>2, PTL DEF Spec
  <1>4. RInv /\ SendInv /\ StaysEmpty => ClosedEmpty
    <2> SUFFICES ASSUME RInv, SendInv, StaysEmpty, AfterClosed PROVE
          /\ waiters = <<>>
          /\ \A m \in Message : sendTask[m] \in {"open", "follows"} =>
               InCall(m) \/ \E p \in Paired : p[1] = m /\ recvTask[p[2]] # "cancelled"
      BY DEF ClosedEmpty, InCall
    <2>1. closeTask \in Closers /\ pc[closeTask] = "closed"
      BY DEF AfterClosed, RInv, IInv, TypeInv, TypeOK, ChannelOK
    <2>2. waiters = <<>>
      BY <2>1 DEF StaysEmpty
    <2>3. \A m : ~Located(m, waiters)
      BY <2>2 DEF Located
    <2>4. \A m \in Message : sendTask[m] \in {"open", "follows"} => InCall(m) \/ Given(m)
      BY <2>3 DEF SendInv, OpenSends, CompletedDelivered
    <2> QED
      BY <2>2, <2>4, PairedCalls DEF Given
  <1> QED
    BY <1>3, <1>4, PTL
=============================================================================
