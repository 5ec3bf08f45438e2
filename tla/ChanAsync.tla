----------------------------- MODULE ChanAsync -----------------------------
(***************************************************************************)
(* The local channel: ChanAsync<T> (Chan/LocalChan/ChanAsync.cs) on top of *)
(* ChanBase<T>, with the objects that complete its tasks: DeliverAsync (a  *)
(* `waiter': a message whose sender waits), TaskCompletionCallback (a      *)
(* `promise': a receive call without a message) and InvokeOnceEmbeddable   *)
(* (Close).                                                                *)
(*                                                                         *)
(* Threads call SendAsync, ReceiveAsync and Close.  A call is split where  *)
(* another thread can see the difference: at each lock acquisition, each   *)
(* blocking Add, and between the two tasks of one delivery.  A call        *)
(* returns a task, and its thread goes on to its next call without         *)
(* awaiting that task.  The task of a send is decided by the Task that the *)
(* receiver's callback returns, and that one ends when it likes, or never. *)
(*                                                                         *)
(* `closing' is a readonly field of a struct type (ChanBase.cs:11): its    *)
(* methods run on a copy of the struct, so Closed is FALSE for ever, the   *)
(* branches that ask for it (the cancelled task of SendAsync,              *)
(* ReceiveAsyncCancelled) never run, and every Close runs CloseOnce.       *)
(***************************************************************************)
EXTENDS Integers, Sequences, FiniteSets

CONSTANTS
  Senders,          \* threads that call SendAsync
  Receivers,        \* threads that call ReceiveAsync
  Closers,          \* threads that call Close, once each
  NoThread,         \* not a thread: the lock is free
  SendLimit,        \* bound of the model: SendAsync calls of one sender
  RecvLimit,        \* bound of the model: ReceiveAsync calls of one receiver
  WaiterCapacity,   \* sendTaskCountLimit, 500 by default
  PromiseCapacity,  \* receiveTaskCountLimit, 500 by default
  Outcomes          \* what a receiver's sendCallback may do: throw ("thrown"), or
                    \* return a Task that ends ("ok", "failed", "cancelled") or never ends

Threads == Senders \cup Receivers \cup Closers

ASSUME ThreadAssumption ==
  /\ NoThread \notin Threads
  /\ Senders \cap Receivers = {}
  /\ Senders \cap Closers = {}
  /\ Receivers \cap Closers = {}

ASSUME LimitAssumption ==
  /\ SendLimit \in Nat
  /\ RecvLimit \in Nat
  /\ WaiterCapacity \in Nat \ {0}
  /\ PromiseCapacity \in Nat \ {0}

Ends == {"ok", "failed", "cancelled"}   \* how a Task ends

ASSUME OutcomeAssumption == Outcomes \subseteq Ends \cup {"thrown"}

Message == Senders \X (1..SendLimit)      \* the n-th message of a sender
RecvCall == Receivers \X (1..RecvLimit)   \* the n-th receive call of a receiver
Nothing == <<NoThread, 0>>

VARIABLES
  addingDone,  \* waiters.IsAddingCompleted
  lock,        \* owner of lock (waiters)
  waiters,     \* BlockingCollection of DeliverAsync: messages
  promises,    \* BlockingCollection of TaskCompletionCallback: receive calls
  pc,          \* where each thread is in its call
  calls,       \* calls begun by each sender and receiver
  hand,        \* what a thread took out of a queue and has not delivered yet
  sendTask,    \* the task of each SendAsync: "open" until a callback or the channel
               \* decides; "follows" the Task of the callback; "refused" (a
               \* cancelled task) by the channel
  recvTask,    \* the task of each ReceiveAsync
  got,         \* the message each receive call was given (its callback's argument)
  closeTask    \* the thread whose CloseOnce task was published, see Invoke

vars == <<addingDone, lock, waiters, promises, pc, calls, hand,
          sendTask, recvTask, got, closeTask>>

closeVars == <<addingDone, closeTask>>

(***************************************************************************)
(* AfterClosed(): the task of the first CloseOnce that returned one.       *)
(***************************************************************************)
AfterClosed == closeTask # NoThread /\ pc[closeTask] = "closed"

(* Bugs that the checks must notice are operators named Bug...: each would *)
(* replace the definition that follows it.                                 *)
BugNextMessage(s) == <<s, calls[s] + 1>>
msgOf(s) == <<s, calls[s]>>    \* the argument of the call s is in
callOf(r) == <<r, calls[r]>>   \* the call r is in

(* lock (waiters) can be entered; no call enters it twice. *)
BugNoLock == TRUE
LockFree == lock = NoThread
BugUnlockUnlessThrown == lock' = IF addingDone THEN lock ELSE NoThread
Unlock == lock' = NoThread

(* BlockingCollection.Add and TryTake: a queue. *)
BugPush(queue, x) == <<x>> \o queue
Enqueue(queue, x) == Append(queue, x)
BugPeek(queue) == queue
Dequeue(queue) == Tail(queue)

BugNothingToWaitFor == TRUE
NoMessagesLeft == waiters = <<>>

Init ==
  /\ addingDone = FALSE
  /\ lock = NoThread
  /\ waiters = <<>>
  /\ promises = <<>>
  /\ pc = [t \in Threads |-> "idle"]
  /\ calls = [t \in Senders \cup Receivers |-> 0]
  /\ hand = [t \in Senders \cup Receivers |-> Nothing]
  /\ sendTask = [m \in Message |-> "none"]
  /\ recvTask = [c \in RecvCall |-> "none"]
  /\ got = [c \in RecvCall |-> Nothing]
  /\ closeTask = NoThread

-----------------------------------------------------------------------------
(***************************************************************************)
(* SendAsync                                                               *)
(***************************************************************************)

(* ChanBase.SendAsync. *)
SendStart(s) ==
  /\ pc[s] = "idle"
  /\ calls[s] < SendLimit
  /\ calls' = [calls EXCEPT ![s] = @ + 1]
  /\ sendTask' = [sendTask EXCEPT ![<<s, calls[s] + 1>>] = "open"]
  /\ pc' = [pc EXCEPT ![s] = "lock"]
  /\ UNCHANGED <<lock, waiters, promises, hand, recvTask, got, closeVars>>

(* lock (waiters), promises.TryTake: a promise is delivered outside of the *)
(* lock; without one the lock is kept for the Add.                         *)
SendTryTake(s) ==
  /\ pc[s] = "lock"
  /\ LockFree
  /\ \/ /\ promises # <<>>
        /\ hand' = [hand EXCEPT ![s] = Head(promises)]
        /\ promises' = Dequeue(promises)
        /\ pc' = [pc EXCEPT ![s] = "deliver"]
        /\ UNCHANGED lock
     \/ /\ promises = <<>>
        /\ lock' = s
        /\ pc' = [pc EXCEPT ![s] = "add"]
        /\ UNCHANGED <<hand, promises>>
  /\ UNCHANGED <<waiters, calls, sendTask, recvTask, got, closeVars>>

BugAddAfterCompletion(s) ==
  /\ pc[s] = "add"
  /\ waiters' = Enqueue(waiters, msgOf(s))
  /\ sendTask' = IF addingDone THEN [sendTask EXCEPT ![msgOf(s)] = "refused"] ELSE sendTask
  /\ Unlock
  /\ pc' = [pc EXCEPT ![s] = "idle"]
  /\ UNCHANGED <<promises, calls, hand, recvTask, got, closeVars>>

(* waiters.Add: blocks, with the lock held, while the collection is full.  *)
(* After CompleteAdding it throws, a blocked one included, and the send    *)
(* returns the cancelled task.                                             *)
SendAdd(s) ==
  /\ pc[s] = "add"
  /\ \/ /\ addingDone
        /\ sendTask' = [sendTask EXCEPT ![msgOf(s)] = "refused"]
        /\ UNCHANGED waiters
     \/ /\ ~addingDone
        /\ Len(waiters) < WaiterCapacity
        /\ waiters' = Enqueue(waiters, msgOf(s))
        /\ UNCHANGED sendTask
  /\ Unlock
  /\ pc' = [pc EXCEPT ![s] = "idle"]
  /\ UNCHANGED <<promises, calls, hand, recvTask, got, closeVars>>

BugNoCallback(s) ==
  /\ pc[s] = "deliver"
  /\ recvTask' = [recvTask EXCEPT ![hand[s]] = "ok"]
  /\ got' = [got EXCEPT ![hand[s]] = msgOf(s)]
  /\ hand' = [hand EXCEPT ![s] = Nothing]
  /\ pc' = [pc EXCEPT ![s] = "idle"]
  /\ UNCHANGED <<lock, waiters, promises, calls, sendTask, closeVars>>

(* TaskCompletionCallback.SetResult: the receive task first ... *)
SendSetResult(s) ==
  /\ pc[s] = "deliver"
  /\ recvTask' = [recvTask EXCEPT ![hand[s]] = "ok"]
  /\ got' = [got EXCEPT ![hand[s]] = msgOf(s)]
  /\ pc' = [pc EXCEPT ![s] = "callback"]
  /\ UNCHANGED <<lock, waiters, promises, calls, hand, sendTask, closeVars>>

(* ... then the receiver's callback, whose Task SendAsync returns; what it *)
(* throws, SendAsync throws.                                               *)
SendCallback(s) ==
  /\ pc[s] = "callback"
  /\ \/ sendTask' = [sendTask EXCEPT ![msgOf(s)] = "follows"]
     \/ /\ "thrown" \in Outcomes
        /\ sendTask' = [sendTask EXCEPT ![msgOf(s)] = "failed"]
  /\ hand' = [hand EXCEPT ![s] = Nothing]
  /\ pc' = [pc EXCEPT ![s] = "idle"]
  /\ UNCHANGED <<lock, waiters, promises, calls, recvTask, got, closeVars>>

-----------------------------------------------------------------------------
(***************************************************************************)
(* ReceiveAsync                                                            *)
(***************************************************************************)

(* ChanBase.ReceiveAsync. *)
RecvStart(r) ==
  /\ pc[r] = "idle"
  /\ calls[r] < RecvLimit
  /\ calls' = [calls EXCEPT ![r] = @ + 1]
  /\ recvTask' = [recvTask EXCEPT ![<<r, calls[r] + 1>>] = "open"]
  /\ pc' = [pc EXCEPT ![r] = "lock"]
  /\ UNCHANGED <<lock, waiters, promises, hand, sendTask, got, closeVars>>

(* lock (waiters), waiters.TryTake: a waiter is delivered outside of the   *)
(* lock; without one the lock is kept for the Add of a promise.            *)
RecvTryTake(r) ==
  /\ pc[r] = "lock"
  /\ LockFree
  /\ \/ /\ waiters # <<>>
        /\ hand' = [hand EXCEPT ![r] = Head(waiters)]
        /\ waiters' = Dequeue(waiters)
        /\ pc' = [pc EXCEPT ![r] = "deliver"]
        /\ UNCHANGED lock
     \/ /\ waiters = <<>>
        /\ lock' = r
        /\ pc' = [pc EXCEPT ![r] = "add"]
        /\ UNCHANGED <<hand, waiters>>
  /\ UNCHANGED <<promises, calls, sendTask, recvTask, got, closeVars>>

(* promises.Add: blocks, with the lock held, while the collection is full. *)
(* Nobody completes adding of promises.                                    *)
RecvAdd(r) ==
  /\ pc[r] = "add"
  /\ Len(promises) < PromiseCapacity
  /\ promises' = Enqueue(promises, callOf(r))
  /\ Unlock
  /\ pc' = [pc EXCEPT ![r] = "idle"]
  /\ UNCHANGED <<waiters, calls, hand, sendTask, recvTask, got, closeVars>>

(* DeliverAsync.Deliver: the callback first; the task of the send follows  *)
(* the Task it returns (Flatten).  When it throws, ReceiveAsync throws:    *)
(* the message is in neither queue any more and the task of its sender is  *)
(* never completed.                                                        *)
RecvDeliver(r) ==
  /\ pc[r] = "deliver"
  /\ \/ /\ sendTask' = [sendTask EXCEPT ![hand[r]] = "follows"]
        /\ pc' = [pc EXCEPT ![r] = "return"]
        /\ UNCHANGED <<recvTask, got, hand>>
     \/ /\ "thrown" \in Outcomes
        /\ recvTask' = [recvTask EXCEPT ![callOf(r)] = "failed"]
        /\ got' = [got EXCEPT ![callOf(r)] = hand[r]]
        /\ hand' = [hand EXCEPT ![r] = Nothing]
        /\ pc' = [pc EXCEPT ![r] = "idle"]
        /\ UNCHANGED sendTask
  /\ UNCHANGED <<lock, waiters, promises, calls, closeVars>>

(* Task.FromResult: the receive call returns the message. *)
RecvReturn(r) ==
  /\ pc[r] = "return"
  /\ recvTask' = [recvTask EXCEPT ![callOf(r)] = "ok"]
  /\ got' = [got EXCEPT ![callOf(r)] = hand[r]]
  /\ hand' = [hand EXCEPT ![r] = Nothing]
  /\ pc' = [pc EXCEPT ![r] = "idle"]
  /\ UNCHANGED <<lock, waiters, promises, calls, sendTask, closeVars>>

-----------------------------------------------------------------------------
(***************************************************************************)
(* The callback's Task                                                     *)
(***************************************************************************)

(* It ends after the callback returned it, before or after the calls on    *)
(* either side have returned, and takes the send's task with it.           *)
CallbackEnds(m) ==
  /\ sendTask[m] = "follows"
  /\ \E end \in Outcomes \cap Ends : sendTask' = [sendTask EXCEPT ![m] = end]
  /\ UNCHANGED <<lock, waiters, promises, pc, calls, hand, recvTask, got, closeVars>>

-----------------------------------------------------------------------------
(***************************************************************************)
(* Close                                                                   *)
(***************************************************************************)

(* TrySetResult(fn()): the first task that CloseOnce returns is the task   *)
(* of every Close and AfterClosed.                                         *)
Publish(c) == closeTask' = IF closeTask = NoThread THEN c ELSE closeTask

(* InvokeOnceEmbeddable.Invoke: the Exchange sets isClosed of a copy, so   *)
(* that each Close finds the field unset and calls CloseOnce.              *)
Invoke(c) ==
  /\ pc[c] = "idle"
  /\ pc' = [pc EXCEPT ![c] = "complete"]
  /\ UNCHANGED <<lock, waiters, promises, calls, hand, sendTask, recvTask, got,
                 closeVars>>

(* CloseOnce: waiters.CompleteAdding ... *)
CompleteAdding(c) ==
  /\ pc[c] = "complete"
  /\ addingDone' = TRUE
  /\ pc' = [pc EXCEPT ![c] = "poll"]
  /\ UNCHANGED <<lock, waiters, promises, calls, hand, sendTask,
                 recvTask, got, closeTask>>

(* ... poll until the waiters are gone: the first Task.Delay returns the   *)
(* task of CloseOnce to Invoke ...                                         *)
CloseDelay(c) ==
  /\ pc[c] = "poll"
  /\ ~NoMessagesLeft
  /\ Publish(c)
  /\ UNCHANGED <<addingDone, lock, waiters, promises, pc, calls, hand,
                 sendTask, recvTask, got>>

CloseEmpty(c) ==
  /\ pc[c] = "poll"
  /\ NoMessagesLeft
  /\ pc' = [pc EXCEPT ![c] = "drain"]
  /\ UNCHANGED <<lock, waiters, promises, calls, hand, sendTask, recvTask, got,
                 closeVars>>

(* ... cancel the promises one by one, without the lock ... *)
CloseDrain(c) ==
  /\ pc[c] = "drain"
  /\ promises # <<>>
  /\ recvTask' = [recvTask EXCEPT ![Head(promises)] = "cancelled"]
  /\ promises' = Dequeue(promises)
  /\ UNCHANGED <<lock, waiters, pc, calls, hand, sendTask, got, closeVars>>

(* ... until there is none, and the task of CloseOnce is complete. *)
CloseEnd(c) ==
  /\ pc[c] = "drain"
  /\ promises = <<>>
  /\ pc' = [pc EXCEPT ![c] = "closed"]
  /\ Publish(c)
  /\ UNCHANGED <<addingDone, lock, waiters, promises, calls, hand,
                 sendTask, recvTask, got>>

-----------------------------------------------------------------------------
(* The steps of a call that has begun: they run without the caller. *)
SenderStep(s) == SendTryTake(s) \/ SendAdd(s) \/ SendSetResult(s) \/ SendCallback(s)
ReceiverStep(r) == RecvTryTake(r) \/ RecvAdd(r) \/ RecvDeliver(r) \/ RecvReturn(r)
CloserStep(c) == CompleteAdding(c) \/ CloseDelay(c) \/ CloseEmpty(c)
                 \/ CloseDrain(c) \/ CloseEnd(c)

Next ==
  \/ \E s \in Senders : SendStart(s) \/ SenderStep(s)
  \/ \E r \in Receivers : RecvStart(r) \/ ReceiverStep(r)
  \/ \E m \in Message : CallbackEnds(m)
  \/ \E c \in Closers : Invoke(c) \/ CloserStep(c)

Spec == Init /\ [][Next]_vars

(* A thread inside a call runs on; when it calls again is its own affair,  *)
(* and a callback's Task need not end.                                     *)
Fairness ==
  /\ \A s \in Senders : WF_vars(SenderStep(s))
  /\ \A r \in Receivers : WF_vars(ReceiverStep(r))
  /\ \A c \in Closers : WF_vars(CloserStep(c))

FairSpec == Spec /\ Fairness
=============================================================================
