# Verification of cs-chan

TLA+ models of the two programs in this repository that have protocols of
their own: the channel library in `src/Chan` (C#), what a channel, local or
over TCP, promises to the threads that send, receive and close; and the
presentation in `src/presentation` (JavaScript), how reveal.js keeps the parts
of a deck consistent under any order of events, and how the windows of a
speaker follow each other.  TLC checks the models on small instances; TLAPS
proves the safety of both kinds of channel, of the deck and of the windows for
every instance.

## 1. The system

`src/Chan` is a library of typed asynchronous channels; `src/Chat` is a chat
program built on it; `src/presentation` is a talk about both, with the
reveal.js that shows it.  A channel is an object with `SendAsync`, `ReceiveAsync`
and `Close`, all of which return tasks.  The task of a send follows the Task of the
receiver's callback once the message has been delivered (local), or completes when
the message has been written (network).

| component | state it keeps | operations | interacts through |
|---|---|---|---|
| Local channel (`LocalChan/ChanAsync.cs`, `ChanBase.cs`, `DeliverAsync.cs`, `Helpers/TaskCompletionCallback.cs`) | queue of waiters (messages with a waiting sender), queue of promises (receive calls without a message), both bounded; a lock; the closing flag, which nothing sets | SendAsync, ReceiveAsync (with a callback), Close, AfterClosed | callbacks and task continuations, run inline by whichever thread delivers |
| `Helpers/InvokeOnceEmbeddable.cs` | flag and task of the one close | Invoke, Invoked, AfterInvoked | embedded in channels, factories, net-chans, servers |
| Net-chan connection (`NetChan/NetChanBase.cs`, `…SenderBase.cs`, `…ReceiverBase.cs`, `…Client.cs`, `…Server.cs` of both) | a local channel (`world`), the cancellation token, pongReceived, buffers | Start (handshake, receive loop, PipeWorldSend, PingLoop), SendAsync / ReceiveAsync, Close | packets OPEN, MSG, ACK, PING, PONG, CLOSE, ERR on a TCP stream |
| Net-chan server (`NetChan/NetChanServer.cs`) | sets of live connections, two TaskCollectors | StartSenderCounterpart, StartReceiverCounterpart, Close | pipes between connections and a local factory |
| Client cache (`NetChan/NetChanClientCache*.cs`) | connected factories, connecting tasks | GetAsync, Forget, Clear, All | thread pool, WCF request, AfterClosed continuation |
| ChanStore (`ChanStore.cs`) | registered channels, caches, bindings, closures that free | Create, Prepare, Get, Free, CloseAll, Request | servers, caches, factories |
| Factories (`ChanFactory.cs`) | the wrapped pair; for broadcast the set of receivers | GetReceiver, GetSender, Free, Close | ChanEvent, AfterClosed continuations |
| Pipes and events (`Chan.cs`, `ChanEvent.cs`, `ChanTee.cs`, `ChanCombiner.cs`) | a listening loop | Pipe, Stop, Close | callback of ReceiveAsync |
| Task collection (`Helpers/TaskCollector.cs`, `ExceptionDrain.cs`) | queue of tasks, chained exceptions | Add, Close | a local channel of tasks |
| Chat (`Chat/ChatClient.cs`, `Connector.cs`, `Dispatch.cs`) | connection state, the five channels of a connection, actions to run once connected | Connect, Disconnect, Send, commands | ChanStore, ChanEvent, GUI thread |
| Presentation deck (`presentation/js/reveal.js`) | indices and the current slide, classes of every section, visible fragments, overview, pause, overlay, automatic sliding and its timeout, listeners; in the page: address, class names of the root, media, iframes | initialize, configure, sync, slide, fragments, navigate…, toggle…, getState, setState; handlers of keys, clicks, touches, the wheel, hashchange | events of the browser, timeouts, events dispatched to plugins, posted messages |
| Speaker notes (`plugin/notes/notes.js`, `notes.html`) | connect interval; connected, currentState, the debounce; two decks in iframes | connect, post; handleConnectMessage, handleStateMessage, reveal events, keys | postMessage between four windows |
| Multiplex (`plugin/multiplex/*.js`) | none in the server | notify; broadcast; slide | socket.io |
| Not protocol | – | tracing, counters, serialization, configuration, GUI, trial programs, slides; plugins that rewrite the page or are one more source of input | – |

What is hard, and what makes each part correct:

* **Local channel.** Sends, receives and closes run on any threads.  Both
  queues are changed under one lock in the two `…Impl` methods and without it
  in `ReceiveAsyncCancelled` and `CloseOnce`; two tasks are decided by one delivery,
  that of the send by a foreign callback, which runs between them and whose own Task
  may end late, badly or never.  Correct: each message goes
  to one receive call, in order; a message never waits beside a receive call;
  Close lets accepted messages out, cancels the rest and ends.
* **Connection.** Five activities share a stream and a token.  Correct: what
  the consumer gets is an initial part of what was written, CLOSE ends a
  complete flow, the send tasks are true, a healthy connection is not given up.
* **Server, cache, store.** Registration races with close; connections come up
  and die on their own.  Correct: what is registered is closed; a dead
  connection is not handed out; nobody waits for a task that needs his lock.
* **Factories, pipes, events.** Messages are taken from one channel before
  another accepts them.  Correct: nothing taken is lost, a close on either side
  reaches the other.
* **Chat.** Continuations of an old connection meet a new one.
* **Deck.** One thread, but some twenty sources of events, three of them timers
  or loads whose time has passed when they come, over state that is written
  twice: in variables and in the classes of the page, which later calls read
  back.  Correct: whatever the order, position, classes, fragments, stacks,
  media, buttons, address and the timeout agree.
* **Speaker and multiplex.** Copies of the deck follow each other by messages
  of their states, and their own events look like a user's.  Correct: the
  messages come to an end, with all windows in the same state, and the
  presentation moves only when somebody moves it.

`PROJECT.json` lists every hazard at its line and the properties that cover it.

## 2. The modules

    FifoChan          what a channel promises: messages and receive calls are
                      paired one to one, oldest first
       ^ implemented by
    ChanAsync         the local channel, one action per atomic step of the code
    ChanAsyncProps    its properties and the mapping to FifoChan
    ChanAsyncProofs   theorems (TLAPS): types, the lock, Close, and that ChanAsync
                      implements FifoChan
    ChanAsyncOrder    theorems: the order of messages, what Close leaves behind
    MCChanAsync       instances for TLC
    NetChan           one connection: NetChanSender, NetChanReceiver, stream
    NetChanProps      its properties
    NetChanProofs     theorems: types, send tasks, a closed sender, PING
    NetChanOrder      theorems: what the consumer gets
    MCNetChan         instances for TLC

    Slides            sections, fragments, classes, display and media of a deck
       ^ EXTENDS
    Reveal            the functions and handlers of reveal.js
       ^ EXTENDS
    Deck              a page: loading, and the handlers in any order
    DeckTerms         the terms its properties are stated in
    DeckProps         its properties
    RevealProofs      lemmas (TLAPS): what the functions do to the parts of a deck
    HandlerProofs     lemmas: what the handlers do to a deck, and what their events tell
    DeckProofs        theorems: every handler keeps the parts in agreement
    MCDeck            instance for TLC
    Speaker           Reveal five times: presentation, current and upcoming slide,
                      audience, with notes window and server between them
    SpeakerProps      its properties
    SpeakerProofs     theorems: types, the notes window is set up once, the three
                      copies of the presentation follow it
    MCSpeaker         instances for TLC

### ChanAsync

A call is a sequence of actions of one thread: `SendStart`, `SendTryTake` (the
lock is entered; a promise is taken and the lock left, or kept for the Add),
`SendAdd` (blocks while the queue is full; throws after `CompleteAdding`),
`SendSetResult` and `SendCallback` (the two tasks a delivery decides); likewise for
receive; `Invoke`, `CompleteAdding`, `CloseDelay`/`CloseEmpty` (the polling loop),
`CloseDrain`, `CloseEnd` for Close.  `pc` says where a thread is, `hand` what it has
taken out of a queue.  Messages and calls are pairs (thread, number), so each is
unique.

*The callback.* `ReceiveAsync(sendCallback)` takes a `Func<T, Task>`, and the Task it
returns is flattened into the task of the send (`DeliverAsync.cs:16,20`,
`TaskCompletionCallback.cs:14`).  `Outcomes` says what callbacks may do: throw, or
return a Task that ends well, in an exception or cancelled.  When it has returned
the send is "follows", and `CallbackEnds` ends it at any later time, without any
fairness: a Task of a callback may never end (`Chan.Pipe` waits in it for another
channel).  A callback that throws leaves the task of a message taken from the
waiters "open" for ever.  A message that the Add has thrown back is "refused": its
task is cancelled, which a sender cannot tell from a callback whose Task was
cancelled after the message was received, though `IChanBase.cs:18` gives "Canceled"
one meaning, that the channel is closed.  The model keeps the two apart, and
`SendTellsFate` says what each means.

*The closing flag.* `closing` is a struct in a `readonly` field
(`ChanBase.cs:11`).  C# runs a method of such a field on a copy, so
`Exchange(ref isClosed, 1)` sets the flag of the copy and `Closed` stays false;
the `TaskCompletionSource` inside is a reference and is shared, so every Close
runs `CloseOnce` and all return the task of the first that returned one.  The
model has the code as it is built and no flag: the branches that ask for it (the
cancelled task of `ChanBase.SendAsync`, `ReceiveAsyncCancelled`) are never
taken.  `chan_late` shows what this does to "any subsequent call to receive or send
is bound to be cancelled", and `LateSendDecided` what is left of it.

### FifoChan

Two queues, a set of pairs, two sets of refused messages and cancelled calls,
and six decisions.  `ChanAsync` refines it with its queues and with `Paired`,
the pairs in somebody's hand or already in a result: pairing happens when an
entry is taken from a queue.

### NetChan

Both ends of one connection and the two directions of its stream.  `loop[x]`
is where Start and ReceiveLoop of a side are, `token[x]` its cancellation
token, `pipe` PipeWorldSend, `start` StartSender, `closes` the calls of
`world.Close` on the sender.  Either side may be the client (that connects and
pings).  A write with a cancelled token is cancelled; a read that has begun is
not, as `NetworkStream.ReadAsync` looks at its token only when it starts.
SerDes may reject any message on either side.  The stream may break (`Breaks`
says how): once `closed`, reads end and writes fail; while `silent`, writes are
lost without an error and it may become closed later; what was under way is
lost or not.  The worlds are local channels as built: the queue
of the sender's world is FIFO, and a receive on it after it was closed waits.

The receive loop hands a message to its world and waits, first for the consumer to
take it (`deliver`), then for the Task of the consumer's callback (`callback`,
`CallbackEnds`).  Whatever goes wrong, a SerDes failure or a callback whose Task
fails after the consumer has got the message, one catch turns into an ERR to the
sender and an exception for the consumer (`SendFault`), and when that has been taken
too the exception ends the loop: `failed`, or, if it is a TaskCanceledException,
which `ReceiveLoop` takes for its own cancellation, `leaving`, since `StartReceiver`
goes on to its Close and sends CLOSE (`StartReceiverClose`).  So a callback that is
cancelled closes the connection from the receiving end.  `closed` is a loop that has
read CLOSE.

A packet is one step, since a packet is one `WriteAsync` and is read as a
whole before anything is done about it.  A PING is sent, or given up, only
when the stream is quiet (`Quiet`): the delay is a minute by default, and
whatever the loops can take they have taken by then.  The delay can be configured
down to 50 ms (`NetChanBase.cs:14`), where this is an assumption about the speed of
the program.  A loop that waits for its consumer is quiet too, so that a connection
given up because of a slow consumer is in the model; `PingLoopIsFair` excuses it.

### Slides, Reveal, Deck

The state of a deck is one record `d`: the variables of the closure (`indexh`,
`indexv`, `cur` for currentSlide, `overview`, `paused`, `autoSlide`, …) and what
the code writes into the page and reads back (`cls`, `visible`, `fidx`, `prevV`
for data-previous-indexv, `root`, `hash`, media).  JavaScript runs a handler to
its end, so each function is an operator from deck to deck, composed in the
order of the calls, and each handler is one action of `Deck`.  What happens
later is a flag that an action consumes: `timer` (autoSlideTimeout), `hashEvent`
(a hashchange on its way), `resetStacks` (the timeout set on the home slide),
`iframe[s] = "loading"`.  The six `navigate…` functions are data: a `Way`
is which fragment to try, whether in the overview too, whether there is a route,
and to which slide; `Go` tries the fragment (`Follow` the slide) and `Navigate`
is the call by name.  The keys, buttons and gestures choose a name.

`Undef` and `None` are undefined and null; comparisons with undefined are false
where the code has them (`UpdateBackground` before the first slide).  `Undef` is
-2, since -1 is an index the code computes (left of the first slide).
`NavigateFragment` without an index renumbers the visible fragments alone, as
the code does, before it takes the highest.  `SlideEnd` is the `slide(
Number.MAX_VALUE )` of the End key, whose remainder in a deck that loops is
computed from 2^1024 - 2^971.

`events` collects what a handler dispatches, with the state of the deck at that
moment, since listeners run in the middle of the handler: that is what the
plugins of `Speaker` post.  In `Deck` alone nobody listens and it is emptied.

`scripts` is `load`: the scripts that must be there first, then the
asynchronous ones, which count down the same counter.

### Speaker

`presenter`, `current`, `upcoming` and `audience` are decks; `plugin` is notes.js
(its interval, whether it listens) or the master of the multiplex; `notes` is
the script of notes.html, with `recent` and `pending` for the two variables of
`debounce`; `mail` holds the messages on each way, in order.  A message to a
window that has not loaded is lost.  What a plugin makes of a handler is `Post` or
`Notify` of the events that it hears (`Heard`): notes.js listens to `Watched`,
master.js to `Followed`.  notes.html matches the names of events by a regular
expression that is not anchored, so that `autoslidepaused` and `autoslideresumed`, when an
iframe tells of them, pass for `paused` and `resumed` (`Forwarded`).

`Prompt` says whether messages between windows take less than the 200 ms of
`debounce`: `DebounceTimeout` then waits until everything is delivered.  TLC checks
`speaker` with `Prompt` TRUE, without which two windows can send each other's
states back and forth without end (the states are unbounded, and `WindowsAgree` is
about messages that are prompt); `speaker_echo` runs without it, and the
theorems hold either way.

## 3. The runs

| run | question | bounds | states |
|---|---|---|---|
| `chan_safety` | Is anything lost, duplicated, reordered or left waiting beside its match?  Is every step one of FifoChan's? | 2 senders, 2 receivers with 2 calls each, 1 close, queues of 2, callbacks that throw or whose Tasks end well, cancelled or never | 550 000 |
| `chan_live` | Do calls return, does a delivery decide its send, do Closes end, does a late send not wait? | 2 senders with 1 call, 1 receiver with 2, 2 closers, callbacks that do anything | 23 000 |
| `chan_late` | As built: "any subsequent call … is bound to be cancelled" | 1 of each | violated |
| `chan_pending` | "Returned task is cancelled if the channel is closed" for a receive racing Close | 1 of each | violated |
| `chan_full` | "if any waiter: deliver" with a full queue | queue of 1 | violated |
| `net_safety` | Order, completeness, truth of the send tasks, a drained close, PING | 2 messages, PINGs, breaks | 4 400 000 |
| `net_live` | Does a written message arrive, does the end of a stream end the loops? | 1 message, no PINGs, breaks | 200 000 |
| `net_close` | "it will be called once PipeWorlSend completes: after read all from world" (CLOSE) | 1 message, no breaks | violated |
| `net_fail` | "exception happened: all senders fail" | 2 messages, no breaks | violated |
| `deck` | Do position, classes, fragments, stacks, media, buttons, address and timeout agree, whatever the order of events? | 4 slides, 5 configurations | 53 000 |
| `speaker` | Do the messages end with all windows on the same state, the preview a step ahead, the audience on the slide?  Is each copy right whenever nothing is on its way? | 3 slides, 2 keys in the presentation, 1 in the notes window | 114 000 |
| `speaker_echo` | "Store the most recently set state to avoid circular loops": does the presentation move only when somebody moves it? | the same, no key in the notes window | violated |

*Why the bounds are enough.* In ChanAsync every race is between two calls and
at most one Close; two senders and two receivers with two calls each give each
race, a queue longer than one, and a call after it.  In `chan_live` the receiver can
make as many calls as there are messages: with fewer Close would wait for ever, as
it should.  In NetChan the receiver
handles one message at a time, so two messages show every overlap (one being
delivered, one under way or in the world).  PINGs are not bounded in number:
one is sent only after the previous one was answered, so few are under way.
`Pinging = FALSE` is a run shorter than the ping period.  The owner of the receiver
may call Close again and again; `ReceiverClose` bounds this to one CLOSE under way
and none after the sender has read it.
`SYMMETRY` permutes the senders and the receivers in `chan_safety` and the messages in
`net_safety`, whose properties name none.
Deadlock is not checked: a system whose calls are all made may stop.

The deck has a plain slide with a background video, a stack whose first slide
has two groups of fragments (an index that leaves a gap, one without) and whose
second has an id and a video, and a last slide with a fragment and an iframe:
every kind of section beside every other, and a way into and out of the stack
on both sides.  The configurations each turn on what the others do not: `Plain`
(keys, history, overview, progress, an address beyond the end), `Talk` (keys,
automatic sliding that can be stopped, right to left, pause), `Kiosk` (automatic
sliding that cannot be stopped, loop, wheel, controls, addresses with an id that exists
and one that does not), `Tablet` (touch, overview, controls, fragments switched
off), `Handout` (keys, overlays, fragments switched off); Kiosk is also
reconfigured to Plain while it runs, and Plain to Handout.  The keys and gestures are all there; nothing bounds how
often they are used.  A key more in either window of `Speaker` repeats what two
moves and one remote move show: one in the debounce interval of the other.

*Fairness.* A thread inside a call runs on (`Fairness` of ChanAsync), and code
that awaits something goes on when it is there (`Fairness` of NetChan); that is
what the scheduler of the thread pool gives.  Weak fairness suffices: entering
the lock is fair enough because each holder leaves it in one more step and the
number of calls is bounded.  Nobody is obliged to call (`CloseCompletes` is about
receivers that do, and says so), and no callback's Task has to end.  `FairSpec` of NetChan
also has a consumer that keeps receiving and whose callbacks end, as `ChanEvent` and `Pipe` do, since
the receiver hands over one message at a time.  The PING loop is not fair:
nothing checked depends on it.  `Deck` states none: that a deck that
plays gets to its end is the invariant `AutoPlayAdvances` (the timeout would get
it further, in every state in which it is set) with `AutoSlideIsCued` (until the end one is set).  `Speaker` is
weakly fair to windows that load, timers, and windows that handle their
messages, never to the speaker, nor to the opening of the notes window.  Where a
deck runs a handler the fairness is written as "no message, or a step again and
again", which is the same since a step always takes the message, and which TLC
evaluates without running the handler.

### What the violated runs show

* `chan_late`: a receive and a send made after Close has completed meet and
  deliver.  Every channel, factory and server has the same field.
* `chan_pending`: the test of `Closed` and the Add of the promise are not
  atomic with respect to the drain in CloseOnce.  A flag that is set before
  CloseOnce runs would leave the window open, too.
* `chan_full`: a send that blocks on the full queue does so inside the lock
  that a receive needs; only Close frees it.
* `net_close`: `world.Close()` completes when the world is empty, while the
  pipe is still writing the last message.  The token is then cancelled, and the
  pipe, back at its closed world, waits, or has its CLOSE cancelled.
* `net_fail`: `Task.WhenAny` does not throw, so `CancelWorld` is never called.
* `speaker_echo`: the notes window forwards an event of the current slide unless
  its state is the one it was last given, and before the first it was given
  none.  The iframe opens at the slide without its fragments and says so; the
  presentation takes that over and hides the fragments it shows.  The same comes
  back later when two changes fall into one debounce interval, because setState
  dispatches slidechanged before it toggles pause or overview.  `WindowsAgree`
  holds nevertheless: the windows agree in the end, on that state.

## 4. The proofs

`ChanAsyncProofs` proves, for any number of threads and calls, any capacities and
whatever callbacks do:

* `TypeCorrect`: `Spec => []TypeOK`.  TypeOK is made inductive by `InsideCall`:
  a thread in the middle of a call has begun one, so that `msgOf` and `callOf`
  name a message and a call.
* `NeverBothWait`: `Spec => []QueuesDisjoint`.  Not inductive alone: an Add
  could find the other queue filled since the TryTake.  `IInv` adds `LockHeld`
  (the lock is owned exactly by the thread between a failed TryTake and its
  Add) and `StillEmpty` (what that TryTake found still holds).  The steps
  without the lock (`CloseDrain`) only take.
* `NoLateWaiter`: `Spec => WaitersOnlyLeave`, an action property, from the
  type invariant.

`ChanAsyncProofs` also proves `Refinement`: `Spec => Fifo!Spec`.  A step may
only decide about a call that nothing has been decided about.  Its invariant
`RInv` therefore says where messages and calls can be:

* `Fresh`: a message that is still to be sent, or whose call is before its match
  or its Add, is in no queue and no pair; the same of receive calls;
* `Open`: the tasks of what waits, of a running call and of what is in a hand
  are open, and a promise in a sender's hand belongs to a call that returned;
* `MatchedOnce` and `RefusedNotDelivered`, which any step of FifoChan keeps
  (`FifoMatched`, `FifoRefused`), whatever the implementation does.

So the proof goes round once: `RInv` gives that a step of ChanAsync is one of
FifoChan (`Decides`), that gives MatchedOnce and RefusedNotDelivered of the
next state, and `Owners` (what is in a hand or a call is nowhere else), derived
from them, gives the rest of `RInv`.  Two theorems come with it: `NothingTwice`
(`[]MatchedOnce`) and `SettleOnce` (`TasksSettleOnce`: what a step decides was not
decided before).  TLC agrees with all of them in `chan_safety`.

`ChanAsyncOrder` uses RInv for more:

* `ArrivesInOrder`: `Spec => []PairOrder`.  `OrderInv` says why pairs come in
  order: a queue holds the calls of a thread in the order they were made
  (`QueuesOrdered`), and what is paired was made before what waits
  (`PairedFirst`).  A new call is later than every earlier one of its thread, by
  its number, and a match takes the head of a queue.
* `TaskTellsFate`: `Spec => []SendTellsFate`.  `SendInv` says where a send that is open
  can be (`OpenSends`: waiting, in its call, or given to a receive call) and that one
  which has ended or follows a callback's Task was given to one; a pair, once made, stays
  (`PairsStay`).  That a refused message is nowhere is part of RInv.
* `ClosedIsEmpty`: `Spec => []ClosedEmpty`.  A CloseOnce past its polling loop has seen
  the queue of waiters empty after CompleteAdding (`StaysEmpty`: by `NoLateWaiter`
  it never fills again), and SendInv says where the other sends are.  Of a message
  that was given to a receive call only the Task of the callback is outstanding, or
  the callback threw; a promise that Close cancels was never given any
  (`PairedCalls`).

These rest on the named assumptions of ChanAsync about its constants: the kinds
of threads are disjoint and `NoThread` is none of them, the bounds and the
capacities are natural numbers.  TLC evaluates them on every run.

`NetChanProofs` is about one connection, for any set of messages, whichever end
is the client, however the stream may break, with and without PINGs.  Its only
assumption is `MessageAssumption`: the constants have their types, and `Fault`,
which stands for an error in the receiver's world, is no message.

* `TypeCorrect`: `Spec => []TypeOK`, with `NotYetSending`: PipeWorldSend is off
  during the handshake.
* `TasksAreTrue`: `Spec => []SendTaskIsTrue`.  It needs `AtOnePlace`: a message is
  in the queue, under way or written, and once in it, so that what completes or
  fails one task leaves the place of the others alone.
* `ClosedIsDrained`: `Spec => []ClosedSenderIsDrained`.  Three callers may close
  the sender's world and the first decides when its Close completes.
  `ClosesOnce` keeps each to one call, `Drained` says that a call that is done
  has seen the queue empty and that nothing is added since any began.
* `PingIsFair`: `Spec => PingLoopIsFair`.  `PingUnderWay`: while PingLoop waits and
  pong is not set, the PING or the PONG is on the stream, unless a loop has
  stopped; so a stream that is quiet has a loop to blame.  `Handshaking` rules
  out a PING before the loops read.

`NetChanOrder` proves what the consumer gets:

* `FlowHasNoHoles` (`[]NoHoles`) and `FlowMissesNothing` (`[]NothingMissing`).
  NoHoles is not inductive: it does not say what the stream will bring.  `Flow`
  does: while the receive loop takes messages, what was written is what was
  taken, then what the packets on the stream carry, then what a break has lost.
  Once it has stopped `Prefixed` is enough, since nothing is taken any more.
  `Accepting` covers a loop still in the handshake, which throws packets away:
  nothing has been written then.
* `ClosedIsComplete` (`[]CloseIsComplete`), whether or not the stream breaks and PINGs
  are answered.  CLOSE is the last packet that PipeWorldSend writes (`CloseLast`), and
  it gets it onto the stream only when the world is closed and empty and no send has
  failed (`FinishInv`: a cancelled send goes on to CLOSE too, but with the token that
  is cancelled as well).  What a break loses is the end of the stream, so a stream
  that still has its CLOSE has lost nothing (`Whole`), and a loop that reads CLOSE
  has, by Flow, taken everything (`Complete`): one that an exception or a callback
  has stopped before is not `closed`.

`RevealProofs`, `HandlerProofs` and `DeckProofs` are about a deck with any sections, fragments and
names, any configurations, and its handlers in any order.  They assume of the
constants what a page gives (`DeckShape`: the sections are numbered from 0, the
settings have their types; `DeckInputs`: an address holds integers) and one thing
about the caller: `configure` does not turn the option `fragments` on while the
deck runs, because the fragments that were all shown without it stay visible
until the next `slide`.

A handler is a composition of a dozen functions, each rewriting a few of the
thirty fields.  `Changes(d, e, fields)` says which; `Frames` says which parts of the
invariant survive when only those fields change; so each function is looked at
once, for the parts it writes.

* `Core`: indices, classes, fragments, media, background, state names and types,
  as each is after any function that ends a handler.  `ClassesAgree` is its centre:
  the classes are read back by later calls, so it says for every stack that its
  present slide is the current one or none, how many of its slides are past, and
  what index it is resumed at.  `NeighboursShown` and `PrefixShown` say it of the
  fragments; the latter needs `Numbered`, which holds from `sync` on.
* `Steady` adds what `updateControls` and `writeURL` bring up to date, `Cued` that the
  timeout is set where it should be; `Good` is both.  Every handler takes a steady
  deck to a steady one, and a cued one to a cued one (`Kept`).  Many need Cued to
  give Cued: those that return early leave the timeout as it was.
* `SlideEffect` is the heart: wherever slide is sent, from any core that is sorted,
  it ends Good, at the place computed from its arguments (`Landed`), with the
  fragments of the slide it enters as they were (`OwnKept`).
* `Invariance`: `Spec => []IInv`, where `IInv` is `ScriptsInv` (what is loading is what
  the counter says; after the start it goes on below zero) and `DeckInv` (before
  the start the deck is as it was loaded, afterwards Good).

From IInv follow all twelve properties of `deck`:

* `AutoSlideCue`, `FreshControls`, `OnlyCurrentMedia`, `FragmentOrder`, `StackResumption`,
  `StartWhenLoaded` and `TypeCorrect` are read off its parts.
* `PastCount`: the count of `getSlidePastCount` is the rank of the current slide.  Up
  to the horizontal slide that is present both count the same leaves; within
  its stack those before the present one (`UnionCard` adds them up).
* `RootState` assumes `NamesOnce` and `AddressPlace` assumes `IdsSurvive`: a name given
  twice is lost from the root, and an id that `writeURL` changes or that two
  sections share leads elsewhere.  These are conditions on the page, not checked
  by the code.
* `AutoPlay`: every timeout gets the deck further.  `NextFragmentEffect`: a group of
  fragments is shown if one is left; it rests on `GroupsShown` (the visible
  fragments are those numbered below some K, however they were numbered).
  `NextPlace` is where navigateNext leads otherwise, and `CueAtEnd` shows that no
  timeout is set where it leads nowhere.  It assumes `LoopsOverMore`: a deck that
  loops and has one slide stands still with its timeout set again each time.
* `PrevUndo`: prev undoes next.  Numbering is idempotent (`SortDense`), so hiding the
  last group hides the one that was shown (`FragmentUndone`).  Between slides
  navigatePrev reads its way from the classes: `Aside` says that the horizontal
  slides behind the current one are exactly those before it, so that it finds
  the last slide of the stack that was left (`PrevPlace`).

`MCDeck` evaluates the three hypotheses on its instance.

`SpeakerProofs` is about the windows, for any deck, any configuration of the
presentation and any number of keys, however long messages take (`Prompt` or not).  It assumes `SpeakerInputs` (the constants
have their types) and, like the proofs of the deck, `DeckShape`.  `TInv` says what
the windows are between two steps: a deck that has loaded is `Sound` (Good, and
with no event left that nobody took), an iframe before that is `Fresh`, and
messages are of the types of their way, the states in them included (`MailTyped`).

* `SetUpOnly`: `Spec => SetUpOnce`, from `SetUpInv`: no iframe exists before the
  notes window is connected, and only the first connect message creates any.
* `TypeCorrect`: `Spec => []TypeOK`, from TInv.

The other four say that a copy of the presentation is right whenever nothing is
on its way.  A copy is right by the messages it was sent, those by the events of
handlers, and an event has the state of the deck in the middle of a handler.  So
`HandlerProofs` says what events tell, once for all handlers:

* `Tells`: a state gives the slide of a deck and which of its fragments are shown (and
  if wanted whether it is paused or in the overview).  One index gives all fragments
  because they are numbered without gaps and shown in the order of the numbers.
* `Follows`: whoever hears the events of these types and knew the deck before the
  handler knows it after, by the last event that he heard.  A handler follows if
  whatever it changes after its last event, or without any, is nothing that Tells
  speaks of.
* `SetArrives` and `MoveArrives`: a deck that is given such a state, or a move of the
  multiplex, takes it over.  `Fit` is what the state must be like; it does not let
  a deck be paused that cannot be.
* `NextSame`: two decks at the same place go to the same place next, unless that is
  in another stack, where each goes to the slide it was on last itself.

Then each invariant follows the chain of messages back, from the copy to whoever
has still to be told:

* `AudienceCatchesUp` (`[]AudienceFollows`).  `Relayed`: the last move on its way to the
  server, or else to the client, tells of the presentation; and if there is none
  one state tells of both decks.  A move has neither the pause nor the overview,
  so neither is claimed.
* `NotesAreCurrent`: with nothing on its way, the state that notes.html applied last
  tells of the presentation.  `Informed`: the last message to it does; if there is
  none the pending state does; if there is none the applied one does.  It needs
  `Closed`, that nobody posts before the window is open.  It is the part of
  WindowsAgree that is no promise about the future.
* `UpcomingStaysAhead` (`[]UpcomingIsNext`).  `Led`: the last two messages to the iframe
  are the applied state and "next", or the second alone and the deck is at that
  state, or none and it is where "next" leads from there.
* `CurrentKeepsUp` (`[]CurrentIsSame`).  Here messages go round: the iframe takes the
  state of the presentation over, its own events are sent to the presentation, and
  what that makes of them comes back.  `Echoed` breaks the circle at the last
  state applied, s: either s is still to arrive at the iframe (`Coming`), or what
  the iframe tells of itself is on its way to the presentation or has the state s
  (`Answered`).  The notes window swallows an event whose state is s; that is the last
  case, for the event then tells of the iframe that it is at s.  `Opened`: all this
  begins with an iframe that has loaded.

So every safety property of `chan_safety`, `net_safety`, `deck` and `speaker` is a
theorem; TLC has also checked the strengthened invariants of the channel and the
connection on the instances of these runs.

Only model-checked: liveness, since TLAPS cannot handle ENABLED and fairness
here.  That is `WindowsAgree` (that the messages end at all) and what `chan_live` and
`net_live` ask.  The five violated properties of the channels and the one of the
windows are shown by the traces of TLC.  No module uses RECURSIVE.

## 5. Abstractions

* Time: polling delays, the PING period, timeouts.
* Inline continuations: a continuation is a later step of whoever awaits, so
  the models allow more orders than inlining gives.  The findings do not depend
  on it: each has a trace where the other party is busy, not just slow.
* Bytes: packet layout, buffer reuse, lengths, positions.
* The Close of a receiver's owner is called while its loop runs, not during the
  handshake nor after the end, where its CLOSE would reach nobody.
* The connection's owner: which factory or pipe uses it; see the plan.
* The page of a deck: layout, scale, transforms, transitions, printing, the
  progress bar and the number of the slide (but `GetSlidePastCount`, which they
  are computed from, is modelled), fullscreen, bindings from the configuration,
  pointer events, the 600 ms in which the wheel is ignored (fewer events than
  the model allows).  Durations of media in `cueAutoSlide` only change how long
  the timeout is.  An automatic slide is "on" or "off", not a number.
* Names in data-state are distinct within a slide and its stack (`NamesOnce`) in
  the instance.  The difference `slide` forms of two lists takes a name that both
  have off the root when the next slide has it once.
* Addresses are records of a name or two numbers.  What `writeURL` makes of an id is
  the constant `Slug`, any function; `readURL` finds a section by its id.  Its test of the
  form of a name (an id that begins with a digit is taken for a number, one with
  other characters for none, `reveal.js:3094-3106`) and elements that are no sections
  are left out.  `AddressIsPlace` is about pages without such ids (`IdsSurvive`), and
  in the instance `Slug` changes nothing.
* `updateSlidesVisibility` has a view distance of its own on mobile devices
  (`reveal.js:2390`); the model has the one of the configuration.
  `getPreviousVerticalIndex` asks for the class stack (`reveal.js:1674`), which a stack
  gets in the first `updateSlides`, before there is an index to read; the model asks for
  the shape of the deck.  No property depends on either.
* The events that a data-state dispatches under its own names (`reveal.js:2064`) are left
  out: none is taken to be named like one of reveal.js, which the plugins listen to.
* `speaker`: the notes window is opened once and stays open (the key s would open it
  again, with an interval and a listener more, `notes.js:107-116`); the secret of the
  multiplex and its hash (`multiplex/index.js:18-19`), the ids of socket and host
  (`multiplex/client.js:8-9`), the timer and the text of the notes are left out.  The
  audience's deck gets no input but moves.  The talk in `presentation/index.html` loads
  the notes plugin and not the multiplex, whose scripts are in the repository beside
  it.

### Not modelled

The rest of `src/Chan` and `src/Chat` (see the plan), the notes server, and the
plugins that rewrite the page before it starts (markdown, math), transform it
(zoom) or call the functions of `Deck` for another device (leap, remotes, search).
Known hazards of reveal.js outside the model: `getProgress` divides by the
number of slides less one (`reveal.js:3072`); the load handler of a preview uses
`dom.overlay` after it may have been closed (`reveal.js:1422`); `configure` with
`overview: false` inside the overview leaves no way out of it (`reveal.js:1811`); the
wheel does not count as input that pauses automatic sliding (`reveal.js:4023`).
Those of the C# parts that are not listed in `PROJECT.json`, because nothing is
modelled around them: the polling delay of Close overflows after hours
(`ChanAsync.cs:92`), packet positions wrap (`NetChanBase.cs:209`), two writers share
`sendBuffer` in the handshake (`NetChanBase.cs:182`), a connection accepted after
close (`NetChanServer.cs:85`), a listener nobody connects to (`ChanStore.cs:406`), bindings
under two forms of a Uri (`ChanStore.cs:316`), a receiver added to a closed broadcast
(`ChanFactory.cs:167`), the message thrown away by Stop (`ChanEvent.cs:36`).

## 6. The plan

1. **Prove more**: that the address of every window leads to its slide, from
   AddressPlace, and that the presentation moves only for a key or for an event of
   the current slide, which is what is left of `OnlySpeakerMoves`.
2. **Pipeline**: `Chan.Pipe`, ChanEvent, ChanTee and the broadcast factory over
   FifoChan-like channels: a message in transit is not lost, a close
   propagates, a receiver registered while closing is closed.
3. **NetChanClientCache, NetChanServer, ChanStore**: one cached connection per
   name, Forget against the store of the result, Clear against the connecting
   tasks, registration against close, CloseAll.
4. **TaskCollector** and **ChatClient**: tasks added while closing, the
   continuation of an old connection against the new one, actions left for
   after connecting.
5. **Header**: the packing of Key, Length and Position as functions, with
   lemmas that reading returns what was written.
