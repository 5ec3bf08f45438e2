------------------------------- MODULE Speaker -------------------------------
(***************************************************************************)
(* The speaker's view (plugin/notes): the window of the presentation opens *)
(* a notes window, which shows the deck twice in iframes, the current      *)
(* slide and the upcoming one.  The windows are decks of their own that    *)
(* follow each other by posted messages: the presentation posts its state  *)
(* on every event that changes it, the notes window has its iframes take   *)
(* the state over, and what the user does in the notes window goes to the  *)
(* current slide, whose events go back to the presentation.                *)
(* Or the presentation is the master of a multiplex (plugin/multiplex): it *)
(* sends every move to a server, which broadcasts it to the audience.      *)
(*                                                                         *)
(* Messages from one window to another arrive in order; what is posted to  *)
(* a window that has not loaded yet is lost.                               *)
(***************************************************************************)
EXTENDS Reveal

CONSTANTS
  Config,     \* the configuration of the presentation
  Plugins,    \* the plugins it may have loaded: "notes" or "multiplex"
  Places,     \* the slides it may be on when the notes window is opened
  Keys,       \* the keys the speaker uses
  Prompt,     \* whether messages take less than the 200 ms of debounce
  MaxMoves,   \* bound: how often the speaker presses one in the presentation
  MaxRemote   \* bound: and in the notes window

ASSUME SpeakerInputs ==
  /\ Config \in ConfigType /\ Places \subseteq Leaves /\ Plugins \subseteq {"notes", "multiplex"}
  /\ MaxMoves \in Nat /\ MaxRemote \in Nat /\ Prompt \in BOOLEAN

VARIABLES
  presenter,   \* the deck of the presentation
  plugin,      \* the plugin; of notes.js, its connect interval runs, it listens to the deck
  notes,       \* the script of notes.html
  current,     \* the iframe of the current slide
  upcoming,    \* the iframe of the upcoming one
  audience,    \* the deck of a multiplex client
  mail,        \* the messages under way, by their way
  moves        \* how often the speaker has pressed a key, in each window

vars == <<presenter, plugin, notes, current, upcoming, audience, mail, moves>>

Receiver == [Config EXCEPT !.receiver = TRUE, !.progress = FALSE, !.history = FALSE,
                           !.autoSlide = "off"]

\* An iframe that opens the deck at a slide, before its scripts have run
Iframe(phase, h, v) == [phase |-> phase, deck |-> NewDeck(Receiver, Hash("", h, v))]

Init ==
  /\ \E s \in Places :
       presenter = [Slide(Start(NewDeck(Config, Hash("", 0, 0))), s[1],
                          IF IsVerticalSlide(s) THEN s[2] ELSE 0) EXCEPT !.events = <<>>]
  /\ \E name \in Plugins : plugin = [name |-> name, connecting |-> FALSE, listening |-> FALSE]
  /\ notes = [phase |-> "closed", connected |-> FALSE, currentState |-> {},
              pending |-> {}, recent |-> FALSE, reached |-> FALSE]
  /\ current = Iframe("none", 0, 0) /\ upcoming = Iframe("none", 0, 0)
  /\ audience = [joined |-> FALSE, told |-> FALSE, deck |-> NewDeck(Config, Hash("", 0, 0))]
  /\ mail = [toNotes |-> <<>>, toPresenter |-> <<>>, fromCurrent |-> <<>>,
             toCurrent |-> <<>>, toUpcoming |-> <<>>, toServer |-> <<>>, toAudience |-> <<>>]
  /\ moves = [presenter |-> 0, notes |-> 0]

-----------------------------------------------------------------------------
(* Messages *)

\* The events of d of the types that are listened to, in their order
Heard(d, types) ==
  LET at == {i \in DOMAIN d.events : d.events[i].type \in types}
      Nth(k) == CHOOSE i \in at : Cardinality({j \in at : j <= i}) = k
  IN [k \in 1 .. Cardinality(at) |-> d.events[Nth(k)]]

\* What master.js listens to, and notes.js
Followed == {"slidechanged", "fragmentshown", "fragmenthidden"}
Watched == Followed \cup {"overviewshown", "overviewhidden", "paused", "resumed"}

StateMessage(state) == [type |-> "state", state |-> state]

\* The state at the moment of every event that notes.js listens to
Post(d) ==
  LET heard == Heard(d, Watched)
  IN IF plugin.listening THEN [i \in DOMAIN heard |-> StateMessage(heard[i].state)] ELSE <<>>

\* What master.js makes of the events it listens to: the slide and its fragment
BugNotify(d) ==
  LET told == Heard(d, {"slidechanged"})
  IN IF plugin.name = "multiplex"
     THEN [i \in DOMAIN told |-> [h |-> told[i].state.indexh, v |-> told[i].state.indexv, f |-> 0]]
     ELSE <<>>
SlideData(state) ==
  [h |-> state.indexh, v |-> state.indexv, f |-> IF state.indexf.set THEN state.indexf.to ELSE 0]
Notify(d) ==
  LET told == Heard(d, Followed)
  IN IF plugin.name = "multiplex" THEN [i \in DOMAIN told |-> SlideData(told[i].state)] ELSE <<>>

\* No message is under way
Delivered == \A way \in DOMAIN mail : mail[way] = <<>>

\* The presentation runs a handler that leaves it as d
Present(d, m) ==
  /\ presenter' = [d EXCEPT !.events = <<>>]
  /\ mail' = [m EXCEPT !.toNotes = @ \o Post(d), !.toServer = @ \o Notify(d)]

-----------------------------------------------------------------------------
(* The window of the presentation *)

SpeakerKey(key) ==
  /\ moves.presenter < MaxMoves
  /\ moves' = [moves EXCEPT !.presenter = @ + 1]
  /\ Present(OnDocumentKeyDown(presenter, key), mail)
  /\ UNCHANGED <<plugin, notes, current, upcoming, audience>>

OpenNotes ==
  /\ plugin.name = "notes" /\ notes.phase = "closed"
  /\ notes' = [notes EXCEPT !.phase = "loading"]
  /\ plugin' = [plugin EXCEPT !.connecting = TRUE]
  /\ UNCHANGED <<presenter, current, upcoming, audience, mail, moves>>

ConnectInterval ==
  /\ plugin.connecting /\ mail.toNotes = <<>>
  /\ notes.phase = "open"
  /\ mail' = [mail EXCEPT !.toNotes = <<[type |-> "connect", state |-> GetState(presenter)]>>]
  /\ UNCHANGED <<presenter, plugin, notes, current, upcoming, audience, moves>>

PresenterReceives ==
  /\ mail.toPresenter # <<>>
  /\ LET m == Head(mail.toPresenter)
         rest == [mail EXCEPT !.toPresenter = Tail(@)]
     IN \/ /\ m.type = "connected"
           /\ plugin' = [plugin EXCEPT !.connecting = FALSE, !.listening = TRUE]
           /\ mail' = [rest EXCEPT !.toNotes = Append(@, StateMessage(GetState(presenter)))]
           /\ UNCHANGED presenter
        \/ /\ m.type = "setState"
           /\ Present(SetState(presenter, m.state), rest)
           /\ UNCHANGED plugin
  /\ UNCHANGED <<notes, current, upcoming, audience, moves>>

-----------------------------------------------------------------------------
(* The notes window *)

NotesLoad ==
  /\ notes.phase = "loading"
  /\ notes' = [notes EXCEPT !.phase = "open"]
  /\ UNCHANGED <<presenter, plugin, current, upcoming, audience, mail, moves>>

\* handleConnectMessage: the first one sets up the iframes
BugHandleConnectMessage ==
  /\ mail.toNotes # <<>> /\ Head(mail.toNotes).type = "connect"
  /\ mail' = [mail EXCEPT !.toNotes = Tail(@)]
  /\ notes' = [notes EXCEPT !.connected = TRUE]
  /\ LET s == Head(mail.toNotes).state
     IN /\ current' = Iframe("loading", s.indexh, s.indexv)
        /\ upcoming' = Iframe("loading", s.indexh, s.indexv)
  /\ UNCHANGED <<presenter, plugin, audience, moves>>
HandleConnectMessage ==
  /\ mail.toNotes # <<>> /\ Head(mail.toNotes).type = "connect"
  /\ mail' = [mail EXCEPT !.toNotes = Tail(@)]
  /\ LET s == Head(mail.toNotes).state
     IN IF notes.connected THEN UNCHANGED <<notes, current, upcoming>>
        ELSE /\ notes' = [notes EXCEPT !.connected = TRUE]
             /\ current' = Iframe("loading", s.indexh, s.indexv)
             /\ upcoming' = Iframe("loading", s.indexh, s.indexv)
  /\ UNCHANGED <<presenter, plugin, audience, moves>>

Loaded(iframe) == iframe.phase \in {"started", "ready"}

\* handleStateMessage, before debounce
BugApplyStateMessage(s, m) ==
  /\ notes' = [notes EXCEPT !.currentState = {s}, !.pending = {}, !.recent = TRUE,
                            !.reached = Loaded(upcoming)]
  /\ mail' = [m EXCEPT
       !.toCurrent = @ \o IF Loaded(current) THEN <<[type |-> "setState", state |-> s]>> ELSE <<>>,
       !.toUpcoming = @ \o IF Loaded(upcoming) THEN <<[type |-> "next"]>> ELSE <<>>]
ApplyStateMessage(s, m) ==
  LET set == [type |-> "setState", state |-> s]
      next == [type |-> "next"]
  IN /\ notes' = [notes EXCEPT !.currentState = {s}, !.pending = {}, !.recent = TRUE,
                               !.reached = Loaded(upcoming)]
     /\ mail' = [m EXCEPT !.toCurrent = @ \o IF Loaded(current) THEN <<set>> ELSE <<>>,
                          !.toUpcoming = @ \o IF Loaded(upcoming) THEN <<set, next>> ELSE <<>>]

\* The states that come within 200 ms of the last one applied wait, and only
\* the last of them is applied
BugThrottle ==
  /\ mail.toNotes # <<>> /\ Head(mail.toNotes).type = "state"
  /\ LET rest == [mail EXCEPT !.toNotes = Tail(@)]
     IN IF notes.recent THEN mail' = rest /\ UNCHANGED notes
        ELSE ApplyStateMessage(Head(mail.toNotes).state, rest)
  /\ UNCHANGED <<presenter, plugin, current, upcoming, audience, moves>>
BugNoClearTimeout ==
  /\ mail.toNotes # <<>> /\ Head(mail.toNotes).type = "state"
  /\ LET s == Head(mail.toNotes).state
         rest == [mail EXCEPT !.toNotes = Tail(@)]
     IN IF notes.recent THEN /\ notes' = [notes EXCEPT !.pending = @ \cup {s}]
                             /\ mail' = rest
        ELSE ApplyStateMessage(s, rest)
  /\ UNCHANGED <<presenter, plugin, current, upcoming, audience, moves>>
HandleStateMessage ==
  /\ mail.toNotes # <<>> /\ Head(mail.toNotes).type = "state"
  /\ LET s == Head(mail.toNotes).state
         rest == [mail EXCEPT !.toNotes = Tail(@)]
     IN IF notes.recent THEN /\ notes' = [notes EXCEPT !.pending = {s}]
                             /\ mail' = rest
        ELSE ApplyStateMessage(s, rest)
  /\ UNCHANGED <<presenter, plugin, current, upcoming, audience, moves>>

\* The 200 ms are over
DebounceTimeout ==
  /\ notes.recent
  /\ Prompt => Delivered
  /\ IF notes.pending = {} THEN /\ notes' = [notes EXCEPT !.recent = FALSE]
                                /\ UNCHANGED mail
     ELSE \E s \in notes.pending : ApplyStateMessage(s, mail)
  /\ UNCHANGED <<presenter, plugin, current, upcoming, audience, moves>>

\* What notes.html sends on: its test for "paused" and "resumed" matches two more
Forwarded == Watched \cup {"autoslidepaused", "autoslideresumed"}

\* Events of the current slide: the deck is ready, or it has another state than
\* the one it was given
BugHandleRevealEvent ==
  /\ mail.fromCurrent # <<>>
  /\ LET e == Head(mail.fromCurrent)
         sent == IF e.type = "ready" THEN <<[type |-> "connected"]>>
                 ELSE IF e.type = "slidechanged" /\ notes.currentState # {e.state}
                 THEN <<[type |-> "setState", state |-> e.state]>> ELSE <<>>
     IN mail' = [mail EXCEPT !.fromCurrent = Tail(@), !.toPresenter = @ \o sent]
  /\ UNCHANGED <<presenter, plugin, notes, current, upcoming, audience, moves>>
HandleRevealEvent ==
  /\ mail.fromCurrent # <<>>
  /\ LET e == Head(mail.fromCurrent)
         sent == IF e.type = "ready" THEN <<[type |-> "connected"]>>
                 ELSE IF e.type \in Forwarded /\ notes.currentState # {e.state}
                 THEN <<[type |-> "setState", state |-> e.state]>> ELSE <<>>
     IN mail' = [mail EXCEPT !.fromCurrent = Tail(@), !.toPresenter = @ \o sent]
  /\ UNCHANGED <<presenter, plugin, notes, current, upcoming, audience, moves>>

\* A key pressed in the notes window is for the current slide
NotesKey(key) ==
  /\ notes.connected /\ moves.notes < MaxRemote
  /\ moves' = [moves EXCEPT !.notes = @ + 1]
  /\ mail' = [mail EXCEPT !.toCurrent =
                @ \o IF Loaded(current) THEN <<[type |-> "key", key |-> key]>> ELSE <<>>]
  /\ UNCHANGED <<presenter, plugin, notes, current, upcoming, audience>>

-----------------------------------------------------------------------------
(* The iframes *)

\* The current slide runs a handler that leaves it as d; it posts its events
Show1(d, phase, m) ==
  /\ current' = [phase |-> phase, deck |-> [d EXCEPT !.events = <<>>]]
  /\ mail' = [m EXCEPT !.fromCurrent = @ \o d.events]
  /\ UNCHANGED <<presenter, plugin, notes, upcoming, audience, moves>>

CurrentLoad ==
  /\ current.phase = "loading"
  /\ Show1(Start(current.deck), "started", mail)

CurrentReady ==
  /\ current.phase = "started"
  /\ Show1(DispatchEvent(current.deck, "ready"), "ready", mail)

CurrentReceives ==
  /\ mail.toCurrent # <<>>
  /\ LET m == Head(mail.toCurrent)
     IN Show1(IF m.type = "key" THEN OnDocumentKeyDown(current.deck, m.key)
              ELSE SetState(current.deck, m.state),
              current.phase, [mail EXCEPT !.toCurrent = Tail(@)])

UpcomingLoad ==
  /\ upcoming.phase = "loading"
  /\ upcoming' = [phase |-> "ready", deck |-> [Start(upcoming.deck) EXCEPT !.events = <<>>]]
  /\ UNCHANGED <<presenter, plugin, notes, current, audience, mail, moves>>

UpcomingReceives ==
  /\ mail.toUpcoming # <<>>
  /\ LET m == Head(mail.toUpcoming)
         d == IF m.type = "next" THEN Navigate(upcoming.deck, "next")
              ELSE SetState(upcoming.deck, m.state)
     IN upcoming' = [upcoming EXCEPT !.deck = [d EXCEPT !.events = <<>>]]
  /\ mail' = [mail EXCEPT !.toUpcoming = Tail(@)]
  /\ UNCHANGED <<presenter, plugin, notes, current, audience, moves>>

-----------------------------------------------------------------------------
(* The multiplex server and a client.  The server keeps nothing: a client that
   joins is told of the next move. *)

AudienceJoins ==
  /\ plugin.name = "multiplex" /\ ~audience.joined
  /\ audience' = [audience EXCEPT !.joined = TRUE, !.deck = [Start(@) EXCEPT !.events = <<>>]]
  /\ UNCHANGED <<presenter, plugin, notes, current, upcoming, mail, moves>>

ServerBroadcasts ==
  /\ mail.toServer # <<>>
  /\ mail' = [mail EXCEPT !.toServer = Tail(@),
                          !.toAudience = IF audience.joined THEN Append(@, Head(mail.toServer)) ELSE @]
  /\ UNCHANGED <<presenter, plugin, notes, current, upcoming, audience, moves>>

AudienceReceives ==
  /\ mail.toAudience # <<>>
  /\ LET m == Head(mail.toAudience)
         d == SlideTo(audience.deck, m.h, m.v, [set |-> TRUE, to |-> m.f])
     IN audience' = [audience EXCEPT !.told = TRUE, !.deck = [d EXCEPT !.events = <<>>]]
  /\ mail' = [mail EXCEPT !.toAudience = Tail(@)]
  /\ UNCHANGED <<presenter, plugin, notes, current, upcoming, moves>>

-----------------------------------------------------------------------------

Machine ==
  \/ ConnectInterval
  \/ PresenterReceives
  \/ NotesLoad
  \/ HandleConnectMessage
  \/ HandleStateMessage
  \/ DebounceTimeout
  \/ HandleRevealEvent
  \/ CurrentLoad
  \/ CurrentReady
  \/ CurrentReceives
  \/ UpcomingLoad
  \/ UpcomingReceives
  \/ ServerBroadcasts
  \/ AudienceReceives

Next ==
  \/ Machine
  \/ OpenNotes
  \/ AudienceJoins
  \/ \E key \in Keys : SpeakerKey(key) \/ NotesKey(key)

\* Timers elapse, windows load and handle their messages; the speaker does what
\* the speaker likes.  Where a deck runs a handler the weak fairness is written
\* out, with the guard of the action for its ENABLED, which TLC is slow to find.
Fairness ==
  /\ WF_vars(NotesLoad) /\ WF_vars(ConnectInterval) /\ WF_vars(DebounceTimeout)
  /\ WF_vars(HandleConnectMessage) /\ WF_vars(HandleStateMessage)
  /\ WF_vars(HandleRevealEvent) /\ WF_vars(CurrentReady) /\ WF_vars(ServerBroadcasts)
  /\ []<>(mail.toPresenter = <<>>) \/ []<><<PresenterReceives>>_vars
  /\ []<>(mail.toCurrent = <<>>) \/ []<><<CurrentReceives>>_vars
  /\ []<>(mail.toUpcoming = <<>>) \/ []<><<UpcomingReceives>>_vars
  /\ []<>(mail.toAudience = <<>>) \/ []<><<AudienceReceives>>_vars
  /\ []<>(current.phase # "loading") \/ []<><<CurrentLoad>>_vars
  /\ []<>(upcoming.phase # "loading") \/ []<><<UpcomingLoad>>_vars

Spec == Init /\ [][Next]_vars /\ Fairness

=============================================================================
