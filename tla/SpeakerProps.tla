---------------------------- MODULE SpeakerProps ----------------------------
(***************************************************************************)
(* What the windows of a speaker owe each other.                           *)
(***************************************************************************)
EXTENDS Speaker

\* The windows, the plugins and the messages under way stay in their ranges; at
\* most one state waits for the debounce of the notes window.
TypeOK ==
  /\ plugin \in [name : Plugins, connecting : BOOLEAN, listening : BOOLEAN]
  /\ notes.phase \in {"closed", "loading", "open"}
  /\ {notes.connected, notes.recent, notes.reached} \subseteq BOOLEAN
  /\ Cardinality(notes.pending) <= 1 /\ Cardinality(notes.currentState) <= 1
  /\ {current.phase, upcoming.phase} \subseteq {"none", "loading", "started", "ready"}
  /\ {audience.joined, audience.told} \subseteq BOOLEAN
  /\ \A i \in DOMAIN mail.toNotes : mail.toNotes[i].type \in {"connect", "state"}
  /\ \A i \in DOMAIN mail.toPresenter : mail.toPresenter[i].type \in {"connected", "setState"}
  /\ moves \in [presenter : 0 .. MaxMoves, notes : 0 .. MaxRemote]

\* The connect messages repeat until they are answered, and more of them arrive
\* while the iframes load: none sets up an iframe again that has started.
SetUpOnce ==
  [][/\ Loaded(current) => Loaded(current')
     /\ Loaded(upcoming) => Loaded(upcoming')]_vars

\* Nothing is on its way and no state waits to be applied.
Quiet == Delivered /\ ~notes.recent /\ notes.pending = {}

Agree ==
  /\ plugin.listening /\ Quiet
  /\ GetState(current.deck) = GetState(presenter)
  /\ notes.currentState = {GetState(presenter)}

\* Once the notes window is open and nobody touches either window any more, the
\* messages come to an end, the current slide has the state of the presentation,
\* and the notes window knows it for the one it applied.
WindowsAgree == <>(notes.phase # "closed") => <>[]Agree

Place(d) == <<d.cur, d.visible>>

\* Whenever nothing is on its way the slide and the fragments that the current slide
\* shows, and whether it is paused or in the overview, are those of the presentation,
\* however the two have been moved: each of them takes over what the other tells, and
\* the debounce and the check for a state that is known already may drop messages.
CurrentIsSame ==
  plugin.listening /\ Quiet =>
    /\ Place(current.deck) = Place(presenter)
    /\ current.deck.paused = presenter.paused /\ current.deck.overview = presenter.overview

\* Whenever nothing is on its way the upcoming slide is one step ahead, if it
\* was there when the last state was sent to it; where that step enters a stack
\* it may be on another slide of the stack, the one it was on last itself.
UpcomingIsNext ==
  LET next == Navigate(presenter, "next")
  IN plugin.listening /\ Quiet /\ notes.reached =>
       \/ Place(upcoming.deck) = Place(next)
       \/ next.cur[1] \in Stacks \ {presenter.cur[1]} /\ upcoming.deck.cur[1] = next.cur[1]

\* A client of the multiplex that has been told of a move shows, when no other
\* move is on its way, the slide of the master with the same fragments.
AudienceFollows ==
  audience.told /\ Delivered =>
    /\ audience.deck.cur = presenter.cur
    /\ audience.deck.visible = presenter.visible

\* The presentation moves only when the speaker moves something.
OnlySpeakerMoves ==
  [][GetState(presenter)' # GetState(presenter) => moves' # moves]_vars

=============================================================================
