----------------------------- MODULE DeckProps -----------------------------
(***************************************************************************)
(* What must be true of a deck whatever the order of its events.           *)
(***************************************************************************)
EXTENDS Deck, DeckTerms

Begun == deck.cur # None

\* The variables of reveal.js and the classes it writes stay in their ranges.
TypeOK ==
  /\ deck.config \in Configs
  /\ deck.indexh \in {Undef} \cup DOMAIN Verticals /\ deck.indexv \in {Undef} \cup Nat
  /\ deck.cur \in Leaves \cup {None}
  /\ deck.cls \in [Sections -> {"", "past", "present", "future"}]
  /\ deck.prevV \in [Stacks -> Nat]
  /\ deck.fidx \in [Fragments -> Nat \cup {Undef}]
  /\ deck.visible \subseteq Fragments /\ deck.curfrag \subseteq deck.visible
  /\ {deck.overview, deck.paused, deck.autoSlidePaused, deck.timer,
      deck.hashEvent, deck.resetStacks} \subseteq BOOLEAN
  /\ deck.autoSlide \in {"on", "off"} /\ deck.player \in {"none", "playing", "stopped"}
  /\ deck.overlay \in {"none", "help", "preview"}
  /\ deck.enabled \subseteq Directions /\ deck.overviewClicks \in {{}, Leaves}
  /\ deck.shown \subseteq Sections /\ deck.bgVideo \subseteq VideoBackgrounds
  /\ deck.iframe \in [IframeSlides -> {"blank", "loading", "loaded"}]
  /\ deck.touch \in [captured : BOOLEAN, startCount : 0 .. 2]
  /\ scripts.phase \in {"new", "loading", "started", "ready"}
  /\ scripts.loading \subseteq SyncScripts \cup AsyncScripts
  /\ scripts.toPreload \in -Cardinality(AsyncScripts) .. Cardinality(SyncScripts)

\* However the deck was moved about, the slides counted from the classes to
\* number the slide and to draw the progress bar are those before the current one:
\* no slide of a stack that was left is still present.
PastCountIsPlace == Begun => GetSlidePastCount(deck) = Rank(deck.cur)

\* Every slide before the current one shows all its fragments and none after it
\* shows any; of the current slide a first part of the groups is visible, in the
\* order of their indices.
FragmentsFollowPlace ==
  Begun /\ deck.config.fragments =>
    /\ \A f \in Fragments :
         /\ Precedes(f[1], deck.cur) => f \in deck.visible
         /\ Precedes(deck.cur, f[1]) => f \notin deck.visible
    /\ \A f, g \in FragmentsOf(deck.cur) :
         f \in deck.visible /\ deck.fidx[g] <= deck.fidx[f] => g \in deck.visible

\* The deck never moves on by itself while it is paused, in the overview or
\* stopped by the user; and while it plays, short of its last slide, the
\* timeout that takes it further is set.
AutoSlideIsCued ==
  LET playing == /\ Begun /\ deck.autoSlide = "on" /\ ~deck.autoSlidePaused
                 /\ ~deck.paused /\ ~deck.overview
  IN /\ deck.timer => playing
     /\ playing /\ ~IsLastSlide(deck) => deck.timer
     /\ deck.timer /\ deck.player # "none" => deck.player = "playing"

\* Media, iframes and background videos of a slide that was left do not play,
\* an iframe that finishes loading later included.
OnlyCurrentPlays ==
  /\ deck.playing \cup deck.started \subseteq {deck.cur}
  /\ deck.bgPlaying \subseteq {deck.cur}

\* The controls show the ways that are open now.
ControlsAreFresh == Begun => UpdateControls(deck).enabled = deck.enabled

\* A stack that was left keeps the index of the slide it was left on, unless
\* the deck went home since: it is the number of its past slides, or 0.
StackIsResumed ==
  \A h \in Stacks : Begun /\ deck.indexh # h =>
    deck.prevV[h] \in {0, Cardinality({s \in VerticalSlides(h) : deck.cls[s] = "past"})}

\* The root element has exactly the names of the data-state of the current slide.
RootHasState == deck.root = {deck.state[i] : i \in DOMAIN deck.state}

\* Once its hashchange events are handled the address leads to the slide shown,
\* whatever was entered while they were on their way.
AddressIsPlace ==
  Begun /\ deck.config.history /\ ~deck.hashEvent => Target(deck.hash) = <<deck.indexh, deck.indexv>>

\* The deck starts once, when every script it waits for is there, however the
\* asynchronous ones arrive.
StartsWhenLoaded ==
  /\ Begun <=> scripts.phase \in {"started", "ready"}
  /\ Begun => scripts.loading \cap SyncScripts = {}

\* A deck that loops has a slide besides the first.
LoopsOverMore == \A c \in Configs : c.loop => \E s \in Leaves : s # GetSlide(0, 0)

\* A deck that plays by itself gets on with every timeout, to a later slide or
\* to more fragments of the same, and so to its end, where no timeout stays set;
\* one that loops starts over but never stands still.
AutoPlayAdvances ==
  LET Advance(then) ==
        \/ Rank(then.cur) > Rank(deck.cur)
        \/ then.cur = deck.cur /\ deck.visible \subseteq then.visible /\ deck.visible # then.visible
        \/ deck.config.loop /\ Rank(then.cur) < Rank(deck.cur) /\ IsLastSlide(deck)
        \/ IsLastSlide(deck) /\ ~AvailableFragments(deck).next /\ ~then.timer
  IN deck.timer => Advance(OnAutoSlideTimeout(deck))

\* Going on and back again shows the same slide with the same fragments, the
\* crossing into a stack and out of it included, except in the overview, around
\* the end of a deck that loops and into a stack that resumes on a later slide.
PrevUndoesNext ==
  LET Same(back) == back.cur = deck.cur /\ back.visible = deck.visible
      Undone(on) == on.cur # deck.cur \/ on.visible # deck.visible => Same(Navigate(on, "prev"))
  IN Begun /\ ~deck.overview /\ deck.config.fragments /\ ~(deck.config.loop /\ IsLastSlide(deck))
       /\ (\A h \in Stacks : GetPreviousVerticalIndex(deck, h) = 0)
     => Undone(Navigate(deck, "next"))

=============================================================================
