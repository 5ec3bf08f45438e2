-------------------------------- MODULE Deck --------------------------------
(***************************************************************************)
(* A page that shows a deck with reveal.js: it loads the scripts the deck  *)
(* depends on, starts, and then runs its handlers one at a time, in        *)
(* whatever order the user, the timers, the browser and other windows      *)
(* raise their events.                                                     *)
(***************************************************************************)
EXTENDS Reveal

CONSTANTS
  Configs,       \* the configurations given to initialize
  Reconfigured,  \* the pairs of them between which a script changes the deck
  Addresses,     \* configuration |-> the hashes a user may enter or go back to
  SyncScripts, AsyncScripts   \* the dependencies, without and with async

VARIABLES
  deck,      \* reveal.js and what it has written into the page
  scripts    \* the loading of the dependencies

vars == <<deck, scripts>>

ASSUME DeckInputs ==
  /\ Configs \subseteq ConfigType /\ Configs # {}
  /\ Reconfigured \subseteq Configs \X Configs
  /\ \A c \in Reconfigured : c[2].fragments => c[1].fragments
  /\ Configs \subseteq DOMAIN Addresses
  /\ \A c \in Configs : \A url \in Addresses[c] :
       url = Hash(url.name, url.h, url.v) /\ {url.h, url.v} \subseteq Int \ {Undef}
  /\ IsFiniteSet(SyncScripts) /\ IsFiniteSet(AsyncScripts) /\ SyncScripts \cap AsyncScripts = {}

Init ==
  /\ \E config \in Configs : \E url \in Addresses[config] \cup {Hash("", 0, 0)} :
       deck = NewDeck(config, url)
  /\ scripts = [phase |-> "new", loading |-> {}, toPreload |-> 0]

-----------------------------------------------------------------------------
(* Loading *)

\* The scripts that need not be there in time are asked for, and the deck starts
Proceed(toPreload, rest) ==
  /\ deck' = [Start(deck) EXCEPT !.events = <<>>]
  /\ scripts' = [phase |-> "started", loading |-> rest \cup AsyncScripts, toPreload |-> toPreload]

BugLoad ==
  /\ scripts.phase = "new"
  /\ scripts' = [phase |-> "loading", loading |-> SyncScripts \cup AsyncScripts,
                 toPreload |-> Cardinality(SyncScripts)]
  /\ UNCHANGED deck
Load ==
  /\ scripts.phase = "new"
  /\ IF SyncScripts = {} THEN Proceed(0, {})
     ELSE /\ scripts' = [phase |-> "loading", loading |-> SyncScripts,
                         toPreload |-> Cardinality(SyncScripts)]
          /\ UNCHANGED deck

\* Every script counts down when it is there, the asynchronous ones too
ScriptReady(s) ==
  /\ s \in scripts.loading
  /\ IF scripts.toPreload = 1 THEN Proceed(0, scripts.loading \ {s})
     ELSE /\ scripts' = [scripts EXCEPT !.loading = @ \ {s}, !.toPreload = @ - 1]
          /\ UNCHANGED deck

Ready ==
  /\ scripts.phase = "started"
  /\ scripts' = [scripts EXCEPT !.phase = "ready"]
  /\ UNCHANGED deck

-----------------------------------------------------------------------------
(* A handler that runs to its end and leaves the deck as d *)

Handle(d) ==
  /\ scripts.phase \in {"started", "ready"}
  /\ deck' = [d EXCEPT !.events = <<>>]
  /\ UNCHANGED scripts

Listening(kind) == kind \in deck.listeners

Keys == {"prev", "next", "left", "right", "up", "down", "home", "end", "space",
         "shift-space", "return", "pause", "a", "escape", "modified"}
Gestures == {"pinch-in", "pinch-out", "left", "right", "up", "down"}

KeyDown(key) == Listening("keyboard") /\ Handle(OnDocumentKeyDown(deck, key))
KeyPress == Listening("keyboard") /\ Handle(OnDocumentKeyPress(deck))
ControlClick(b) == /\ deck.config.controls /\ Listening("controls")
                   /\ Handle(OnNavigateClicked(deck, b))
ProgressClick(part) == Listening("progress") /\ Handle(OnProgressClicked(deck, part))
TouchStart(n) == Listening("touch") /\ Handle(OnTouchStart(deck, n))
TouchMove(gesture) == /\ Listening("touch")
                      /\ deck.touch.startCount > 0
                      /\ Handle(OnTouchMove(deck, gesture))
TouchEnd == Listening("touch") /\ Handle(OnTouchEnd(deck))
MouseScroll(delta) == deck.config.mouseWheel /\ Handle(OnDocumentMouseScroll(deck, delta))
OverviewSlideClick(s) == s \in deck.overviewClicks /\ Handle(OnOverviewSlideClicked(deck, s))
PlayerClick == deck.player # "none" /\ Handle(OnAutoSlidePlayerClick(deck))
PreviewLinkClick == deck.config.previewLinks /\ Handle(ShowPreview(deck))
OverlayClose == deck.overlay # "none" /\ Handle(CloseOverlay(deck))
EnterAddress(url) == Handle(SetHash(deck, url))

User ==
  \/ \E key \in Keys : KeyDown(key)
  \/ KeyPress
  \/ \E b \in Directions : ControlClick(b)
  \/ \E part \in 0 .. Cardinality(HorizontalSlides) : ProgressClick(part)
  \/ \E n \in 1 .. 2 : TouchStart(n)
  \/ \E gesture \in Gestures : TouchMove(gesture)
  \/ TouchEnd
  \/ \E delta \in {-1, 1} : MouseScroll(delta)
  \/ \E s \in Leaves : OverviewSlideClick(s)
  \/ PlayerClick
  \/ PreviewLinkClick
  \/ OverlayClose
  \/ \E url \in Addresses[deck.config] : EnterAddress(url)

\* Functions of the API, called by a script or through a message of another window
Api ==
  \/ Handle(TogglePause(deck))
  \/ Handle(ActivateOverview(deck))
  \/ Handle(DeactivateOverview(deck))
  \/ Handle(ToggleAutoSlide(deck, deck.autoSlidePaused))
  \/ Handle(NextFragment(deck))
  \/ Handle(PreviousFragment(deck))
  \/ Handle(Sync(deck))
  \/ \E s \in Leaves : Handle(Slide(deck, s[1], IF IsVerticalSlide(s) THEN s[2] ELSE Undef))

Reconfigure(config) ==
  /\ <<deck.config, config>> \in Reconfigured
  /\ Handle(Configure(deck, config))

\* What happens without anyone: events of the browser and timeouts
HashChange ==
  /\ deck.hashEvent /\ Listening("hashchange")
  /\ Handle(ReadURL([deck EXCEPT !.hashEvent = FALSE]))
AutoSlideTimeout == deck.timer /\ Handle(OnAutoSlideTimeout(deck))
ResetTimeout == deck.resetStacks /\ Handle(ResetStacks(deck))
IframeLoaded(s) == deck.iframe[s] = "loading" /\ Handle(IframeLoad(deck, s))

Unattended ==
  \/ Load
  \/ \E s \in SyncScripts \cup AsyncScripts : ScriptReady(s)
  \/ Ready
  \/ HashChange
  \/ AutoSlideTimeout
  \/ ResetTimeout
  \/ \E s \in IframeSlides : IframeLoaded(s)

Next ==
  \/ Unattended
  \/ User
  \/ Api
  \/ \E config \in Configs : Reconfigure(config)

Spec == Init /\ [][Next]_vars

=============================================================================
