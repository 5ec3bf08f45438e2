----------------------------- MODULE DeckProofs -----------------------------
(***************************************************************************)
(* Whatever the order of its events, the parts of a deck agree after every *)
(* handler, since each handler keeps them so.  From that follow the        *)
(* invariants of DeckProps.                                                *)
(***************************************************************************)
EXTENDS DeckProps, HandlerProofs

-----------------------------------------------------------------------------
(* The inductive invariant *)

\* What is loading, and how many scripts are still waited for: after the start the
\* count of the asynchronous ones goes on below zero.
ScriptsInv ==
  /\ DOMAIN scripts = {"phase", "loading", "toPreload"}
  /\ scripts.phase \in {"new", "loading", "started", "ready"}
  /\ scripts.phase = "new" => scripts.loading = {} /\ scripts.toPreload = 0
  /\ scripts.phase = "loading" => /\ scripts.loading \subseteq SyncScripts
                                  /\ scripts.toPreload = Cardinality(scripts.loading) /\ scripts.toPreload > 0
  /\ scripts.phase \in {"started", "ready"} =>
       /\ scripts.loading \subseteq AsyncScripts
       /\ scripts.toPreload = Cardinality(scripts.loading) - Cardinality(AsyncScripts)

\* Until it starts a deck is as it was loaded; from then on it is good.
DeckInv ==
  /\ scripts.phase \in {"new", "loading"} =>
       \E config \in Configs : \E url : /\ url.h \in Int \ {Undef} /\ url.v \in Int \ {Undef}
                                        /\ deck = NewDeck(config, url)
  /\ scripts.phase \in {"started", "ready"} => Good(deck) /\ deck.config \in Configs

IInv == ScriptsInv /\ DeckInv

LEMMA HandleKept ==
  ASSUME IInv, NEW d, scripts.phase \in {"started", "ready"} => Good(d) /\ d.config \in Configs, Handle(d)
  PROVE  IInv'
  <1>1. /\ scripts.phase \in {"started", "ready"} /\ scripts' = scripts
        /\ deck' = [d EXCEPT !.events = <<>>]
    BY DEF Handle
  <1>2. Good(d) /\ d.config \in Configs
    BY <1>1
  <1>3. Good(deck') /\ deck'.config \in Configs
    <2> DEFINE e == [d EXCEPT !.events = <<>>]
    <2>1. Kept(d, e)
      BY <1>2, EventKept DEF Good
    <2>2. deck' = e
      BY <1>1
    <2> HIDE DEF e
    <2> QED
      BY <1>2, <2>1, <2>2 DEF Kept, Good
  <1>4. ScriptsInv'
    BY <1>1 DEF IInv, ScriptsInv
  <1>5. DeckInv'
    BY <1>1, <1>3 DEF DeckInv
  <1> QED
    BY <1>4, <1>5 DEF IInv

LEMMA InputShape ==
  /\ Configs \subseteq ConfigType
  /\ \A c \in Configs : \A url \in Addresses[c] : url.h \in Int \ {Undef} /\ url.v \in Int \ {Undef}
  /\ \A c1, c2 \in Configs : <<c1, c2>> \in Reconfigured => (c2.fragments => c1.fragments)
  /\ IsFiniteSet(SyncScripts) /\ IsFiniteSet(AsyncScripts) /\ SyncScripts \cap AsyncScripts = {}
  <1>1. /\ Configs \subseteq ConfigType
        /\ \A c \in Reconfigured : c[2].fragments => c[1].fragments
        /\ IsFiniteSet(SyncScripts) /\ IsFiniteSet(AsyncScripts) /\ SyncScripts \cap AsyncScripts = {}
    BY DeckInputs DEF DeckInputs
  <1>2. \A c \in Configs : \A url \in Addresses[c] : {url.h, url.v} \subseteq Int \ {Undef}
    BY DeckInputs DEF DeckInputs
  <1>3. \A c1, c2 : <<c1, c2>> \in Reconfigured => (c2.fragments => c1.fragments)
    BY <1>1
  <1> QED
    BY <1>1, <1>2, <1>3

LEMMA NoAddress ==
  LET url == Hash("", 0, 0) IN url.h \in Int \ {Undef} /\ url.v \in Int \ {Undef}
  BY DEF Hash, Undef

LEMMA InitInv == Init => IInv
  <1> SUFFICES ASSUME Init PROVE IInv
    OBVIOUS
  <1>0. PICK config \in Configs : \E url \in Addresses[config] \cup {Hash("", 0, 0)} : deck = NewDeck(config, url)
    BY DEF Init
  <1>1. PICK url \in Addresses[config] \cup {Hash("", 0, 0)} : deck = NewDeck(config, url)
    BY <1>0
  <1>2. url.h \in Int \ {Undef} /\ url.v \in Int \ {Undef}
    <2>1. CASE url \in Addresses[config]
      BY <2>1, InputShape
    <2>2. CASE url = Hash("", 0, 0)
      BY Zenon, <2>2, NoAddress
    <2> QED
      BY <2>1, <2>2
  <1>3. scripts = [phase |-> "new", loading |-> {}, toPreload |-> 0]
    BY DEF Init
  <1>4. ScriptsInv
    BY <1>3 DEF ScriptsInv
  <1>5. DeckInv
    BY <1>1, <1>2, <1>3 DEF DeckInv
  <1> QED
    BY <1>4, <1>5 DEF IInv

LEMMA ProceedInv ==
  ASSUME IInv, scripts.phase \in {"new", "loading"}, Proceed(0, {})
  PROVE  IInv'
  <1>1. PICK config, url : /\ config \in Configs /\ url.h \in Int \ {Undef} /\ url.v \in Int \ {Undef}
                               /\ deck = NewDeck(config, url)
    BY DEF IInv, DeckInv
  <1> DEFINE d == Start(deck)
             e == [d EXCEPT !.events = <<>>]
  <1>2. Good(d) /\ d.config = config
    BY <1>1, InputShape, StartEffect
  <1>3. Kept(d, e) /\ deck' = e
    <2>1. deck' = e
      BY DEF Proceed
    <2> HIDE DEF d
    <2> QED
      BY <1>2, <2>1, EventKept DEF Good
  <1> HIDE DEF d, e
  <1>4. scripts' = [phase |-> "started", loading |-> AsyncScripts, toPreload |-> 0]
    BY DEF Proceed
  <1>5. ScriptsInv'
    <2>1. Cardinality(AsyncScripts) - Cardinality(AsyncScripts) = 0
      BY InputShape, FS_CardinalityType
    <2> QED
      BY <1>4, <2>1 DEF ScriptsInv
  <1>6. DeckInv'
    BY <1>1, <1>2, <1>3, <1>4 DEF DeckInv, Kept, Good
  <1> QED
    BY <1>5, <1>6 DEF IInv

LEMMA LoadInv == ASSUME IInv, Load PROVE IInv'
  <1>1. scripts.phase = "new"
    BY DEF Load
  <1>2. CASE SyncScripts = {}
    BY <1>1, <1>2, ProceedInv DEF Load
  <1>3. CASE SyncScripts # {}
    <2>1. /\ scripts' = [phase |-> "loading", loading |-> SyncScripts, toPreload |-> Cardinality(SyncScripts)]
          /\ deck' = deck
      BY <1>3 DEF Load
    <2>2. Cardinality(SyncScripts) \in Nat /\ Cardinality(SyncScripts) > 0
      BY <1>3, InputShape, FS_CardinalityType, FS_EmptySet
    <2>3. ScriptsInv'
      BY <2>1, <2>2 DEF ScriptsInv
    <2>4. DeckInv'
      BY <1>1, <2>1 DEF IInv, DeckInv
    <2> QED
      BY <2>3, <2>4 DEF IInv
  <1> QED
    BY <1>2, <1>3

LEMMA ScriptInv == ASSUME IInv, NEW s, ScriptReady(s) PROVE IInv'
  <1> DEFINE rest == scripts.loading \ {s}
  <1>1. s \in scripts.loading /\ scripts.phase \in {"loading", "started", "ready"}
    BY DEF ScriptReady, IInv, ScriptsInv
  <1>2. /\ IsFiniteSet(scripts.loading) /\ Cardinality(rest) = Cardinality(scripts.loading) - 1
        /\ Cardinality(scripts.loading) \in Nat /\ Cardinality(rest) \in Nat /\ IsFiniteSet(rest)
    <2>1. IsFiniteSet(scripts.loading)
      <3>1. scripts.loading \subseteq SyncScripts \/ scripts.loading \subseteq AsyncScripts
        BY <1>1 DEF IInv, ScriptsInv
      <3> QED
        BY <3>1, InputShape, FS_Subset
    <2> QED
      BY <1>1, <2>1, FS_RemoveElement, FS_CardinalityType
  <1>3. Cardinality(scripts.loading) <= Cardinality(AsyncScripts) \/ ~scripts.loading \subseteq AsyncScripts
    BY InputShape, SubsetCard
  <1>4. CASE scripts.toPreload = 1
    <2>1. scripts.phase = "loading"
      <3>1. Cardinality(AsyncScripts) \in Nat
        BY InputShape, FS_CardinalityType
      <3> QED
        BY <1>1, <1>2, <1>3, <1>4, <3>1 DEF IInv, ScriptsInv
    <2>2. rest = {}
      <3>1. Cardinality(rest) = 0
        BY <1>2, <1>4, <2>1 DEF IInv, ScriptsInv
      <3> QED
        BY <1>2, <3>1, FS_EmptySet
    <2>3. Proceed(0, {})
      BY <1>4, <2>2 DEF ScriptReady
    <2> QED
      BY <2>1, <2>3, ProceedInv
  <1>5. CASE scripts.toPreload # 1
    <2>1. scripts' = [scripts EXCEPT !.loading = rest, !.toPreload = @ - 1] /\ deck' = deck
      BY <1>5 DEF ScriptReady
    <2> HIDE DEF rest
    <2>2. /\ scripts'.loading = rest /\ scripts'.toPreload = scripts.toPreload - 1 /\ scripts'.phase = scripts.phase
          /\ DOMAIN scripts' = {"phase", "loading", "toPreload"}
      BY <2>1 DEF IInv, ScriptsInv
    <2>3. rest \subseteq scripts.loading
      BY DEF rest
    <2>4. ScriptsInv'
      <3>1. CASE scripts.phase = "loading"
        BY <1>2, <1>5, <2>2, <2>3, <3>1 DEF IInv, ScriptsInv
      <3>2. CASE scripts.phase \in {"started", "ready"}
        <4>1. Cardinality(AsyncScripts) \in Nat
          BY InputShape, FS_CardinalityType
        <4> QED
          BY <1>2, <2>2, <2>3, <3>2, <4>1 DEF IInv, ScriptsInv
      <3> QED
        BY <1>1, <3>1, <3>2
    <2>5. DeckInv'
      BY <2>1, <2>2 DEF IInv, DeckInv
    <2> QED
      BY <2>4, <2>5 DEF IInv
  <1> QED
    BY <1>4, <1>5

\* Whatever a handler takes a good deck to is good, and of a configuration there is.
Handled(d) == scripts.phase \in {"started", "ready"} => Good(d) /\ d.config \in Configs

LEMMA KeptHandled ==
  ASSUME IInv, NEW d, Steady(deck) => Kept(deck, d)
  PROVE  Handled(d)
  BY DEF IInv, DeckInv, Handled, Kept, Good

LEMMA UserInv == ASSUME IInv, User PROVE IInv'
  <1> USE DEF Handled
  <1>1. ASSUME NEW d, Handle(d), Steady(deck) => Kept(deck, d) PROVE IInv'
    BY <1>1, KeptHandled, HandleKept
  <1>2. ASSUME NEW key \in Keys, KeyDown(key) PROVE IInv'
    BY <1>1, <1>2, KeyDownKept DEF KeyDown
  <1>3. ASSUME KeyPress PROVE IInv'
    <2>1. "a" \in Keys
      BY DEF Keys
    <2> QED
      BY <1>1, <1>3, <2>1, KeyDownKept DEF KeyPress
  <1>4. ASSUME NEW b \in Directions, ControlClick(b) PROVE IInv'
    BY <1>1, <1>4, ClickKept DEF ControlClick
  <1>5. ASSUME NEW part \in 0 .. Cardinality(HorizontalSlides), ProgressClick(part) PROVE IInv'
    <2>1. part \in Int
      OBVIOUS
    <2> QED
      BY <1>1, <1>5, <2>1, ClickKept DEF ProgressClick
  <1>6. ASSUME NEW n \in 1 .. 2, TouchStart(n) PROVE IInv'
    <2>1. TRUE \in BOOLEAN
      OBVIOUS
    <2> QED
      BY <1>1, <1>6, <2>1, CaptureKept DEF TouchStart
  <1>7. ASSUME NEW gesture, TouchMove(gesture) PROVE IInv'
    BY <1>1, <1>7, TouchKept DEF TouchMove
  <1>8. ASSUME TouchEnd PROVE IInv'
    <2>1. TRUE \in BOOLEAN /\ 1 \in 1 .. 2
      OBVIOUS
    <2> QED
      BY <1>1, <1>8, <2>1, CaptureKept DEF TouchEnd
  <1>9. ASSUME NEW delta \in Int, MouseScroll(delta) PROVE IInv'
    BY <1>1, <1>9, ClickKept DEF MouseScroll
  <1>10. ASSUME NEW s \in Leaves, OverviewSlideClick(s) PROVE IInv'
    BY <1>1, <1>10, ClickKept DEF OverviewSlideClick
  <1>11. ASSUME PlayerClick PROVE IInv'
    BY <1>1, <1>11, ClickKept DEF PlayerClick
  <1>12. ASSUME PreviewLinkClick \/ OverlayClose PROVE IInv'
    BY <1>1, <1>12, OverlayKept DEF PreviewLinkClick, OverlayClose
  <1>13. ASSUME NEW url \in Addresses[deck.config], EnterAddress(url) PROVE IInv'
    <2>1. scripts.phase \in {"started", "ready"}
      BY <1>13 DEF EnterAddress, Handle
    <2>2. url.h \in Int \ {Undef} /\ url.v \in Int \ {Undef}
      BY <2>1, InputShape DEF IInv, DeckInv
    <2> QED
      BY <1>1, <1>13, <2>2, SetHashKept DEF EnterAddress
  <1>14. \A delta \in {-1, 1} : delta \in Int
    OBVIOUS
  <1> QED
    BY <1>2, <1>3, <1>4, <1>5, <1>6, <1>7, <1>8, <1>9, <1>10, <1>11, <1>12, <1>13, <1>14 DEF User

LEMMA ApiInv == ASSUME IInv, Api PROVE IInv'
  <1>1. ASSUME NEW d, Handle(d), Steady(deck) => Kept(deck, d) PROVE IInv'
    BY <1>1, KeptHandled, HandleKept DEF Handled
  <1>2. ASSUME Steady(deck)
        PROVE  /\ Kept(deck, TogglePause(deck)) /\ Kept(deck, ActivateOverview(deck))
               /\ Kept(deck, DeactivateOverview(deck)) /\ Kept(deck, ToggleAutoSlide(deck, deck.autoSlidePaused))
    BY <1>2, PauseKept, ActivateKept, DeactivateKept, AutoSlideKept
  <1>3. ASSUME Steady(deck) PROVE Kept(deck, NextFragment(deck)) /\ Kept(deck, PreviousFragment(deck))
    <2>1. 1 \in Int /\ -1 \in Int
      OBVIOUS
    <2> QED
      BY <1>3, <2>1, FragmentKept DEF NextFragment, PreviousFragment
  <1>4. ASSUME Steady(deck) PROVE Kept(deck, Sync(deck))
    <2>1. deck.config \in ConfigType
      BY <1>4, SteadyShape
    <2> QED
      BY <1>4, <2>1, ConfigureKept DEF Kept, Good
  <1>5. ASSUME Steady(deck), NEW s \in Leaves
        PROVE  Kept(deck, Slide(deck, s[1], IF IsVerticalSlide(s) THEN s[2] ELSE Undef))
    <2> DEFINE v == IF IsVerticalSlide(s) THEN s[2] ELSE Undef
    <2>1. s[1] \in Int /\ v \in Int
      BY LeafShape, IndexShape DEF Undef
    <2> HIDE DEF v
    <2>2. Kept(deck, Slide(deck, s[1], v))
      BY <1>5, <2>1, SlideKept
    <2> QED
      BY <2>2 DEF v
  <1> QED
    BY <1>1, <1>2, <1>3, <1>4, <1>5 DEF Api

LEMMA ReconfigureInv == ASSUME IInv, NEW config \in Configs, Reconfigure(config) PROVE IInv'
  <1> DEFINE d == Configure(deck, config)
  <1>1. Handle(d) /\ <<deck.config, config>> \in Reconfigured /\ scripts.phase \in {"started", "ready"}
    BY DEF Reconfigure, Handle
  <1>2. Steady(deck) /\ deck.config \in Configs
    BY <1>1 DEF IInv, DeckInv, Good
  <1>3. config \in ConfigType /\ (config.fragments => deck.config.fragments)
    BY <1>1, <1>2, InputShape
  <1>4. Good(d) /\ d.config = config
    BY <1>2, <1>3, ConfigureKept
  <1> HIDE DEF d
  <1> QED
    BY <1>1, <1>4, HandleKept

LEMMA UnattendedInv == ASSUME IInv, Unattended PROVE IInv'
  <1>1. ASSUME NEW d, Handle(d), Steady(deck) => Kept(deck, d) PROVE IInv'
    BY <1>1, KeptHandled, HandleKept DEF Handled
  <1>2. ASSUME Ready PROVE IInv'
    <2>1. /\ scripts.phase = "started" /\ scripts' = [scripts EXCEPT !.phase = "ready"] /\ deck' = deck
      BY <1>2 DEF Ready
    <2>2. /\ scripts'.loading = scripts.loading /\ scripts'.toPreload = scripts.toPreload
          /\ scripts'.phase = "ready" /\ DOMAIN scripts' = {"phase", "loading", "toPreload"}
      BY <2>1 DEF IInv, ScriptsInv
    <2>3. ScriptsInv'
      BY <2>1, <2>2 DEF IInv, ScriptsInv
    <2>4. DeckInv'
      BY <2>1, <2>2 DEF IInv, DeckInv
    <2> QED
      BY <2>3, <2>4 DEF IInv
  <1>3. ASSUME HashChange PROVE IInv'
    BY <1>1, <1>3, HashChangeKept DEF HashChange
  <1>4. ASSUME AutoSlideTimeout PROVE IInv'
    BY <1>1, <1>4, TimeoutKept DEF AutoSlideTimeout, Kept, Good
  <1>5. ASSUME ResetTimeout PROVE IInv'
    BY <1>1, <1>5, ResetKept DEF ResetTimeout
  <1>6. ASSUME NEW s \in IframeSlides, IframeLoaded(s) PROVE IInv'
    BY <1>1, <1>6, LoadKept DEF IframeLoaded
  <1> QED
    BY <1>2, <1>3, <1>4, <1>5, <1>6, LoadInv, ScriptInv DEF Unattended

\* The parts of a deck agree, before and after every handler.
THEOREM Invariance == Spec => []IInv
  <1>1. IInv /\ [Next]_vars => IInv'
    <2> SUFFICES ASSUME IInv, [Next]_vars PROVE IInv'
      OBVIOUS
    <2>1. CASE Next
      BY <2>1, UnattendedInv, UserInv, ApiInv, ReconfigureInv DEF Next
    <2>2. CASE UNCHANGED vars
      <3>1. deck' = deck /\ scripts' = scripts
        BY <2>2 DEF vars
      <3>2. ScriptsInv'
        BY <3>1 DEF IInv, ScriptsInv
      <3>3. DeckInv'
        BY <3>1 DEF IInv, DeckInv
      <3> QED
        BY <3>2, <3>3 DEF IInv
    <2> QED
      BY <2>1, <2>2
  <1> QED
    BY <1>1, InitInv, PTL DEF Spec

-----------------------------------------------------------------------------
(* What follows from it *)

\* Either way the parts of the deck agree.
LEMMA DeckAgrees ==
  ASSUME IInv
  PROVE  /\ Core(deck) /\ Cued(deck) /\ deck.config \in Configs
         /\ deck.cur # None <=> scripts.phase \in {"started", "ready"}
         /\ deck.cur # None => Good(deck)
  <1>1. CASE scripts.phase \in {"new", "loading"}
    <2>1. PICK config, url : /\ config \in Configs /\ url.h \in Int \ {Undef} /\ url.v \in Int \ {Undef}
                                 /\ deck = NewDeck(config, url)
      BY <1>1 DEF IInv, DeckInv
    <2> DEFINE cls == [s \in Sections |-> ""]
    <2>2. NoneEntered(cls) /\ deck = Unopened(config, url, cls)
      <3>1. NoneEntered(cls)
        BY DEF NoneEntered
      <3>2. NewDeck(config, url) = Unopened(config, url, cls)
        <4> DEFINE n == NewDeck(config, url)
        <4>1. n = [x \in DOMAIN n |-> n[x]] /\ n.cls = cls
          BY DEF NewDeck
        <4> HIDE DEF n
        <4>2. [n EXCEPT !.cls = n.cls] = n
          BY <4>1
        <4>3. [n EXCEPT !.cls = cls] = n
          BY <4>1, <4>2
        <4> QED
          BY <4>3 DEF n, Unopened
      <3> HIDE DEF cls
      <3> QED
        BY <2>1, <3>1, <3>2
    <2> HIDE DEF cls
    <2>3. config \in ConfigType
      BY <2>1, InputShape
    <2>4. Core(deck) /\ Cued(deck) /\ deck.cur = None /\ deck.config = config
      BY <2>1, <2>2, <2>3, NewEffect
    <2> QED
      BY <1>1, <2>1, <2>4
  <1>2. CASE scripts.phase \in {"started", "ready"}
    BY <1>2 DEF IInv, DeckInv, Good, Steady
  <1>3. scripts.phase \in {"new", "loading", "started", "ready"}
    BY DEF IInv, ScriptsInv
  <1> QED
    BY <1>1, <1>2, <1>3

\* The deck moves on by itself exactly where it plays: cueAutoSlide is called, or
\* the timeout is cancelled, wherever something it depends on changes.
THEOREM AutoSlideCue == Spec => []AutoSlideIsCued
  <1>1. IInv => AutoSlideIsCued
    BY DeckAgrees DEF AutoSlideIsCued, Cued, Begun
  <1> QED
    BY <1>1, Invariance, PTL

\* updateControls is called wherever a way opens or closes.
THEOREM FreshControls == Spec => []ControlsAreFresh
  <1>1. IInv => ControlsAreFresh
    BY DeckAgrees DEF ControlsAreFresh, ControlsAgree, Good, Steady, Begun
  <1> QED
    BY <1>1, Invariance, PTL

\* The deck starts when the last script it waits for has loaded, and only once.
THEOREM StartWhenLoaded == Spec => []StartsWhenLoaded
  <1>1. IInv => StartsWhenLoaded
    <2> SUFFICES ASSUME IInv PROVE StartsWhenLoaded
      OBVIOUS
    <2>1. Begun <=> scripts.phase \in {"started", "ready"}
      BY DeckAgrees DEF Begun
    <2>2. Begun => scripts.loading \cap SyncScripts = {}
      BY <2>1, InputShape DEF IInv, ScriptsInv
    <2> QED
      BY <2>1, <2>2 DEF StartsWhenLoaded
  <1> QED
    BY <1>1, Invariance, PTL

\* Media, iframes and background videos are stopped when their slide is left, and an
\* iframe that was still loading then is not started when it has loaded.
THEOREM OnlyCurrentMedia == Spec => []OnlyCurrentPlays
  <1>1. IInv => OnlyCurrentPlays
    <2> SUFFICES ASSUME IInv PROVE OnlyCurrentPlays
      OBVIOUS
    <2>1. MediaAgree(deck) /\ BackgroundAgrees(deck)
      BY DeckAgrees DEF Core
    <2> QED
      BY <2>1 DEF OnlyCurrentPlays, MediaAgree, BackgroundAgrees
  <1> QED
    BY <1>1, Invariance, PTL

\* Whichever way the deck came to its slide, the fragments before are shown and those
\* after are not, and of the slide's own a first part of the groups.
THEOREM FragmentOrder == Spec => []FragmentsFollowPlace
  <1>1. IInv => FragmentsFollowPlace
    <2> SUFFICES ASSUME IInv, Begun, deck.config.fragments
                 PROVE  /\ \A f \in Fragments : /\ Precedes(f[1], deck.cur) => f \in deck.visible
                                                /\ Precedes(deck.cur, f[1]) => f \notin deck.visible
                        /\ \A f, g \in FragmentsOf(deck.cur) :
                             f \in deck.visible /\ deck.fidx[g] <= deck.fidx[f] => g \in deck.visible
      BY DEF FragmentsFollowPlace
    <2>1. Good(deck) /\ deck.cur # None
      BY DeckAgrees DEF Begun
    <2>2. NeighboursShown(deck) /\ PrefixShown(deck) /\ deck.cur \in Leaves
      BY <2>1, SteadyShape DEF Good, Sorted
    <2>3. \A f \in FragmentsOf(deck.cur) : f \in Fragments /\ f[1] = deck.cur
      BY <2>2, FragmentShape
    <2> QED
      BY <2>1, <2>2, <2>3 DEF NeighboursShown, PrefixShown
  <1> QED
    BY <1>1, Invariance, PTL

\* A stack that was left resumes on the slide it was left on, until slide sends the
\* deck home and resets it.
THEOREM StackResumption == Spec => []StackIsResumed
  <1>1. IInv => StackIsResumed
    <2> SUFFICES ASSUME IInv, NEW h \in Stacks, Begun, deck.indexh # h
                 PROVE  deck.prevV[h] \in {0, Cardinality({s \in VerticalSlides(h) : deck.cls[s] = "past"})}
      BY DEF StackIsResumed
    <2>1. ClassesAgree(deck) /\ deck.cur # None
      BY DeckAgrees DEF Core, Begun
    <2> QED
      BY <2>1 DEF ClassesAgree, PastIn
  <1> QED
    BY <1>1, Invariance, PTL

\* The page has the names of the current slide's state, if no slide is given the
\* same name twice.
THEOREM RootState == ASSUME NamesOnce PROVE Spec => []RootHasState
  <1>1. IInv => RootHasState
    <2> SUFFICES ASSUME IInv PROVE RootHasState
      OBVIOUS
    <2>1. StateAgrees(deck)
      BY DeckAgrees DEF Core
    <2> QED
      BY <2>1 DEF RootHasState, StateAgrees, NamesOf
  <1> QED
    BY <1>1, Invariance, PTL

\* The address names the slide that is shown, once the hashchange events are handled,
\* if writeURL leaves the ids of the slides as they are and no two share one.
THEOREM AddressPlace == ASSUME IdsSurvive PROVE Spec => []AddressIsPlace
  <1>1. IInv => AddressIsPlace
    BY DeckAgrees DEF AddressIsPlace, AddressAgrees, Good, Steady, Begun
  <1> QED
    BY <1>1, Invariance, PTL

LEMMA UnionCard ==
  ASSUME NEW S, IsFiniteSet(S), NEW T, IsFiniteSet(T), S \cap T = {}
  PROVE  Cardinality(S \cup T) = Cardinality(S) + Cardinality(T)
  <1>1. Cardinality(S) \in Nat /\ Cardinality(T) \in Nat
    BY FS_CardinalityType
  <1>2. Cardinality(S \cup T) = Cardinality(S) + Cardinality(T) - Cardinality(S \cap T)
    BY Zenon, FS_Union
  <1>3. Cardinality(S \cap T) = 0
    BY Zenon, FS_EmptySet
  <1> QED
    BY <1>1, <1>2, <1>3

\* The present class is on the current slide and its stack alone, so that counting up
\* to it counts the slides before the current one.
LEMMA PastCountEffect ==
  ASSUME NEW d, Core(d), d.cur # None
  PROVE  GetSlidePastCount(d) = Rank(d.cur)
  <1> DEFINE h == d.indexh
             v == d.indexv
             Present(k) == d.cls[<<k>>] = "present" \/ \E s \in VerticalSlides(k) : d.cls[s] = "present"
             AheadIn(k) == {s \in VerticalSlides(k) : ~ \E t \in VerticalSlides(k) :
                                                        t[2] <= s[2] /\ d.cls[t] = "present"}
             h0 == Min({k \in DOMAIN Verticals : Present(k)} \cup {Cardinality(HorizontalSlides)})
             Stopped == {s \in Leaves : s[1] < h}
             Above == {s \in VerticalSlides(h) : s[2] < v}
  <1>1. /\ h \in DOMAIN Verticals /\ v \in IndicesV(h) /\ v \in Nat /\ h \in Nat /\ h < Length
        /\ d.cur \in Leaves /\ d.cur[1] = h /\ (IsVerticalSlide(d.cur) <=> h \in Stacks)
        /\ h \in Stacks => d.cur = <<h, v>> /\ d.cur \in VerticalSlides(h)
        /\ h \notin Stacks => d.cur = <<h>>
    <2>1. Placed(d)
      BY DEF Core
    <2>2. h \in DOMAIN Verticals /\ v \in IndicesV(h) /\ d.cur = GetSlide(h, v)
      BY <2>1 DEF Placed
    <2>3. v \in Nat /\ h \in Nat /\ h < Length
      BY <2>2, Shape, IndexShape
    <2>4. d.cur \in Leaves /\ d.cur[1] = h /\ (IsVerticalSlide(d.cur) <=> h \in Stacks)
      BY <2>2, SlideShape
    <2>5. h \in Stacks => d.cur = <<h, v>> /\ d.cur \in VerticalSlides(h)
      <3> SUFFICES ASSUME h \in Stacks PROVE d.cur = <<h, v>> /\ d.cur \in VerticalSlides(h)
        OBVIOUS
      <3>1. d.cur = <<h, v>>
        BY <2>2 DEF GetSlide
      <3>2. GetSlide(h, v) \in VerticalSlides(h)
        BY <2>2, SlideShape
      <3> QED
        BY Zenon, <2>2, <3>1, <3>2
    <2>6. h \notin Stacks => d.cur = <<h>>
      BY <2>2 DEF GetSlide
    <2> QED
      BY <2>2, <2>3, <2>4, <2>5, <2>6
  <1>2. /\ \A k \in DOMAIN Verticals : d.cls[<<k>>] = "present" <=> k = h
        /\ \A k \in Stacks : \A s \in VerticalSlides(k) : d.cls[s] = "present" => s = d.cur
        /\ h \in Stacks => d.cls[d.cur] = "present"
    BY DEF Core, ClassesAgree
  <1>3. {k \in DOMAIN Verticals : Present(k)} = {h}
    <2>1. ASSUME NEW k \in DOMAIN Verticals, NEW s \in VerticalSlides(k), d.cls[s] = "present"
          PROVE  k = h
      <3>1. k \in Stacks /\ s[1] = k
        BY VerticalShape
      <3> QED
        BY <1>1, <1>2, <2>1, <3>1
    <2> QED
      BY <1>1, <1>2, <2>1
  <1>4. h0 = h
    <2>1. h0 = Min({h, Length})
      <3>1. {h} \cup {Length} = {h, Length}
        OBVIOUS
      <3> QED
        BY Zenon, <1>3, <3>1, Shape
    <2>2. h \in Int /\ Length \in Int
      BY <1>1, Shape
    <2>3. Min({h, Length}) = IF h < Length THEN h ELSE Length
      BY <2>2, MaxMin
    <2> QED
      BY <1>1, <2>1, <2>3
  <1>5. AheadIn(h) = Above
    <2>1. CASE h \in Stacks
      <3>1. \A t \in VerticalSlides(h) : t[2] \in Nat
        BY <1>1, VerticalShape, IndexShape
      <3>2. \A t \in VerticalSlides(h) : d.cls[t] = "present" <=> t = d.cur
        BY <1>2, <2>1
      <3>3. d.cur \in VerticalSlides(h) /\ d.cur[2] = v
        BY <1>1, <2>1
      <3>4. \A s \in VerticalSlides(h) :
              (\E t \in VerticalSlides(h) : t[2] <= s[2] /\ d.cls[t] = "present") <=> v <= s[2]
        BY <3>2, <3>3
      <3>5. \A s \in VerticalSlides(h) : ~(v <= s[2]) <=> s[2] < v
        BY <1>1, <3>1
      <3> QED
        BY <3>4, <3>5
    <2>2. CASE h \notin Stacks
      BY <1>1, <2>2, SectionShape
    <2> QED
      BY <2>1, <2>2
  <1>6. GetSlidePastCount(d) = Cardinality(Stopped) + Cardinality(Above)
    <2>1. GetSlidePastCount(d) = Cardinality({s \in Leaves : s[1] < h0})
                                 + (IF h0 \in DOMAIN Verticals THEN Cardinality(AheadIn(h0)) ELSE 0)
      BY DEF GetSlidePastCount
    <2> HIDE DEF h0, AheadIn, Above
    <2> QED
      BY <1>1, <1>4, <1>5, <2>1
  <1>7. {t \in Leaves : Precedes(t, d.cur)} = Stopped \cup Above
    <2>1. ASSUME NEW t \in Leaves, Precedes(t, d.cur) PROVE t \in Stopped \cup Above
      <3>1. CASE t[1] < h
        BY <3>1
      <3>2. CASE t[1] = h /\ IsVerticalSlide(t) /\ IsVerticalSlide(d.cur) /\ t[2] < d.cur[2]
        <4>1. t \in VerticalSlides(h)
          BY <3>2, LeafShape
        <4>2. d.cur[2] = v
          <5>1. h \in Stacks
            BY Zenon, <1>1, <3>2
          <5>2. d.cur = <<h, v>>
            BY Zenon, <1>1, <5>1
          <5> QED
            BY <5>2
        <4> QED
          BY <3>2, <4>1, <4>2
      <3> QED
        BY <1>1, <2>1, <3>1, <3>2 DEF Precedes
    <2>2. ASSUME NEW t \in Above PROVE t \in Leaves /\ Precedes(t, d.cur)
      <3>1. t \in Leaves /\ t[1] = h /\ IsVerticalSlide(t) /\ h \in Stacks
        BY <1>1, VerticalShape
      <3>2. d.cur[2] = v
        BY <1>1, <3>1
      <3> QED
        BY <1>1, <3>1, <3>2 DEF Precedes
    <2>3. ASSUME NEW t \in Stopped PROVE t \in Leaves /\ Precedes(t, d.cur)
      BY <1>1 DEF Precedes
    <2> HIDE DEF Stopped, Above
    <2> QED
      BY <2>1, <2>2, <2>3
  <1>8. IsFiniteSet(Stopped) /\ IsFiniteSet(Above) /\ Stopped \cap Above = {}
    <2>1. Above \subseteq Leaves /\ \A s \in Above : s[1] = h
      BY <1>1, VerticalShape
    <2>2. \A s \in Stopped : s[1] # h
      BY <1>1
    <2> QED
      BY <2>1, <2>2, FiniteSections, FS_Subset
  <1>9. Cardinality(Stopped \cup Above) = Cardinality(Stopped) + Cardinality(Above)
    <2> HIDE DEF Stopped, Above
    <2> QED
      BY <1>8, UnionCard
  <1> QED
    BY Zenon, <1>6, <1>7, <1>9 DEF Rank

\* However the deck was moved about, the number and the progress bar of the slide count
\* the slides before it, and no slide that was left.
THEOREM PastCount == Spec => []PastCountIsPlace
  <1>1. IInv => PastCountIsPlace
    BY DeckAgrees, PastCountEffect DEF PastCountIsPlace, Begun
  <1> QED
    BY <1>1, Invariance, PTL

\* Every variable of reveal.js, and every count of the loading of its scripts, stays in
\* its range.
THEOREM TypeCorrect == Spec => []TypeOK
  <1>1. IInv => TypeOK
    <2> SUFFICES ASSUME IInv PROVE TypeOK
      OBVIOUS
    <2>1. Core(deck) /\ deck.config \in Configs
      BY DeckAgrees
    <2>2. /\ deck.indexh \in {Undef} \cup DOMAIN Verticals /\ deck.indexv \in {Undef} \cup Nat
          /\ deck.cur \in Leaves \cup {None}
      BY <2>1, PlacedShape DEF Core
    <2>3. deck.cls \in [Sections -> {"", "past", "present", "future"}] /\ deck.prevV \in [Stacks -> Nat]
      <3>1. ClassesTyped(deck) /\ deck.prevV \in [Stacks -> Nat]
        BY <2>1 DEF Core, ClassesAgree
      <3> QED
        BY Zenon, <3>1 DEF ClassesTyped
    <2>4. /\ deck.fidx \in [Fragments -> Nat \cup {Undef}]
          /\ deck.visible \subseteq Fragments /\ deck.curfrag \subseteq deck.visible
      BY <2>1 DEF Core, FragmentsTyped
    <2>5. /\ {deck.overview, deck.paused, deck.autoSlidePaused, deck.timer,
              deck.hashEvent, deck.resetStacks} \subseteq BOOLEAN
          /\ deck.autoSlide \in {"on", "off"} /\ deck.player \in {"none", "playing", "stopped"}
          /\ deck.overlay \in {"none", "help", "preview"}
          /\ deck.enabled \subseteq Directions /\ deck.overviewClicks \in {{}, Leaves}
          /\ deck.touch \in [captured : BOOLEAN, startCount : 0 .. 2]
      <3>1. ModesTyped(deck) /\ CueTyped(deck) /\ SwitchesTyped(deck)
        BY <2>1 DEF Core, SwitchesTyped
      <3>2. deck.enabled \subseteq Directions /\ deck.hashEvent \in BOOLEAN /\ deck.resetStacks \in BOOLEAN
        BY <3>1 DEF SwitchesTyped
      <3>3. /\ {deck.overview, deck.paused, deck.autoSlidePaused} \subseteq BOOLEAN
            /\ deck.overlay \in {"none", "help", "preview"} /\ deck.overviewClicks \in {{}, Leaves}
            /\ deck.touch \in [captured : BOOLEAN, startCount : 0 .. 2]
        BY Zenon, <3>1 DEF ModesTyped
      <3>4. /\ deck.autoSlide \in {"on", "off"} /\ deck.player \in {"none", "playing", "stopped"}
            /\ deck.timer \in BOOLEAN
        BY Zenon, <3>1 DEF CueTyped, AutoSlides
      <3> QED
        BY Zenon, <3>2, <3>3, <3>4
    <2>6. /\ deck.shown \subseteq Sections /\ deck.bgVideo \subseteq VideoBackgrounds
          /\ deck.iframe \in [IframeSlides -> {"blank", "loading", "loaded"}]
      <3>1. DisplayTyped(deck) /\ MediaAgree(deck)
        BY <2>1 DEF Core, BackgroundAgrees
      <3> QED
        BY Zenon, <3>1 DEF DisplayTyped, MediaAgree
    <2>7. /\ scripts.phase \in {"new", "loading", "started", "ready"}
          /\ scripts.loading \subseteq SyncScripts \cup AsyncScripts
          /\ scripts.toPreload \in -Cardinality(AsyncScripts) .. Cardinality(SyncScripts)
      <3>1. ScriptsInv
        BY DEF IInv
      <3>2. Cardinality(SyncScripts) \in Nat /\ Cardinality(AsyncScripts) \in Nat
        BY InputShape, FS_CardinalityType
      <3>3. CASE scripts.phase = "new"
        BY <3>1, <3>2, <3>3 DEF ScriptsInv
      <3>4. CASE scripts.phase = "loading"
        <4>1. scripts.loading \subseteq SyncScripts /\ scripts.toPreload = Cardinality(scripts.loading)
          BY <3>1, <3>4 DEF ScriptsInv
        <4>2. Cardinality(scripts.loading) \in Nat /\ Cardinality(scripts.loading) <= Cardinality(SyncScripts)
          BY <4>1, InputShape, SubsetCard
        <4> QED
          BY <3>2, <3>4, <4>1, <4>2
      <3>5. CASE scripts.phase \in {"started", "ready"}
        <4>1. /\ scripts.loading \subseteq AsyncScripts
              /\ scripts.toPreload = Cardinality(scripts.loading) - Cardinality(AsyncScripts)
          BY <3>1, <3>5 DEF ScriptsInv
        <4>2. Cardinality(scripts.loading) \in Nat /\ Cardinality(scripts.loading) <= Cardinality(AsyncScripts)
          BY <4>1, InputShape, SubsetCard
        <4> QED
          BY <3>2, <3>5, <4>1, <4>2
      <3> QED
        BY <3>1, <3>3, <3>4, <3>5 DEF ScriptsInv
    <2> QED
      BY Zenon, <2>1, <2>2, <2>3, <2>4, <2>5, <2>6, <2>7 DEF TypeOK
  <1> QED
    BY <1>1, Invariance, PTL

-----------------------------------------------------------------------------
(* Going on, and back again *)

\* A deck that plays by itself gets on with every timeout, from the first slide
\* to the end: the timeout fires where navigateNext has somewhere to go, and where
\* it has not, it is not set again.  A deck that loops and has one slide would
\* stand still, with the timeout set for ever.
THEOREM AutoPlay == ASSUME LoopsOverMore PROVE Spec => []AutoPlayAdvances
  <1> DEFINE a == [deck EXCEPT !.timer = FALSE]
             e == Go(a, NavigateNext(a))
             then == OnAutoSlideTimeout(deck)
  <1>1. IInv => AutoPlayAdvances
    <2> SUFFICES ASSUME IInv, deck.timer
                 PROVE  \/ Rank(then.cur) > Rank(deck.cur)
                        \/ then.cur = deck.cur /\ deck.visible \subseteq then.visible
                             /\ deck.visible # then.visible
                        \/ deck.config.loop /\ Rank(then.cur) < Rank(deck.cur) /\ IsLastSlide(deck)
                        \/ IsLastSlide(deck) /\ ~AvailableFragments(deck).next /\ ~then.timer
      BY DEF AutoPlayAdvances
    <2>1. Good(deck) /\ deck.config \in Configs /\ ~deck.overview
      BY DeckAgrees DEF Cued
    <2>2. Steady(deck) /\ Steady(a) /\ Changes(deck, a, {"timer"})
      BY <2>1, TimerOff DEF Good
    <2>3. then = CueAutoSlide(e)
      BY DEF OnAutoSlideTimeout, Navigate
    <2> HIDE DEF a, e, then
    <2>4. /\ a.cur = deck.cur /\ a.config = deck.config /\ a.visible = deck.visible
          /\ a.overview = deck.overview
      BY <2>2 DEF Changes, Fields
    <2>5. /\ AvailableFragments(a) = AvailableFragments(deck)
          /\ IsLastSlide(a) <=> IsLastSlide(deck)
      BY <2>4 DEF AvailableFragments, IsLastSlide
    <2>6. Kept(a, e)
      <3>1. NavigateNext(a).h \in Int /\ NavigateNext(a).v \in Int /\ NavigateNext(a).fragment \in Int
        BY <2>2, WayShape
      <3> QED
        BY <2>2, <3>1, GoKept DEF e
    <2>7. Steady(e) /\ then.cur = e.cur /\ then.visible = e.visible
      <3>1. Steady(e)
        BY <2>6 DEF Kept
      <3>2. Changes(e, then, {"timer", "autoSlide", "player"})
        BY <2>3, <3>1, SteadyShape, CueChanges
      <3> QED
        BY <3>1, <3>2 DEF Changes, Fields
    <2>8. deck.cur \in Leaves /\ e.cur \in Leaves
      BY <2>2, <2>7, SteadyShape
    <2>9. CASE AvailableFragments(a).next
      <3> DEFINE b == NavigateFragment(a, NoIndex, 1)
      <3>1. /\ Changes(a, b, {"fidx", "visible", "curfrag", "enabled", "events"})
            /\ a.visible \subseteq b.visible /\ b.visible # a.visible
        BY <2>2, <2>9, NextFragmentEffect
      <3>2. NavigateNext(a).fragment = 1 /\ NavigateNext(a).inOverview
        BY <2>2, NextWay
      <3>3. e = b
        BY <3>1, <3>2 DEF e, Go, Follow, Moved
      <3> HIDE DEF b
      <3>4. b.cur = a.cur
        BY <3>1 DEF Changes, Fields
      <3> QED
        BY <2>4, <2>7, <3>1, <3>3, <3>4
    <2>10. CASE ~AvailableFragments(a).next
      <3>1. \/ Precedes(a.cur, e.cur)
            \/ a.config.loop /\ IsLastSlide(a) /\ e.cur = GetSlide(0, 0)
            \/ /\ ~a.config.loop /\ IsLastSlide(a)
               /\ Steady(e) /\ IsLastSlide(e) /\ ~AvailableFragments(e).next /\ ~e.config.loop
        BY <2>1, <2>2, <2>4, <2>10, NextSlide DEF e
      <3>2. CASE Precedes(a.cur, e.cur)
        <4>1. Rank(deck.cur) < Rank(e.cur)
          BY <2>4, <2>8, <3>2, RankOrder
        <4>2. Rank(deck.cur) \in Nat /\ Rank(e.cur) \in Nat
          BY FiniteSections, SubsetCard DEF Rank
        <4> QED
          BY <2>7, <4>1, <4>2
      <3>3. CASE a.config.loop /\ IsLastSlide(a) /\ e.cur = GetSlide(0, 0)
        <4>1. PICK s \in Leaves : s # GetSlide(0, 0)
          BY <2>1, <2>4, <3>3 DEF LoopsOverMore
        <4>2. Precedes(GetSlide(0, 0), s) /\ GetSlide(0, 0) \in Leaves
          BY <4>1, FirstAndLast
        <4>3. deck.cur # GetSlide(0, 0)
          <5> SUFFICES ASSUME deck.cur = GetSlide(0, 0) PROVE FALSE
            OBVIOUS
          <5>1. /\ deck.cur[1] = Length - 1
                /\ IsVerticalSlide(deck.cur) => deck.cur[2] = Verticals[deck.cur[1]] - 1
            BY <2>5, <3>3, Shape DEF IsLastSlide
          <5>2. Precedes(s, GetSlide(0, 0))
            BY <2>8, <4>1, <5>1, FirstAndLast
          <5>3. Rank(s) < Rank(GetSlide(0, 0)) /\ Rank(GetSlide(0, 0)) < Rank(s)
            BY <4>1, <4>2, <5>2, RankOrder
          <5>4. Rank(s) \in Nat /\ Rank(GetSlide(0, 0)) \in Nat
            BY FiniteSections, SubsetCard DEF Rank
          <5> QED
            BY <5>3, <5>4
        <4>4. Rank(e.cur) < Rank(deck.cur)
          BY <2>8, <3>3, <4>2, <4>3, FirstAndLast, RankOrder
        <4> QED
          BY <2>4, <2>5, <2>7, <3>3, <4>4
      <3>4. CASE /\ ~a.config.loop /\ IsLastSlide(a)
                 /\ Steady(e) /\ IsLastSlide(e) /\ ~AvailableFragments(e).next /\ ~e.config.loop
        <4>1. ~then.timer
          BY <2>3, <3>4, CueAtEnd
        <4> QED
          BY <2>5, <2>10, <3>4, <4>1
      <3> QED
        BY <3>1, <3>2, <3>3, <3>4
    <2> QED
      BY <2>9, <2>10
  <1> QED
    BY <1>1, Invariance, PTL

\* Going on and back again: a fragment shown is the one that is hidden; on the way
\* to the next slide and back the fragments of both stay as they are, all of them
\* visible on the one and none on the other.
THEOREM PrevUndo == Spec => []PrevUndoesNext
  <1> DEFINE m == Go(deck, NavigateNext(deck))
             on == Navigate(deck, "next")
             back == Navigate(on, "prev")
  <1>1. IInv => PrevUndoesNext
    <2> SUFFICES ASSUME IInv, Begun, ~deck.overview, deck.config.fragments,
                        ~(deck.config.loop /\ IsLastSlide(deck)),
                        \A h \in Stacks : GetPreviousVerticalIndex(deck, h) = 0,
                        on.cur # deck.cur \/ on.visible # deck.visible
                 PROVE  back.cur = deck.cur /\ back.visible = deck.visible
      BY DEF PrevUndoesNext
    <2>1. Steady(deck)
      BY DeckAgrees DEF Begun, Good
    <2>2. on = CueAutoSlide(m)
      BY DEF Navigate
    <2>3. back = Go(on, NavigatePrev(on))
      <3> HIDE DEF on
      <3> QED
        BY DEF Navigate
    <2>4. CASE AvailableFragments(deck).next
      <3> HIDE DEF on, back
      <3> QED
        BY <2>1, <2>2, <2>3, <2>4, BackFromFragment
    <2>5. CASE ~AvailableFragments(deck).next /\ NavigateNext(deck).open
      <3> HIDE DEF on, back
      <3> QED
        BY <2>1, <2>2, <2>3, <2>5, BackFromSlide
    <2>6. CASE ~AvailableFragments(deck).next /\ ~NavigateNext(deck).open
      <3> DEFINE a == NavigateFragment(deck, NoIndex, 1)
      <3>1. /\ Changes(deck, a, {"fidx", "visible", "curfrag", "enabled", "events"}) /\ Kept(deck, a)
            /\ a.visible = deck.visible
        BY <2>1, <2>6, NextFragmentEffect
      <3>2. NavigateNext(deck).fragment = 1 /\ NavigateNext(deck).inOverview
        BY <2>1, NextWay
      <3>3. m = a
        BY <2>6, <3>1, <3>2 DEF Go, Follow
      <3> HIDE DEF a, m, on, back
      <3>4. a.cur = deck.cur
        BY <3>1 DEF Changes, Fields
      <3>5. Changes(m, on, {"timer", "autoSlide", "player"})
        BY <2>2, <3>1, <3>3, SteadyShape, CueChanges DEF Kept
      <3>6. on.cur = deck.cur /\ on.visible = deck.visible
        BY <3>1, <3>3, <3>4, <3>5 DEF Changes, Fields
      <3> QED
        BY <3>6
    <2> QED
      BY <2>4, <2>5, <2>6
  <1> QED
    BY <1>1, Invariance, PTL
=============================================================================
