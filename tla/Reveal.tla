------------------------------- MODULE Reveal -------------------------------
(***************************************************************************)
(* The functions of reveal.js that move through a deck and the handlers of *)
(* the events it listens to: each takes the deck as it is and gives the    *)
(* deck as the whole function leaves it.                                   *)
(***************************************************************************)
EXTENDS Slides

\* The options that initialize and configure read
ConfigType ==
  [rtl : BOOLEAN, loop : BOOLEAN, history : BOOLEAN, fragments : BOOLEAN,
   overview : BOOLEAN, pause : BOOLEAN, autoSlide : {"on", "off"},
   autoSlideStoppable : BOOLEAN, keyboard : BOOLEAN, touch : BOOLEAN,
   mouseWheel : BOOLEAN, controls : BOOLEAN, progress : BOOLEAN, help : BOOLEAN,
   previewLinks : BOOLEAN, receiver : BOOLEAN, viewDistance : Nat]

Hash(name, h, v) == [name |-> name, h |-> h, v |-> v]

\* A page that has been loaded, before Reveal.initialize
NewDeck(config, hash) ==
  [config |-> config, indexh |-> Undef, indexv |-> Undef, cur |-> None,
   cls |-> [s \in Sections |-> ""], prevV |-> [h \in Stacks |-> 0],
   fidx |-> [f \in Fragments |-> FragmentIndices[f[1]][f[2]]], visible |-> {}, curfrag |-> {},
   overview |-> FALSE, paused |-> FALSE, overlay |-> "none",
   autoSlide |-> "off", autoSlidePaused |-> FALSE, timer |-> FALSE, player |-> "none",
   shown |-> Sections, state |-> <<>>, root |-> {}, enabled |-> {},
   bgCls |-> [s \in Sections |-> ""], bgVideo |-> {}, bgPlaying |-> {}, prevBg |-> None,
   playing |-> {}, iframe |-> [l \in IframeSlides |-> "blank"], onload |-> {}, started |-> {},
   listeners |-> {}, overviewClicks |-> {}, touch |-> [captured |-> FALSE, startCount |-> 0],
   hash |-> hash, hashEvent |-> FALSE, resetStacks |-> FALSE, events |-> <<>>]

-----------------------------------------------------------------------------
(* Automatic sliding *)

IsLastSlide(d) ==
  /\ d.cur # None
  /\ d.cur[1] = Cardinality(HorizontalSlides) - 1
  /\ IsVerticalSlide(d.cur) => d.cur[2] = Verticals[d.cur[1]] - 1

\* The setting that counts for the current slide: of the first current fragment,
\* of the slide, of its stack, of the deck
AutoSlideOf(d) ==
  LET now == d.curfrag \cap FragmentsOf(d.cur)
      ofFragment == IF now = {} THEN ""
                    ELSE FragmentAutoSlide[d.cur][Min({f[2] : f \in now})]
      ofParent == IF IsVerticalSlide(d.cur) THEN SlideAutoSlide[<<d.cur[1]>>] ELSE ""
  IN IF ofFragment # "" THEN ofFragment
     ELSE IF SlideAutoSlide[d.cur] # "" THEN SlideAutoSlide[d.cur]
     ELSE IF ofParent # "" THEN ofParent ELSE d.config.autoSlide

BugCancelAutoSlide(d) == d
CancelAutoSlide(d) == [d EXCEPT !.timer = FALSE]

SetPlaying(d, value) ==
  [d EXCEPT !.player = IF @ = "none" THEN @ ELSE IF value THEN "playing" ELSE "stopped"]

CueAutoSlide(d) ==
  LET Due(auto) ==
        /\ auto = "on" /\ ~d.autoSlidePaused /\ ~d.paused /\ ~d.overview
        /\ (~IsLastSlide(d) \/ AvailableFragments(d).next \/ d.config.loop)
      Cue(auto, due) == SetPlaying([d EXCEPT !.autoSlide = auto, !.timer = due], due)
      CueFor(auto) == Cue(auto, Due(auto))
  IN IF d.cur = None THEN CancelAutoSlide(d) ELSE CueFor(AutoSlideOf(d))

PauseAutoSlide(d) ==
  IF d.autoSlide = "on" /\ ~d.autoSlidePaused
  THEN SetPlaying([DispatchEvent([d EXCEPT !.autoSlidePaused = TRUE], "autoslidepaused")
                     EXCEPT !.timer = FALSE], FALSE)
  ELSE d

ResumeAutoSlide(d) ==
  IF d.autoSlide = "on" /\ d.autoSlidePaused
  THEN CueAutoSlide(DispatchEvent([d EXCEPT !.autoSlidePaused = FALSE], "autoslideresumed"))
  ELSE d

ToggleAutoSlide(d, resume) == IF resume THEN ResumeAutoSlide(d) ELSE PauseAutoSlide(d)

-----------------------------------------------------------------------------
(* The address of the page.  Setting the hash raises hashchange later on. *)

SetHash(d, url) == [d EXCEPT !.hash = url, !.hashEvent = @ \/ url # d.hash]

WriteURL(d) ==
  IF ~d.config.history \/ d.cur = None THEN d
  ELSE LET id == Slug[SlideId[d.cur]]
       IN SetHash(d, IF id # "" THEN Hash(id, 0, 0) ELSE Hash("", d.indexh, d.indexv))

-----------------------------------------------------------------------------
(* Moving to a slide *)

\* Gives the root element the names of the new state it does not have from the
\* state before, and takes the others of that one away
BugApplyState(d, before) ==
  [d EXCEPT !.root = (@ \cup {d.state[i] : i \in DOMAIN d.state})
                       \ {before[i] : i \in DOMAIN before}]
ApplyState(d, before) ==
  LET Count(s, n) == Cardinality({i \in DOMAIN s : s[i] = n})
      names == {before[i] : i \in DOMAIN before} \cup {d.state[i] : i \in DOMAIN d.state}
  IN [d EXCEPT !.root = (@ \cup {n \in names : Count(d.state, n) > Count(before, n)})
                           \ {n \in names : Count(before, n) > Count(d.state, n)}]

\* The previous slide is present no longer; on the home slide the stacks are
\* going to be reset
BugLeavePrevious(d, prev) ==
  IF prev = None THEN d ELSE [d EXCEPT !.resetStacks = @ \/ d.cls[<<0>>] = "present"]
LeavePrevious(d, prev) ==
  IF prev = None THEN d
  ELSE [d EXCEPT !.cls[prev] = IF @ = "present" THEN "" ELSE @,
                 !.resetStacks = @ \/ d.cls[<<0>>] = "present"]

\* Marks (h, v) and enters it, at fragment f
Enter(d, h, v, f) ==
  LET marked == UpdateSlides(UpdateSlides([d EXCEPT !.state = <<>>], HorizontalSlides, h),
                             VerticalSlides(h), v)
      there == UpdateSlidesVisibility([marked EXCEPT !.indexh = h, !.indexv = v])
      AtFragment(e) == IF f.set THEN NavigateFragment(e, f, 0) ELSE e
  IN AtFragment([ApplyState(there, d.state) EXCEPT !.cur = GetSlide(h, v)])

\* Stops what prev plays and starts what the current slide has
ChangeContent(d, prev) ==
  LET Restart(e) == StartEmbeddedContent(e, e.cur)
  IN Restart(StopEmbeddedContent(LeavePrevious(d, prev), prev))

\* slide(h, v, f): Undef for an index that is left out, f as NavigateFragment
SlideTo(d, h, v, f) ==
  LET v1 == IF v = Undef /\ ~d.overview THEN GetPreviousVerticalIndex(d, h) ELSE v
      left == IF d.cur # None /\ IsVerticalSlide(d.cur)
              THEN SetPreviousVerticalIndex(d, d.cur[1], d.indexv) ELSE d
      newh == Bounded(d, IF h = Undef THEN d.indexh ELSE h, Cardinality(HorizontalSlides))
      newv == Bounded(d, IF v1 = Undef THEN d.indexv ELSE v1, Verticals[newh])
      changed == newh # Max({d.indexh, 0}) \/ newv # Max({d.indexv, 0})
      told == DispatchIf(changed, Enter(left, newh, newv, f), "slidechanged")
      moved == ChangeContent(told, IF changed THEN d.cur ELSE None)
  IN CueAutoSlide(WriteURL(UpdateBackground(UpdateControls(moved), FALSE)))

Slide(d, h, v) == SlideTo(d, h, v, NoIndex)

\* Number.MAX_VALUE = 2^1024 - 2^971, modulo n
MaxValueMod(n) ==
  LET Squared(x) == (x * x) % n
      p1 == 2 % n
      p2 == Squared(p1)
      p8 == Squared(Squared(p2))
      p64 == Squared(Squared(Squared(p8)))
      p128 == Squared(p64)
      p256 == Squared(p128)
      p512 == Squared(p256)
  IN (Squared(p512) - p512 * p256 * p128 * p64 * p8 * p2 * p1) % n

\* slide(Number.MAX_VALUE): there is no such slide to resume, and a deck that
\* loops takes the index modulo its length
SlideEnd(d) ==
  LET n == Cardinality(HorizontalSlides)
  IN Slide(d, IF d.config.loop THEN MaxValueMod(n) ELSE n, IF d.overview THEN Undef ELSE 0)

BugReadURL(d) ==
  LET named == {s \in Sections : SlideId[s] = d.hash.name}
      s == CHOOSE s \in named : TRUE
      to == IF d.hash.name = "" THEN <<d.hash.h, d.hash.v>>
            ELSE IF named = {} THEN <<Max({d.indexh, 0}), Max({d.indexv, 0})>>
            ELSE <<s[1], IF IsVerticalSlide(s) THEN s[2] ELSE Undef>>
  IN IF d.hash.name = "" /\ (to[1] = d.indexh \/ to[2] = d.indexv) THEN d ELSE Slide(d, to[1], to[2])
ReadURL(d) ==
  LET named == {s \in Sections : SlideId[s] = d.hash.name}
      s == CHOOSE s \in named : TRUE
      to == IF d.hash.name = "" THEN <<d.hash.h, d.hash.v>>
            ELSE IF named = {} THEN <<Max({d.indexh, 0}), Max({d.indexv, 0})>>
            ELSE <<s[1], IF IsVerticalSlide(s) THEN s[2] ELSE Undef>>
  IN IF d.hash.name = "" /\ to = <<d.indexh, d.indexv>> THEN d ELSE Slide(d, to[1], to[2])

-----------------------------------------------------------------------------
(* Navigation.  Each of the six functions tries a fragment, on or back, and
   moves to a slide if none was shown or hidden and there is a way.  In the
   overview the four directions do not try it.  (When navigatePrev and
   navigateNext go on to one of the four it tries once more, and finds none.) *)

Directions == {"left", "right", "up", "down", "prev", "next"}

Way(fragment, inOverview, open, h, v) ==
  [fragment |-> fragment, inOverview |-> inOverview, open |-> open, h |-> h, v |-> v]

Horizontal(d, open, offset) == Way(offset, FALSE, open, d.indexh + offset, Undef)
Vertical(d, open, offset) == Way(offset, FALSE, open, d.indexh, d.indexv + offset)

NavigateLeft(d) == Horizontal(d, AvailableRoutes(d).left, IF d.config.rtl THEN 1 ELSE -1)
NavigateRight(d) == Horizontal(d, AvailableRoutes(d).right, IF d.config.rtl THEN -1 ELSE 1)
NavigateUp(d) == Vertical(d, AvailableRoutes(d).up, -1)
NavigateDown(d) == Vertical(d, AvailableRoutes(d).down, 1)

BugNavigatePrev(d) ==
  IF AvailableRoutes(d).up THEN [NavigateUp(d) EXCEPT !.inOverview = TRUE]
  ELSE Way(-1, TRUE, d.indexh > 0, d.indexh - 1, 0)
NavigatePrev(d) ==
  LET past == {h \in DOMAIN Verticals :
                 d.cls[<<h>>] = IF d.config.rtl THEN "future" ELSE "past"}
      last == IF past = {} THEN 0 ELSE Verticals[Max(past)]
  IN IF AvailableRoutes(d).up THEN [NavigateUp(d) EXCEPT !.inOverview = TRUE]
     ELSE Way(-1, TRUE, past # {}, d.indexh - 1,
              IF last = 0 THEN 0 ELSE IF last = 1 THEN Undef ELSE last - 1)

BugNavigateNext(d) ==
  [(IF AvailableRoutes(d).down THEN NavigateDown(d) ELSE NavigateRight(d))
     EXCEPT !.inOverview = TRUE]
NavigateNext(d) ==
  [(IF AvailableRoutes(d).down THEN NavigateDown(d)
    ELSE IF d.config.rtl THEN NavigateLeft(d) ELSE NavigateRight(d))
     EXCEPT !.inOverview = TRUE]

\* d1 is d after the fragment
Follow(d, d1, way) == IF Moved(d, d1) \/ ~way.open THEN d1 ELSE Slide(d1, way.h, way.v)

Go(d, way) ==
  Follow(d, IF d.overview /\ ~way.inOverview THEN d
            ELSE NavigateFragment(d, NoIndex, way.fragment), way)

\* navigateNext ends with cueAutoSlide
Navigate(d, name) ==
  LET moved == Go(d, CASE name = "left" -> NavigateLeft(d)
                       [] name = "right" -> NavigateRight(d)
                       [] name = "up" -> NavigateUp(d)
                       [] name = "down" -> NavigateDown(d)
                       [] name = "prev" -> NavigatePrev(d)
                       [] name = "next" -> NavigateNext(d))
      Cued(e) == IF name = "next" THEN CueAutoSlide(e) ELSE e
  IN Cued(moved)

-----------------------------------------------------------------------------
(* The overview, the paused mode and the overlays *)

ActivateOverview(d) ==
  IF ~d.config.overview \/ d.overview THEN d
  ELSE DispatchEvent(UpdateSlidesVisibility(
         [CancelAutoSlide(d) EXCEPT !.overview = TRUE, !.overviewClicks = Leaves]),
         "overviewshown")

DeactivateOverview(d) ==
  IF ~d.config.overview THEN d
  ELSE DispatchEvent(CueAutoSlide(
         Slide([d EXCEPT !.overview = FALSE, !.overviewClicks = {}], d.indexh, d.indexv)),
         "overviewhidden")

ToggleOverview(d) == IF d.overview THEN DeactivateOverview(d) ELSE ActivateOverview(d)

Pause(d) ==
  IF ~d.config.pause THEN d
  ELSE DispatchIf(~d.paused, [CancelAutoSlide(d) EXCEPT !.paused = TRUE], "paused")

Resume(d) == DispatchIf(d.paused, CueAutoSlide([d EXCEPT !.paused = FALSE]), "resumed")

TogglePause(d) == IF d.paused THEN Resume(d) ELSE Pause(d)

CloseOverlay(d) == [d EXCEPT !.overlay = "none"]
ShowPreview(d) == [CloseOverlay(d) EXCEPT !.overlay = "preview"]
ShowHelp(d) == IF d.config.help THEN [CloseOverlay(d) EXCEPT !.overlay = "help"] ELSE d

\* A flag that differs is toggled, with the event that goes with it
SetState(d, state) ==
  LET SetPaused(e) == IF state.paused = e.paused THEN e ELSE TogglePause(e)
      SetOverview(e) == IF state.overview = e.overview THEN e ELSE ToggleOverview(e)
  IN SetOverview(SetPaused(SlideTo(d, state.indexh, state.indexv, state.indexf)))

-----------------------------------------------------------------------------
(* Configuration *)

RemoveEventListeners(d) ==
  [d EXCEPT !.listeners = @ \cap IF d.config.progress THEN {} ELSE {"progress"}]

AddEventListeners(d) ==
  [d EXCEPT !.listeners = @ \cup {"hashchange", "controls"}
     \cup (IF d.config.touch THEN {"touch"} ELSE {})
     \cup (IF d.config.keyboard THEN {"keyboard"} ELSE {})
     \cup (IF d.config.progress THEN {"progress"} ELSE {})]

Sync(d) ==
  LET d1 == CueAutoSlide([AddEventListeners(RemoveEventListeners(d))
                            EXCEPT !.autoSlide = d.config.autoSlide])
      d2 == UpdateControls(SortAllFragments(WriteURL(CreateBackgrounds(d1))))
      Restart(e) == StartEmbeddedContent(e, e.cur)
  IN Restart(UpdateSlidesVisibility(UpdateBackground(d2, TRUE)))

Configure(d, config) ==
  LET Unpause(e) == IF config.pause THEN e ELSE Resume(e)
      Player(e) ==
        IF Cardinality(Sections) > 1 /\ config.autoSlide = "on" /\ config.autoSlideStoppable
        THEN [e EXCEPT !.player = "stopped", !.autoSlidePaused = FALSE]
        ELSE [e EXCEPT !.player = "none"]
      Fragmented(e) == IF config.fragments THEN e
                       ELSE [e EXCEPT !.visible = Fragments, !.curfrag = {}]
  IN Sync(Fragmented(Player(Unpause([d EXCEPT !.config = config]))))

Start(d) == UpdateBackground(ReadURL(Configure(ResetVerticalSlides(d), d.config)), TRUE)

-----------------------------------------------------------------------------
(* Handlers of the user's input *)

OnUserInput(d) == IF d.config.autoSlideStoppable THEN PauseAutoSlide(d) ELSE d

OnEscape(d) == IF d.overlay # "none" THEN CloseOverlay(d) ELSE ToggleOverview(d)

\* The function that a key calls, by the name of the key if it is for none
Binding(d, key) ==
  CASE key \in {"space", "shift-space", "return"} /\ d.overview -> "deactivate"
    [] key = "space" -> "next"
    [] key = "shift-space" -> "prev"
    [] OTHER -> key

\* A key that is not for the deck, with a modifier or while an input has the
\* focus, is "modified"
KeyAction(d, key, wasPaused) ==
  LET name == Binding(d, key)
  IN CASE name \in Directions -> Navigate(d, name)
       [] name = "home" -> Slide(d, 0, Undef)
       [] name = "end" -> SlideEnd(d)
       [] name = "deactivate" -> DeactivateOverview(d)
       [] name = "pause" -> TogglePause(d)
       [] name = "a" /\ d.config.autoSlideStoppable -> ToggleAutoSlide(d, wasPaused)
       [] name = "escape" -> OnEscape(d)
       [] OTHER -> d

OnDocumentKeyDown(d, key) ==
  LET d1 == OnUserInput(d)
  IN IF key = "modified" \/ (d.paused /\ key # "pause") THEN d1
     ELSE CueAutoSlide(KeyAction(d1, key, d.autoSlidePaused))

\* The question mark
OnDocumentKeyPress(d) == IF d.overlay # "none" THEN CloseOverlay(d) ELSE ShowHelp(d)

OnTouchStart(d, touches) == [d EXCEPT !.touch.startCount = touches]

\* What two fingers do, or the way of one, by the direction it leads in
OnTouchMove(d, gesture) ==
  LET d1 == OnUserInput(d)
      Caught(e) == [e EXCEPT !.touch.captured = TRUE]
      pinch == d.touch.startCount = 2 /\ d.config.overview
      swipe == d.touch.startCount # 2
  IN CASE d.touch.captured -> d
       [] gesture = "pinch-in" /\ pinch -> ActivateOverview(Caught(d1))
       [] gesture = "pinch-out" /\ pinch -> DeactivateOverview(Caught(d1))
       [] gesture \in Directions /\ swipe -> Navigate(Caught(d1), gesture)
       [] OTHER -> d1

OnTouchEnd(d) == [d EXCEPT !.touch.captured = FALSE]

OnDocumentMouseScroll(d, delta) == Navigate(d, IF delta > 0 THEN "next" ELSE "prev")

\* A click in the part-th of as many equal parts as there are horizontal slides
\* (one more than that at the very end)
OnProgressClicked(d, part) ==
  Slide(OnUserInput(d),
        IF d.config.rtl THEN Cardinality(HorizontalSlides) - part ELSE part, Undef)

OnNavigateClicked(d, button) == Navigate(OnUserInput(d), button)

OnOverviewSlideClicked(d, s) ==
  IF ~d.overview THEN d
  ELSE Slide(DeactivateOverview(d), s[1], IF IsVerticalSlide(s) THEN s[2] ELSE 0)

OnAutoSlidePlayerClick(d) ==
  IF IsLastSlide(d) /\ ~d.config.loop THEN ResumeAutoSlide(Slide(d, 0, 0))
  ELSE ToggleAutoSlide(d, d.autoSlidePaused)

\* The timeout that cueAutoSlide sets
OnAutoSlideTimeout(d) == Navigate([d EXCEPT !.timer = FALSE], "next")

\* The timeout that slide sets on the home slide
ResetStacks(d) ==
  [d EXCEPT !.prevV = [h \in Stacks |-> 0], !.resetStacks = FALSE]

=============================================================================
