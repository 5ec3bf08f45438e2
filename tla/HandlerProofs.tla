--------------------------- MODULE HandlerProofs ----------------------------
(***************************************************************************)
(* What the handlers of reveal.js make of a deck.  Each takes a steady     *)
(* deck to a steady one, and one that is cued to one that is cued (Kept),  *)
(* and where going on and back leads.  Whoever hears every event of a      *)
(* handler that moves the deck knows the deck after it, by the state of    *)
(* the last event that was heard (Follows): a state and the fragment index *)
(* in it say which slide and which fragments are shown (Tells), a deck     *)
(* that is given such a state takes it over (SetArrives), and two decks at *)
(* the same place go on to the same place (NextSame).                      *)
(***************************************************************************)
EXTENDS RevealProofs

\* e is steady, and its timeout is set where it should be if that of d was.
Kept(d, e) == Steady(e) /\ (Cued(d) => Cued(e)) /\ e.config = d.config

LEMMA KeptTrans ==
  ASSUME NEW d, NEW e, NEW f, Kept(d, e), Kept(e, f)
  PROVE  Kept(d, f)
  BY DEF Kept

LEMMA KeptSelf == ASSUME NEW d, Steady(d) PROVE Kept(d, d)
  BY DEF Kept

LEMMA SteadyShape ==
  ASSUME NEW d, Steady(d)
  PROVE  /\ IsDeck(d) /\ d.config \in ConfigType /\ d.config.autoSlide \in AutoSlides
         /\ Placed(d) /\ FragmentsTyped(d) /\ NeighboursShown(d) /\ Sorted(d)
         /\ d.indexh \in Nat /\ d.indexv \in Nat /\ d.indexh \in DOMAIN Verticals
         /\ d.indexh \in Int /\ d.indexv \in Int /\ d.indexh # Undef /\ d.indexv # Undef
         /\ d.cur \in Leaves /\ d.cur # None
         /\ d.enabled \subseteq Directions /\ CueTyped(d) /\ ModesTyped(d) /\ SwitchesTyped(d)
  <1>1. Placed(d) /\ d.cur # None /\ d.config \in ConfigType
    BY DEF Steady, Core
  <1>2. /\ d.indexh \in Nat /\ d.indexv \in Nat /\ d.indexh \in DOMAIN Verticals
        /\ d.cur \in Leaves /\ d.indexh # Undef /\ d.indexv # Undef
    BY <1>1, PlacedShape DEF Placed
  <1>3. d.config.autoSlide \in AutoSlides
    BY <1>1 DEF ConfigType, AutoSlides
  <1> QED
    BY <1>1, <1>2, <1>3 DEF Steady, Core, SwitchesTyped

-----------------------------------------------------------------------------
(* Switches and cues *)

\* The fields that say in which mode a deck is
Switches ==
  {"overview", "paused", "overlay", "autoSlide", "autoSlidePaused", "timer", "player", "listeners",
   "overviewClicks", "touch", "resetStacks", "events"}

LEMMA CoreFrame ==
  ASSUME NEW d, Core(d), NEW e, Changes(d, e, Switches), ModesTyped(e), CueTyped(e), e.resetStacks \in BOOLEAN
  PROVE  Core(e)
  <1>1. IsDeck(d) /\ IsDeck(e)
    BY DEF Core, Changes
  <1>2. /\ e.config = d.config /\ e.hash = d.hash /\ e.hashEvent = d.hashEvent /\ e.enabled = d.enabled
    BY DEF Changes, Switches, Fields
  <1>3. SwitchesTyped(e)
    BY <1>2 DEF Core, SwitchesTyped, HashTyped
  <1>4. /\ Placed(e) /\ FragmentsTyped(e) /\ NeighboursShown(e) /\ ClassesAgree(e) /\ MediaAgree(e)
        /\ BackgroundAgrees(e) /\ StateAgrees(e)
    BY <1>1, Frames DEF Core, Switches
  <1> QED
    BY <1>1, <1>2, <1>3, <1>4 DEF Core

\* A deck stays steady when only its modes change.
LEMMA SteadyFrame ==
  ASSUME NEW d, Steady(d), NEW e, Changes(d, e, Switches), ModesTyped(e), CueTyped(e), e.resetStacks \in BOOLEAN
  PROVE  Steady(e) /\ e.config = d.config
  <1>1. IsDeck(d) /\ Core(d) /\ Core(e)
    BY CoreFrame DEF Steady, Core
  <1>2. Sorted(e) /\ ControlsAgree(e) /\ AddressAgrees(e)
    BY <1>1, Frames DEF Steady, Switches
  <1>3. e.cur = d.cur /\ e.config = d.config
    BY DEF Changes, Switches, Fields
  <1> QED
    BY <1>1, <1>2, <1>3 DEF Steady

\* What neither a mode nor a cue depends on
LEMMA MinorFrame ==
  ASSUME NEW d, Steady(d), NEW e, Changes(d, e, {"overlay", "listeners", "overviewClicks", "touch", "resetStacks", "events"}),
         ModesTyped(e), e.resetStacks \in BOOLEAN
  PROVE  Kept(d, e)
  <1>1. IsDeck(d) /\ CueTyped(d)
    BY SteadyShape
  <1>2. Changes(d, e, Switches)
    BY DEF Changes, Switches
  <1>3. CueTyped(e)
    BY <1>1 DEF Changes, Fields, CueTyped
  <1>4. Cued(d) => Cued(e)
    BY <1>1, Frames
  <1> QED
    BY <1>2, <1>3, <1>4, SteadyFrame DEF Kept

LEMMA EventKept ==
  ASSUME NEW d, Steady(d), NEW type, NEW condition
  PROVE  /\ Kept(d, DispatchEvent(d, type)) /\ Kept(d, DispatchIf(condition, d, type))
         /\ Kept(d, [d EXCEPT !.events = <<>>])
  <1>1. ASSUME NEW e, Changes(d, e, {"events"}) PROVE Kept(d, e)
    <2>1. e.resetStacks \in BOOLEAN /\ ModesTyped(e)
      BY <1>1 DEF Steady, Core, SwitchesTyped, ModesTyped, Changes, Fields
    <2> QED
      BY <1>1, <2>1, MinorFrame, ChangesMore
  <1>2. IsDeck(d)
    BY SteadyShape
  <1>3. Changes(d, [d EXCEPT !.events = <<>>], {"events"})
    BY <1>2 DEF Changes, IsDeck, Fields
  <1> QED
    BY <1>1, <1>2, <1>3, EventChanges

\* Wherever a deck is steady, cueAutoSlide cues it.
LEMMA CueKept ==
  ASSUME NEW d, Steady(d) PROVE Good(CueAutoSlide(d)) /\ Kept(d, CueAutoSlide(d))
  <1> DEFINE e == CueAutoSlide(d)
  <1>1. /\ IsDeck(d) /\ d.cur \in Leaves \cup {None} /\ FragmentsTyped(d)
        /\ d.config.autoSlide \in AutoSlides /\ CueTyped(d) /\ ModesTyped(d) /\ SwitchesTyped(d)
    BY SteadyShape
  <1>2. Changes(d, e, {"timer", "autoSlide", "player"}) /\ CueTyped(e) /\ Cued(e)
    BY <1>1, CueEffect
  <1> HIDE DEF e
  <1>3. ModesTyped(e) /\ e.resetStacks \in BOOLEAN /\ Changes(d, e, Switches)
    <2>1. ModesTyped(e)
      BY <1>1, <1>2, Frames
    <2> QED
      BY <1>1, <1>2, <2>1 DEF SwitchesTyped, Changes, Fields, Switches
  <1>4. Steady(e) /\ e.config = d.config
    BY <1>2, <1>3, SteadyFrame
  <1> QED
    BY <1>2, <1>4 DEF Good, Kept, e

\* A deck that is sent to a slide, from anywhere
LEMMA SlideKept ==
  ASSUME NEW d, Steady(d), NEW h \in Int, NEW v \in Int
  PROVE  Good(Slide(d, h, v)) /\ Kept(d, Slide(d, h, v))
  <1>1. Core(d) /\ Sorted(d)
    BY DEF Steady
  <1>2. IndexTyped(NoIndex)
    BY DEF IndexTyped, NoIndex
  <1> QED
    BY <1>1, <1>2, SlideEffect DEF Slide, Kept, Good

\* Fragments of the current slide alone are shown or hidden.
LEMMA FragmentKept ==
  ASSUME NEW d, Steady(d), NEW offset \in Int
  PROVE  Kept(d, NavigateFragment(d, NoIndex, offset))
  <1> DEFINE e == NavigateFragment(d, NoIndex, offset)
  <1>1. /\ IsDeck(d) /\ FragmentsTyped(d) /\ Sorted(d) /\ d.cur \in Leaves /\ d.enabled \subseteq Directions
        /\ NeighboursShown(d) /\ d.indexh \in DOMAIN Verticals /\ ModesTyped(d) /\ CueTyped(d) /\ SwitchesTyped(d)
    BY SteadyShape
  <1>2. /\ Changes(d, e, {"fidx", "visible", "curfrag", "enabled", "events"})
        /\ FragmentsTyped(e) /\ Sorted(e) /\ e.enabled \subseteq Directions
        /\ \A f \in Fragments : f[1] # d.cur => (f \in e.visible <=> f \in d.visible)
        /\ ControlsAgree(d) => ControlsAgree(e)
    <2>1. IndexTyped(NoIndex)
      BY DEF IndexTyped, NoIndex
    <2> QED
      BY <1>1, <2>1, NavigateEffect
  <1> HIDE DEF e
  <1>3. /\ e.config = d.config /\ e.cur = d.cur /\ e.hash = d.hash /\ e.hashEvent = d.hashEvent
        /\ e.resetStacks = d.resetStacks /\ IsDeck(e) /\ e.timer = d.timer /\ e.autoSlide = d.autoSlide
        /\ e.player = d.player
    BY <1>2 DEF Changes, Fields
  <1>4. NeighboursShown(e)
    <2>1. \A f \in Fragments : Precedes(f[1], d.cur) \/ Precedes(d.cur, f[1]) => f[1] # d.cur
      BY <1>1, LeafShape, IndexShape DEF Precedes, IndicesV
    <2> QED
      BY <1>1, <1>2, <1>3, <2>1 DEF NeighboursShown
  <1>5. SwitchesTyped(e)
    <2>1. ModesTyped(e)
      BY <1>1, <1>2, Frames
    <2> QED
      BY <1>1, <1>2, <1>3, <2>1 DEF SwitchesTyped, CueTyped, HashTyped
  <1>6. Placed(e) /\ ClassesAgree(e) /\ MediaAgree(e) /\ BackgroundAgrees(e) /\ StateAgrees(e)
        /\ AddressAgrees(e) /\ (Cued(d) => Cued(e))
    BY <1>1, <1>2, Frames DEF Steady, Core
  <1>7. Core(e)
    BY <1>2, <1>3, <1>4, <1>5, <1>6 DEF Steady, Core
  <1> QED
    BY <1>2, <1>3, <1>6, <1>7 DEF Kept, Steady, e

-----------------------------------------------------------------------------
(* Navigation *)

\* The six ways lead to an index, whether there is a slide or not.
LEMMA WayShape ==
  ASSUME NEW d, Steady(d)
  PROVE  \A way \in {NavigateLeft(d), NavigateRight(d), NavigateUp(d), NavigateDown(d), NavigatePrev(d),
                     NavigateNext(d)} :
           way.h \in Int /\ way.v \in Int /\ way.fragment \in Int
  <1> DEFINE Shaped(way) == way.h \in Int /\ way.v \in Int /\ way.fragment \in Int
             Both(way) == Shaped(way) /\ Shaped([way EXCEPT !.inOverview = TRUE])
  <1>1. d.indexh \in Int /\ d.indexv \in Int
    BY SteadyShape
  <1>2. ASSUME NEW f \in Int, NEW o, NEW p, NEW h \in Int, NEW v \in Int
        PROVE  Both(Way(f, o, p, h, v))
    BY DEF Way
  <1>3. ASSUME NEW open, NEW offset \in Int
        PROVE  Both(Horizontal(d, open, offset)) /\ Both(Vertical(d, open, offset))
    <2>1. d.indexh + offset \in Int /\ d.indexv + offset \in Int /\ Undef \in Int
      BY <1>1 DEF Undef
    <2> HIDE DEF Both
    <2> QED
      BY <1>1, <1>2, <2>1 DEF Horizontal, Vertical
  <1>4. Both(NavigateLeft(d)) /\ Both(NavigateRight(d))
    <2>1. (IF d.config.rtl THEN 1 ELSE -1) \in Int /\ (IF d.config.rtl THEN -1 ELSE 1) \in Int
      OBVIOUS
    <2> HIDE DEF Both
    <2> QED
      BY <1>3, <2>1 DEF NavigateLeft, NavigateRight
  <1>5. Both(NavigateUp(d)) /\ Both(NavigateDown(d))
    <2>1. -1 \in Int /\ 1 \in Int
      OBVIOUS
    <2> HIDE DEF Both
    <2> QED
      BY <1>3, <2>1 DEF NavigateUp, NavigateDown
  <1>6. \A w : Both(w) => Shaped(w) /\ Shaped([w EXCEPT !.inOverview = TRUE])
    OBVIOUS
  <1> HIDE DEF Both
  <1>7. Shaped(NavigateNext(d))
    <2> DEFINE way == IF AvailableRoutes(d).down THEN NavigateDown(d)
                      ELSE IF d.config.rtl THEN NavigateLeft(d) ELSE NavigateRight(d)
    <2>1. way \in {NavigateDown(d), NavigateLeft(d), NavigateRight(d)}
      OBVIOUS
    <2>2. NavigateNext(d) = [way EXCEPT !.inOverview = TRUE]
      BY DEF NavigateNext
    <2> HIDE DEF Shaped, way
    <2>3. Both(way)
      BY <1>4, <1>5, <2>1
    <2> QED
      BY <1>6, <2>2, <2>3
  <1>8. Shaped(NavigatePrev(d))
    <2> DEFINE past == {h \in DOMAIN Verticals : d.cls[<<h>>] = IF d.config.rtl THEN "future" ELSE "past"}
               last == IF past = {} THEN 0 ELSE Verticals[Max(past)]
               v == IF last = 0 THEN 0 ELSE IF last = 1 THEN Undef ELSE last - 1
    <2>1. last \in Nat
      <3>1. CASE past # {}
        <4>1. past \subseteq DOMAIN Verticals /\ IsFiniteSet(past) /\ past \subseteq Int
          <5>1. IsFiniteSet(DOMAIN Verticals)
            BY DeckShape DEF DeckShape
          <5>2. past \subseteq DOMAIN Verticals
            OBVIOUS
          <5> HIDE DEF past
          <5> QED
            BY <5>1, <5>2, IndexShape, FS_Subset
        <4> HIDE DEF past
        <4>2. Max(past) \in past
          BY <3>1, <4>1, MaxExists
        <4> QED
          BY <3>1, <4>1, <4>2, IndexShape
      <3> QED
        BY <3>1
    <2>2. NavigatePrev(d) = IF AvailableRoutes(d).up THEN [NavigateUp(d) EXCEPT !.inOverview = TRUE]
                            ELSE Way(-1, TRUE, past # {}, d.indexh - 1, v)
      BY DEF NavigatePrev
    <2> HIDE DEF last, past
    <2>3. v \in Int /\ -1 \in Int /\ d.indexh - 1 \in Int
      BY <1>1, <2>1 DEF Undef
    <2> HIDE DEF Shaped, v
    <2> QED
      BY <1>2, <1>5, <1>6, <2>2, <2>3
  <1> QED
    BY <1>4, <1>5, <1>6, <1>7, <1>8

\* After a fragment or instead of one, a deck goes where there is a way.
LEMMA GoKept ==
  ASSUME NEW d, Steady(d), NEW way, way.h \in Int, way.v \in Int, way.fragment \in Int
  PROVE  Kept(d, Go(d, way))
  <1> DEFINE d1 == IF d.overview /\ ~way.inOverview THEN d ELSE NavigateFragment(d, NoIndex, way.fragment)
  <1>1. Kept(d, d1)
    BY FragmentKept, KeptSelf
  <1>2. Go(d, way) = Follow(d, d1, way)
    BY DEF Go
  <1> HIDE DEF d1
  <1>3. Kept(d1, Slide(d1, way.h, way.v))
    BY <1>1, SlideKept DEF Kept
  <1>4. Follow(d, d1, way) \in {d1, Slide(d1, way.h, way.v)}
    BY DEF Follow
  <1> QED
    BY <1>1, <1>2, <1>3, <1>4, KeptTrans

LEMMA NavigateKept ==
  ASSUME NEW d, Steady(d), NEW name \in Directions
  PROVE  /\ Kept(d, Navigate(d, name))
         /\ name = "next" => Good(Navigate(d, name))
  <1> DEFINE way == CASE name = "left" -> NavigateLeft(d)
                      [] name = "right" -> NavigateRight(d)
                      [] name = "up" -> NavigateUp(d)
                      [] name = "down" -> NavigateDown(d)
                      [] name = "prev" -> NavigatePrev(d)
                      [] name = "next" -> NavigateNext(d)
             moved == Go(d, way)
  <1>1. way \in {NavigateLeft(d), NavigateRight(d), NavigateUp(d), NavigateDown(d), NavigatePrev(d),
                 NavigateNext(d)}
    BY DEF Directions
  <1>2. Navigate(d, name) = IF name = "next" THEN CueAutoSlide(moved) ELSE moved
    BY DEF Navigate
  <1> HIDE DEF way
  <1>3. Kept(d, moved)
    BY <1>1, WayShape, GoKept
  <1> HIDE DEF moved
  <1>4. Kept(moved, CueAutoSlide(moved)) /\ Good(CueAutoSlide(moved))
    BY <1>3, CueKept DEF Kept
  <1> QED
    BY <1>2, <1>3, <1>4, KeptTrans

\* Number.MAX_VALUE has a remainder like every number.
LEMMA EndShape ==
  ASSUME NEW n \in Nat \ {0} PROVE MaxValueMod(n) \in Int
  <1>1. \A x \in Int : x * x \in Int
    OBVIOUS
  <1>2. \A x \in Int : x % n \in Int
    OBVIOUS
  <1> DEFINE Squared(x) == (x * x) % n
             p1 == 2 % n
             p2 == Squared(p1)
             p8 == Squared(Squared(p2))
             p64 == Squared(Squared(Squared(p8)))
             p128 == Squared(p64)
             p256 == Squared(p128)
             p512 == Squared(p256)
             product == p512 * p256 * p128 * p64 * p8 * p2 * p1
  <1>3. \A x \in Int : Squared(x) \in Int
    BY <1>1, <1>2
  <1>4. MaxValueMod(n) = (Squared(p512) - product) % n
    BY DEF MaxValueMod
  <1>5. p1 \in Int
    BY <1>2
  <1> HIDE DEF Squared, p1
  <1>6. p2 \in Int
    BY <1>3, <1>5
  <1> HIDE DEF p2
  <1>7. p8 \in Int
    BY <1>3, <1>6
  <1> HIDE DEF p8
  <1>8. p64 \in Int
    BY <1>3, <1>7
  <1> HIDE DEF p64
  <1>9. p128 \in Int
    BY <1>3, <1>8
  <1> HIDE DEF p128
  <1>10. p256 \in Int
    BY <1>3, <1>9
  <1> HIDE DEF p256
  <1>11. p512 \in Int
    BY <1>3, <1>10
  <1> HIDE DEF p512
  <1>12. \A x, y \in Int : x * y \in Int
    OBVIOUS
  <1>13. product \in Int
    BY <1>5, <1>6, <1>7, <1>8, <1>9, <1>10, <1>11, <1>12
  <1> HIDE DEF product
  <1>14. Squared(p512) - product \in Int
    BY <1>3, <1>11, <1>13
  <1> QED
    BY <1>2, <1>4, <1>14

LEMMA EndKept ==
  ASSUME NEW d, Steady(d) PROVE Kept(d, SlideEnd(d))
  <1> DEFINE n == Cardinality(HorizontalSlides)
             h == IF d.config.loop THEN MaxValueMod(n) ELSE n
             v == IF d.overview THEN Undef ELSE 0
  <1>1. n \in Nat \ {0}
    BY Shape
  <1>2. SlideEnd(d) = Slide(d, h, v)
    BY DEF SlideEnd
  <1> HIDE DEF n
  <1>3. h \in Int /\ v \in Int
    BY <1>1, EndShape DEF Undef
  <1> HIDE DEF h, v
  <1> QED
    BY <1>2, <1>3, SlideKept

-----------------------------------------------------------------------------
(* The overview, the paused mode, automatic sliding and the overlays *)

\* Which slides are displayed matters to nothing else.
LEMMA VisibilityKept ==
  ASSUME NEW d, Steady(d) PROVE Kept(d, UpdateSlidesVisibility(d))
  <1> DEFINE e == UpdateSlidesVisibility(d)
  <1>1. IsDeck(d) /\ DisplayTyped(d) /\ d.cur # None /\ ModesTyped(d) /\ CueTyped(d) /\ SwitchesTyped(d)
    BY SteadyShape DEF Steady, Core, BackgroundAgrees
  <1>2. Changes(d, e, {"shown", "bgVideo"}) /\ DisplayTyped(e)
    BY <1>1, VisibilityEffect
  <1> HIDE DEF e
  <1>3. /\ Placed(e) /\ FragmentsTyped(e) /\ NeighboursShown(e) /\ Sorted(e) /\ ClassesAgree(e) /\ MediaAgree(e)
        /\ StateAgrees(e) /\ ControlsAgree(e) /\ AddressAgrees(e) /\ ModesTyped(e) /\ (Cued(d) => Cued(e))
    BY <1>1, <1>2, Frames DEF Steady, Core
  <1>4. /\ e.config = d.config /\ e.cur = d.cur /\ e.bgPlaying = d.bgPlaying /\ e.prevBg = d.prevBg
        /\ e.enabled = d.enabled /\ e.hash = d.hash /\ e.hashEvent = d.hashEvent /\ e.timer = d.timer
        /\ e.autoSlide = d.autoSlide /\ e.player = d.player /\ e.resetStacks = d.resetStacks /\ IsDeck(e)
    BY <1>2 DEF Changes, Fields
  <1>5. BackgroundAgrees(e)
    BY <1>1, <1>2, <1>4 DEF Steady, Core, BackgroundAgrees
  <1>6. SwitchesTyped(e)
    BY <1>1, <1>3, <1>4 DEF SwitchesTyped, CueTyped, HashTyped
  <1>7. Core(e)
    BY <1>3, <1>4, <1>5, <1>6 DEF Steady, Core
  <1> QED
    BY <1>1, <1>3, <1>4, <1>7 DEF Kept, Steady, e

\* A deck that stops playing, for whatever reason, has no timeout.
LEMMA StopKept ==
  ASSUME NEW d, Steady(d), NEW e, Changes(d, e, Switches), ModesTyped(e), CueTyped(e),
         e.resetStacks \in BOOLEAN, ~e.timer, e.paused \/ e.overview \/ e.autoSlidePaused
  PROVE  Kept(d, e)
  BY SteadyFrame DEF Kept, Cued

LEMMA ActivateKept ==
  ASSUME NEW d, Steady(d) PROVE Kept(d, ActivateOverview(d))
  <1>1. CASE ~d.config.overview \/ d.overview
    BY <1>1, KeptSelf DEF ActivateOverview
  <1>2. CASE ~(~d.config.overview \/ d.overview)
    <2> DEFINE a == [CancelAutoSlide(d) EXCEPT !.overview = TRUE, !.overviewClicks = Leaves]
               b == UpdateSlidesVisibility(a)
    <2>1. ActivateOverview(d) = DispatchEvent(b, "overviewshown")
      BY <1>2 DEF ActivateOverview
    <2>2. IsDeck(d) /\ SwitchesTyped(d) /\ ModesTyped(d) /\ CueTyped(d)
      BY SteadyShape
    <2>3. /\ Changes(d, a, {"timer", "overview", "overviewClicks"}) /\ ~a.timer /\ a.timer = FALSE
          /\ a.overview = TRUE /\ a.overviewClicks = Leaves
      BY <2>2 DEF CancelAutoSlide, Changes, IsDeck, Fields
    <2> HIDE DEF a
    <2>4. /\ a.paused = d.paused /\ a.autoSlidePaused = d.autoSlidePaused /\ a.overlay = d.overlay
          /\ a.touch = d.touch /\ a.autoSlide = d.autoSlide /\ a.player = d.player
          /\ a.resetStacks = d.resetStacks
      BY <2>3 DEF Changes, Fields
    <2>5. ModesTyped(a) /\ CueTyped(a) /\ a.resetStacks \in BOOLEAN
      BY <2>2, <2>3, <2>4 DEF ModesTyped, CueTyped, SwitchesTyped
    <2>6. Kept(d, a)
      BY <2>3, <2>5, StopKept, ChangesMore DEF Switches
    <2>7. Kept(a, b)
      BY <2>6, VisibilityKept DEF Kept
    <2> HIDE DEF b
    <2>8. Kept(b, DispatchEvent(b, "overviewshown"))
      BY <2>7, EventKept DEF Kept
    <2> QED
      BY <2>1, <2>6, <2>7, <2>8, KeptTrans
  <1> QED
    BY <1>1, <1>2

LEMMA DeactivateKept ==
  ASSUME NEW d, Steady(d) PROVE Kept(d, DeactivateOverview(d))
  <1>1. CASE ~d.config.overview
    BY <1>1, KeptSelf DEF DeactivateOverview
  <1>2. CASE d.config.overview
    <2> DEFINE a == [d EXCEPT !.overview = FALSE, !.overviewClicks = {}]
               b == Slide(a, d.indexh, d.indexv)
               c == CueAutoSlide(b)
    <2>1. DeactivateOverview(d) = DispatchEvent(c, "overviewhidden")
      BY <1>2 DEF DeactivateOverview
    <2>2. IsDeck(d) /\ SwitchesTyped(d) /\ ModesTyped(d) /\ CueTyped(d) /\ d.indexh \in Int /\ d.indexv \in Int
      BY SteadyShape
    <2>3. /\ Changes(d, a, {"overview", "overviewClicks"}) /\ a.overview = FALSE /\ a.overviewClicks = {}
      BY <2>2 DEF Changes, IsDeck, Fields
    <2> HIDE DEF a
    <2>4. /\ a.paused = d.paused /\ a.autoSlidePaused = d.autoSlidePaused /\ a.overlay = d.overlay
          /\ a.touch = d.touch /\ a.autoSlide = d.autoSlide /\ a.player = d.player
          /\ a.resetStacks = d.resetStacks /\ a.timer = d.timer
      BY <2>3 DEF Changes, Fields
    <2>5. ModesTyped(a) /\ CueTyped(a) /\ a.resetStacks \in BOOLEAN
      BY <2>2, <2>3, <2>4 DEF ModesTyped, CueTyped, SwitchesTyped
    <2>6. Steady(a) /\ a.config = d.config
      BY <2>3, <2>5, SteadyFrame, ChangesMore DEF Switches
    <2>7. Good(b) /\ Kept(a, b)
      BY <2>2, <2>6, SlideKept
    <2> HIDE DEF b
    <2>8. Good(c) /\ Kept(b, c)
      BY <2>7, CueKept DEF Kept
    <2> HIDE DEF c
    <2>9. Kept(c, DispatchEvent(c, "overviewhidden"))
      BY <2>8, EventKept DEF Kept
    <2> QED
      BY <2>1, <2>6, <2>7, <2>8, <2>9 DEF Kept, Good
  <1> QED
    BY <1>1, <1>2

LEMMA OverviewKept ==
  ASSUME NEW d, Steady(d) PROVE Kept(d, ToggleOverview(d))
  BY ActivateKept, DeactivateKept DEF ToggleOverview

\* Resuming cues the deck, whether it was paused or not.
LEMMA PauseKept ==
  ASSUME NEW d, Steady(d)
  PROVE  Kept(d, Pause(d)) /\ Kept(d, Resume(d)) /\ Kept(d, TogglePause(d))
  <1>1. IsDeck(d) /\ SwitchesTyped(d) /\ ModesTyped(d) /\ CueTyped(d)
    BY SteadyShape
  <1>2. Kept(d, Pause(d))
    <2>1. CASE ~d.config.pause
      BY <2>1, KeptSelf DEF Pause
    <2>2. CASE d.config.pause
      <3> DEFINE a == [CancelAutoSlide(d) EXCEPT !.paused = TRUE]
      <3>1. Pause(d) = DispatchIf(~d.paused, a, "paused")
        BY <2>2 DEF Pause
      <3>2. Changes(d, a, {"timer", "paused"}) /\ a.timer = FALSE /\ a.paused = TRUE
        BY <1>1 DEF CancelAutoSlide, Changes, IsDeck, Fields
      <3> HIDE DEF a
      <3>3. /\ a.overview = d.overview /\ a.autoSlidePaused = d.autoSlidePaused /\ a.overlay = d.overlay
            /\ a.touch = d.touch /\ a.autoSlide = d.autoSlide /\ a.player = d.player
            /\ a.resetStacks = d.resetStacks /\ a.overviewClicks = d.overviewClicks
        BY <3>2 DEF Changes, Fields
      <3>4. ModesTyped(a) /\ CueTyped(a) /\ a.resetStacks \in BOOLEAN
        BY <1>1, <3>2, <3>3 DEF ModesTyped, CueTyped, SwitchesTyped
      <3>5. Kept(d, a)
        BY <3>2, <3>4, StopKept, ChangesMore DEF Switches
      <3>6. Kept(a, DispatchIf(~d.paused, a, "paused"))
        BY <3>5, EventKept DEF Kept
      <3> QED
        BY <3>1, <3>5, <3>6, KeptTrans
    <2> QED
      BY <2>1, <2>2
  <1>3. Kept(d, Resume(d))
    <2> DEFINE a == [d EXCEPT !.paused = FALSE]
               b == CueAutoSlide(a)
    <2>1. Resume(d) = DispatchIf(d.paused, b, "resumed")
      BY DEF Resume
    <2>2. Changes(d, a, {"paused"}) /\ a.paused = FALSE
      BY <1>1 DEF Changes, IsDeck, Fields
    <2> HIDE DEF a
    <2>3. /\ a.overview = d.overview /\ a.autoSlidePaused = d.autoSlidePaused /\ a.overlay = d.overlay
          /\ a.touch = d.touch /\ a.autoSlide = d.autoSlide /\ a.player = d.player /\ a.timer = d.timer
          /\ a.resetStacks = d.resetStacks /\ a.overviewClicks = d.overviewClicks
      BY <2>2 DEF Changes, Fields
    <2>4. ModesTyped(a) /\ CueTyped(a) /\ a.resetStacks \in BOOLEAN
      BY <1>1, <2>2, <2>3 DEF ModesTyped, CueTyped, SwitchesTyped
    <2>5. Steady(a) /\ a.config = d.config
      BY <2>2, <2>4, SteadyFrame, ChangesMore DEF Switches
    <2>6. Good(b) /\ Kept(a, b)
      BY <2>5, CueKept
    <2> HIDE DEF b
    <2>7. Kept(b, DispatchIf(d.paused, b, "resumed"))
      BY <2>6, EventKept DEF Kept
    <2> QED
      BY <2>1, <2>5, <2>6, <2>7 DEF Kept, Good
  <1> QED
    BY <1>2, <1>3 DEF TogglePause

LEMMA AutoSlideKept ==
  ASSUME NEW d, Steady(d)
  PROVE  /\ Kept(d, PauseAutoSlide(d)) /\ Kept(d, ResumeAutoSlide(d))
         /\ \A resume : Kept(d, ToggleAutoSlide(d, resume))
         /\ Kept(d, OnUserInput(d))
  <1>1. IsDeck(d) /\ SwitchesTyped(d) /\ ModesTyped(d) /\ CueTyped(d)
    BY SteadyShape
  <1>2. Kept(d, PauseAutoSlide(d))
    <2>1. CASE ~(d.autoSlide = "on" /\ ~d.autoSlidePaused)
      BY <2>1, KeptSelf DEF PauseAutoSlide
    <2>2. CASE d.autoSlide = "on" /\ ~d.autoSlidePaused
      <3> DEFINE a == DispatchEvent([d EXCEPT !.autoSlidePaused = TRUE], "autoslidepaused")
                 b == SetPlaying([a EXCEPT !.timer = FALSE], FALSE)
      <3>1. PauseAutoSlide(d) = b
        BY <2>2 DEF PauseAutoSlide
      <3>2. Changes(d, a, {"autoSlidePaused", "events"}) /\ a.autoSlidePaused = TRUE
        BY <1>1 DEF DispatchEvent, Changes, IsDeck, Fields
      <3> HIDE DEF a
      <3>3. /\ Changes(a, b, {"timer", "player"}) /\ b.timer = FALSE
            /\ b.player \in {a.player, "stopped"}
        BY <3>2 DEF SetPlaying, Changes, IsDeck, Fields
      <3> HIDE DEF b
      <3>4. /\ b.overview = d.overview /\ b.autoSlidePaused = TRUE /\ b.overlay = d.overlay
            /\ b.touch = d.touch /\ b.autoSlide = d.autoSlide /\ b.player \in {d.player, "stopped"}
            /\ b.resetStacks = d.resetStacks /\ b.overviewClicks = d.overviewClicks /\ b.paused = d.paused
        BY <3>2, <3>3 DEF Changes, Fields
      <3>5. ModesTyped(b) /\ CueTyped(b) /\ b.resetStacks \in BOOLEAN
        BY <1>1, <3>3, <3>4 DEF ModesTyped, CueTyped, SwitchesTyped
      <3>6. Changes(d, b, Switches)
        BY <3>2, <3>3 DEF Changes, Switches
      <3> QED
        BY <3>1, <3>3, <3>4, <3>5, <3>6, StopKept
    <2> QED
      BY <2>1, <2>2
  <1>3. Kept(d, ResumeAutoSlide(d))
    <2>1. CASE ~(d.autoSlide = "on" /\ d.autoSlidePaused)
      BY <2>1, KeptSelf DEF ResumeAutoSlide
    <2>2. CASE d.autoSlide = "on" /\ d.autoSlidePaused
      <3> DEFINE a == DispatchEvent([d EXCEPT !.autoSlidePaused = FALSE], "autoslideresumed")
      <3>1. ResumeAutoSlide(d) = CueAutoSlide(a)
        BY <2>2 DEF ResumeAutoSlide
      <3>2. Changes(d, a, {"autoSlidePaused", "events"}) /\ a.autoSlidePaused = FALSE
        BY <1>1 DEF DispatchEvent, Changes, IsDeck, Fields
      <3> HIDE DEF a
      <3>3. /\ a.overview = d.overview /\ a.overlay = d.overlay /\ a.timer = d.timer
            /\ a.touch = d.touch /\ a.autoSlide = d.autoSlide /\ a.player = d.player
            /\ a.resetStacks = d.resetStacks /\ a.overviewClicks = d.overviewClicks /\ a.paused = d.paused
        BY <3>2 DEF Changes, Fields
      <3>4. ModesTyped(a) /\ CueTyped(a) /\ a.resetStacks \in BOOLEAN
        BY <1>1, <3>2, <3>3 DEF ModesTyped, CueTyped, SwitchesTyped
      <3>5. Steady(a) /\ a.config = d.config
        BY <3>2, <3>4, SteadyFrame, ChangesMore DEF Switches
      <3>6. Good(CueAutoSlide(a)) /\ Kept(a, CueAutoSlide(a))
        BY <3>5, CueKept
      <3> QED
        BY <3>1, <3>5, <3>6 DEF Kept, Good
    <2> QED
      BY <2>1, <2>2
  <1>4. \A resume : Kept(d, ToggleAutoSlide(d, resume))
    BY <1>2, <1>3 DEF ToggleAutoSlide
  <1>5. Kept(d, OnUserInput(d))
    BY <1>2, KeptSelf DEF OnUserInput
  <1> QED
    BY <1>2, <1>3, <1>4, <1>5

LEMMA OverlayKept ==
  ASSUME NEW d, Steady(d)
  PROVE  Kept(d, CloseOverlay(d)) /\ Kept(d, ShowPreview(d)) /\ Kept(d, ShowHelp(d))
  <1>1. IsDeck(d) /\ SwitchesTyped(d) /\ ModesTyped(d)
    BY SteadyShape
  <1>2. ASSUME NEW overlay \in {"none", "help", "preview"}, NEW e, Changes(d, e, {"overlay"}), e.overlay = overlay
        PROVE  Kept(d, e)
    <2>1. /\ e.overview = d.overview /\ e.autoSlidePaused = d.autoSlidePaused /\ e.touch = d.touch
          /\ e.resetStacks = d.resetStacks /\ e.overviewClicks = d.overviewClicks /\ e.paused = d.paused
      BY <1>2 DEF Changes, Fields
    <2>2. ModesTyped(e) /\ e.resetStacks \in BOOLEAN
      BY <1>1, <1>2, <2>1 DEF ModesTyped, SwitchesTyped
    <2> QED
      BY <1>2, <2>2, MinorFrame, ChangesMore
  <1>3. Changes(d, CloseOverlay(d), {"overlay"}) /\ CloseOverlay(d).overlay = "none"
    BY <1>1 DEF CloseOverlay, Changes, IsDeck, Fields
  <1>4. Changes(d, ShowPreview(d), {"overlay"}) /\ ShowPreview(d).overlay = "preview"
    BY <1>1 DEF ShowPreview, CloseOverlay, Changes, IsDeck, Fields
  <1>5. CASE d.config.help
    <2>1. Changes(d, ShowHelp(d), {"overlay"}) /\ ShowHelp(d).overlay = "help"
      BY <1>1, <1>5 DEF ShowHelp, CloseOverlay, Changes, IsDeck, Fields
    <2> QED
      BY <1>2, <1>3, <1>4, <2>1
  <1>6. CASE ~d.config.help
    BY <1>2, <1>3, <1>4, <1>6, KeptSelf DEF ShowHelp
  <1> QED
    BY <1>5, <1>6

-----------------------------------------------------------------------------
(* Handlers *)

LEMMA EscapeKept ==
  ASSUME NEW d, Steady(d) PROVE Kept(d, OnEscape(d))
  BY OverlayKept, OverviewKept DEF OnEscape

LEMMA KeyKept ==
  ASSUME NEW d, Steady(d), NEW key, NEW wasPaused
  PROVE  Kept(d, KeyAction(d, key, wasPaused))
  <1> DEFINE name == Binding(d, key)
  <1>1. name \in Directions => Kept(d, Navigate(d, name))
    <2> HIDE DEF name
    <2> QED
      BY NavigateKept
  <1>2. Kept(d, Slide(d, 0, Undef)) /\ Kept(d, SlideEnd(d))
    <2>1. 0 \in Int /\ Undef \in Int
      BY DEF Undef
    <2> QED
      BY <2>1, SlideKept, EndKept
  <1>3. /\ Kept(d, DeactivateOverview(d)) /\ Kept(d, TogglePause(d)) /\ Kept(d, ToggleAutoSlide(d, wasPaused))
        /\ Kept(d, OnEscape(d)) /\ Kept(d, d)
    BY DeactivateKept, PauseKept, AutoSlideKept, EscapeKept, KeptSelf
  <1>4. KeyAction(d, key, wasPaused) =
          CASE name \in Directions -> Navigate(d, name)
            [] name = "home" -> Slide(d, 0, Undef)
            [] name = "end" -> SlideEnd(d)
            [] name = "deactivate" -> DeactivateOverview(d)
            [] name = "pause" -> TogglePause(d)
            [] name = "a" /\ d.config.autoSlideStoppable -> ToggleAutoSlide(d, wasPaused)
            [] name = "escape" -> OnEscape(d)
            [] OTHER -> d
    BY DEF KeyAction
  <1> HIDE DEF name
  <1>5. /\ name \in Directions => name \notin {"home", "end", "deactivate", "pause", "a", "escape"}
    BY DEF Directions
  <1> QED
    BY <1>1, <1>2, <1>3, <1>4, <1>5

LEMMA KeyDownKept ==
  ASSUME NEW d, Steady(d), NEW key
  PROVE  Kept(d, OnDocumentKeyDown(d, key)) /\ Kept(d, OnDocumentKeyPress(d))
  <1> DEFINE d1 == OnUserInput(d)
             done == KeyAction(d1, key, d.autoSlidePaused)
  <1>1. Kept(d, d1)
    BY AutoSlideKept
  <1>2. OnDocumentKeyDown(d, key) \in {d1, CueAutoSlide(done)}
    BY DEF OnDocumentKeyDown
  <1> HIDE DEF d1
  <1>3. Kept(d1, done)
    BY <1>1, KeyKept DEF Kept
  <1> HIDE DEF done
  <1>4. Kept(done, CueAutoSlide(done))
    BY <1>3, CueKept DEF Kept
  <1>5. Kept(d, OnDocumentKeyDown(d, key))
    BY <1>1, <1>2, <1>3, <1>4, KeptTrans
  <1>6. Kept(d, OnDocumentKeyPress(d))
    BY OverlayKept DEF OnDocumentKeyPress
  <1> QED
    BY <1>5, <1>6

LEMMA TouchFrame ==
  ASSUME NEW d, Steady(d), NEW e, Changes(d, e, {"touch"}), e.touch \in [captured : BOOLEAN, startCount : 0 .. 2]
  PROVE  Kept(d, e)
  <1>1. /\ e.overview = d.overview /\ e.autoSlidePaused = d.autoSlidePaused /\ e.overlay = d.overlay
        /\ e.resetStacks = d.resetStacks /\ e.overviewClicks = d.overviewClicks /\ e.paused = d.paused
    BY DEF Changes, Fields
  <1>2. ModesTyped(e) /\ e.resetStacks \in BOOLEAN
    BY <1>1, SteadyShape DEF ModesTyped, SwitchesTyped
  <1> QED
    BY <1>2, MinorFrame, ChangesMore

LEMMA CaptureKept ==
  ASSUME NEW d, Steady(d), NEW captured \in BOOLEAN, NEW touches \in 1 .. 2
  PROVE  /\ Kept(d, [d EXCEPT !.touch.captured = captured])
         /\ Kept(d, OnTouchStart(d, touches)) /\ Kept(d, OnTouchEnd(d))
  <1>1. IsDeck(d) /\ d.touch \in [captured : BOOLEAN, startCount : 0 .. 2]
    BY SteadyShape DEF ModesTyped
  <1>2. ASSUME NEW e, \E touch \in [captured : BOOLEAN, startCount : 0 .. 2] : e = [d EXCEPT !.touch = touch]
        PROVE  Kept(d, e)
    <2>1. Changes(d, e, {"touch"}) /\ e.touch \in [captured : BOOLEAN, startCount : 0 .. 2]
      BY <1>1, <1>2 DEF Changes, IsDeck, Fields
    <2> QED
      BY <2>1, TouchFrame
  <1>3. ASSUME NEW b \in BOOLEAN PROVE Kept(d, [d EXCEPT !.touch.captured = b])
    <2>1. [d.touch EXCEPT !.captured = b] \in [captured : BOOLEAN, startCount : 0 .. 2]
      BY <1>1
    <2>2. [d EXCEPT !.touch.captured = b] = [d EXCEPT !.touch = [d.touch EXCEPT !.captured = b]]
      OBVIOUS
    <2> QED
      BY <1>2, <2>1, <2>2
  <1>4. Kept(d, OnTouchStart(d, touches))
    <2>1. [d.touch EXCEPT !.startCount = touches] \in [captured : BOOLEAN, startCount : 0 .. 2]
      BY <1>1
    <2>2. OnTouchStart(d, touches) = [d EXCEPT !.touch = [d.touch EXCEPT !.startCount = touches]]
      BY DEF OnTouchStart
    <2> QED
      BY <1>2, <2>1, <2>2
  <1> QED
    BY <1>3, <1>4 DEF OnTouchEnd

LEMMA TouchKept ==
  ASSUME NEW d, Steady(d), NEW gesture
  PROVE  Kept(d, OnTouchMove(d, gesture))
  <1> DEFINE d1 == OnUserInput(d)
             caught == [d1 EXCEPT !.touch.captured = TRUE]
  <1>1. Kept(d, d1) /\ Kept(d, d)
    BY AutoSlideKept, KeptSelf
  <1>2. OnTouchMove(d, gesture) \in
          {d, ActivateOverview(caught), DeactivateOverview(caught), d1}
            \cup {Navigate(caught, name) : name \in Directions}
    BY DEF OnTouchMove
  <1> HIDE DEF d1
  <1>3. Kept(d1, caught)
    <2>1. TRUE \in BOOLEAN /\ 1 \in 1 .. 2
      OBVIOUS
    <2> QED
      BY <1>1, <2>1, CaptureKept DEF Kept
  <1> HIDE DEF caught
  <1>4. /\ Kept(caught, ActivateOverview(caught)) /\ Kept(caught, DeactivateOverview(caught))
        /\ \A name \in Directions : Kept(caught, Navigate(caught, name))
    BY <1>3, ActivateKept, DeactivateKept, NavigateKept DEF Kept
  <1> QED
    BY <1>1, <1>2, <1>3, <1>4, KeptTrans

LEMMA ClickKept ==
  ASSUME NEW d, Steady(d)
  PROVE  /\ \A delta \in Int : Kept(d, OnDocumentMouseScroll(d, delta))
         /\ \A part \in Int : Kept(d, OnProgressClicked(d, part))
         /\ \A b \in Directions : Kept(d, OnNavigateClicked(d, b))
         /\ \A s \in Leaves : Kept(d, OnOverviewSlideClicked(d, s))
         /\ Kept(d, OnAutoSlidePlayerClick(d))
  <1>1. \A name \in Directions : Kept(d, Navigate(d, name))
    BY NavigateKept
  <1>2. ASSUME NEW delta \in Int PROVE Kept(d, OnDocumentMouseScroll(d, delta))
    <2>1. "next" \in Directions /\ "prev" \in Directions
      BY DEF Directions
    <2> QED
      BY <1>1, <2>1 DEF OnDocumentMouseScroll
  <1> DEFINE d1 == OnUserInput(d)
  <1>3. Kept(d, d1)
    BY AutoSlideKept
  <1>4. ASSUME NEW part \in Int PROVE Kept(d, OnProgressClicked(d, part))
    <2> DEFINE h == IF d.config.rtl THEN Cardinality(HorizontalSlides) - part ELSE part
    <2>1. OnProgressClicked(d, part) = Slide(d1, h, Undef)
      BY DEF OnProgressClicked
    <2> HIDE DEF d1
    <2>2. h \in Int /\ Undef \in Int
      BY Shape DEF Undef
    <2> HIDE DEF h
    <2>3. Kept(d1, Slide(d1, h, Undef))
      BY <1>3, <2>2, SlideKept DEF Kept
    <2> QED
      BY <1>3, <2>1, <2>3, KeptTrans
  <1>5. ASSUME NEW b \in Directions PROVE Kept(d, OnNavigateClicked(d, b))
    <2>1. OnNavigateClicked(d, b) = Navigate(d1, b)
      BY DEF OnNavigateClicked
    <2> HIDE DEF d1
    <2>2. Kept(d1, Navigate(d1, b))
      BY <1>3, NavigateKept DEF Kept
    <2> QED
      BY <1>3, <2>1, <2>2, KeptTrans
  <1>6. ASSUME NEW s \in Leaves PROVE Kept(d, OnOverviewSlideClicked(d, s))
    <2> DEFINE e == DeactivateOverview(d)
               v == IF IsVerticalSlide(s) THEN s[2] ELSE 0
    <2>1. CASE ~d.overview
      BY <2>1, KeptSelf DEF OnOverviewSlideClicked
    <2>2. CASE d.overview
      <3>1. OnOverviewSlideClicked(d, s) = Slide(e, s[1], v)
        BY <2>2 DEF OnOverviewSlideClicked
      <3>2. Kept(d, e)
        BY DeactivateKept
      <3>3. s[1] \in Int /\ v \in Int
        BY LeafShape, IndexShape
      <3> HIDE DEF e, v
      <3>4. Kept(e, Slide(e, s[1], v))
        BY <3>2, <3>3, SlideKept DEF Kept
      <3> QED
        BY <3>1, <3>2, <3>4, KeptTrans
    <2> QED
      BY <2>1, <2>2
  <1>7. Kept(d, OnAutoSlidePlayerClick(d))
    <2> DEFINE e == Slide(d, 0, 0)
    <2>1. Kept(d, e)
      <3>1. 0 \in Int
        OBVIOUS
      <3> QED
        BY <3>1, SlideKept
    <2>2. OnAutoSlidePlayerClick(d) \in {ResumeAutoSlide(e), ToggleAutoSlide(d, d.autoSlidePaused)}
      BY DEF OnAutoSlidePlayerClick
    <2> HIDE DEF e
    <2>3. Kept(e, ResumeAutoSlide(e))
      BY <2>1, AutoSlideKept DEF Kept
    <2>4. Kept(d, ToggleAutoSlide(d, d.autoSlidePaused))
      BY AutoSlideKept
    <2> QED
      BY <2>1, <2>2, <2>3, <2>4, KeptTrans
  <1> QED
    BY <1>2, <1>4, <1>5, <1>6, <1>7

\* A timeout is not set when it fires.
LEMMA TimerOff ==
  ASSUME NEW d, Steady(d)
  PROVE  \A a : a = [d EXCEPT !.timer = FALSE] =>
           Steady(a) /\ a.config = d.config /\ Changes(d, a, {"timer"})
  <1> DEFINE a == [d EXCEPT !.timer = FALSE]
  <1>1. IsDeck(d) /\ SwitchesTyped(d) /\ ModesTyped(d) /\ CueTyped(d)
    BY SteadyShape
  <1>2. Changes(d, a, {"timer"}) /\ a.timer = FALSE
    BY <1>1 DEF Changes, IsDeck, Fields
  <1> SUFFICES Steady(a) /\ a.config = d.config /\ Changes(d, a, {"timer"})
    OBVIOUS
  <1> HIDE DEF a
  <1>3. a.autoSlide = d.autoSlide /\ a.player = d.player /\ a.resetStacks = d.resetStacks
    BY <1>2 DEF Changes, Fields
  <1>4. ModesTyped(a) /\ CueTyped(a) /\ a.resetStacks \in BOOLEAN
    <2>1. ModesTyped(a)
      BY <1>1, <1>2, Frames
    <2> QED
      BY <1>1, <1>2, <1>3, <2>1 DEF CueTyped, SwitchesTyped
  <1> QED
    BY <1>2, <1>4, SteadyFrame, ChangesMore DEF Switches

\* The timeout cues the deck again.
LEMMA TimeoutKept ==
  ASSUME NEW d, Steady(d)
  PROVE  Good(OnAutoSlideTimeout(d)) /\ OnAutoSlideTimeout(d).config = d.config
  <1> DEFINE a == [d EXCEPT !.timer = FALSE]
  <1>1. OnAutoSlideTimeout(d) = Navigate(a, "next")
    BY DEF OnAutoSlideTimeout
  <1>2. Steady(a) /\ a.config = d.config
    BY TimerOff
  <1> HIDE DEF a
  <1>3. "next" \in Directions
    BY DEF Directions
  <1> QED
    BY <1>1, <1>2, <1>3, NavigateKept DEF Kept

\* A stack that is reset is resumed at its start.
LEMMA ResetKept ==
  ASSUME NEW d, Steady(d) PROVE Kept(d, ResetStacks(d))
  <1> DEFINE e == ResetStacks(d)
  <1>1. IsDeck(d) /\ SwitchesTyped(d) /\ ModesTyped(d) /\ CueTyped(d) /\ d.cur # None
    BY SteadyShape
  <1>2. Changes(d, e, {"prevV", "resetStacks"}) /\ e.prevV = [h \in Stacks |-> 0] /\ e.resetStacks = FALSE
    BY <1>1 DEF ResetStacks, Changes, IsDeck, Fields
  <1> HIDE DEF e
  <1>3. /\ e.config = d.config /\ e.cur = d.cur /\ e.cls = d.cls /\ e.indexh = d.indexh /\ e.indexv = d.indexv
        /\ e.enabled = d.enabled /\ e.hash = d.hash /\ e.hashEvent = d.hashEvent /\ e.timer = d.timer
        /\ e.autoSlide = d.autoSlide /\ e.player = d.player /\ IsDeck(e)
    BY <1>2 DEF Changes, Fields
  <1>4. /\ Placed(e) /\ FragmentsTyped(e) /\ NeighboursShown(e) /\ Sorted(e) /\ MediaAgree(e)
        /\ BackgroundAgrees(e) /\ StateAgrees(e) /\ ControlsAgree(e) /\ AddressAgrees(e) /\ ModesTyped(e)
        /\ (Cued(d) => Cued(e))
    BY <1>1, <1>2, Frames DEF Steady, Core
  <1>5. ClassesAgree(e)
    <2>1. ClassesAgree(d)
      BY DEF Steady, Core
    <2>2. ClassesTyped(e)
      BY <1>3, <2>1 DEF ClassesAgree, ClassesTyped
    <2>3. e.prevV \in [Stacks -> Nat] /\ \A h \in Stacks : e.prevV[h] = 0
      BY <1>2
    <2>4. /\ \A h \in Stacks : \A s \in VerticalSlides(h) : e.cls[s] = "present" => s = e.cur
          /\ \A h \in DOMAIN Verticals : e.cls[<<h>>] = "present" <=> h = e.indexh
          /\ e.indexh \in Stacks => e.cls[e.cur] = "present"
          /\ \A s \in VerticalSlides(e.indexh) : e.cls[s] = "past" <=> s[2] < e.indexv
      BY <1>1, <1>3, <2>1 DEF ClassesAgree
    <2> QED
      BY <2>2, <2>3, <2>4 DEF ClassesAgree
  <1>6. SwitchesTyped(e)
    BY <1>1, <1>2, <1>3, <1>4 DEF SwitchesTyped, CueTyped, HashTyped
  <1>7. Core(e)
    BY <1>3, <1>4, <1>5, <1>6 DEF Steady, Core
  <1> QED
    BY <1>1, <1>3, <1>4, <1>7 DEF Kept, Steady, e

\* An iframe that has loaded is started only if its slide still waits for it.
LEMMA LoadKept ==
  ASSUME NEW d, Steady(d), NEW s \in IframeSlides PROVE Kept(d, IframeLoad(d, s))
  <1> DEFINE e == IframeLoad(d, s)
  <1>1. IsDeck(d) /\ SwitchesTyped(d) /\ ModesTyped(d) /\ CueTyped(d) /\ d.cur # None /\ MediaAgree(d)
    BY SteadyShape DEF Steady, Core
  <1>2. Changes(d, e, {"iframe", "started"})
    BY <1>1, ContentChanges
  <1>3. e.iframe = [d.iframe EXCEPT ![s] = "loaded"] /\ e.started = d.started \cup ({s} \cap d.onload)
    BY <1>1 DEF IframeLoad, IsDeck, Fields
  <1> HIDE DEF e
  <1>4. /\ e.config = d.config /\ e.cur = d.cur /\ e.playing = d.playing /\ e.onload = d.onload
        /\ e.enabled = d.enabled /\ e.hash = d.hash /\ e.hashEvent = d.hashEvent /\ e.timer = d.timer
        /\ e.autoSlide = d.autoSlide /\ e.player = d.player /\ e.resetStacks = d.resetStacks /\ IsDeck(e)
    BY <1>2 DEF Changes, Fields
  <1>5. /\ Placed(e) /\ FragmentsTyped(e) /\ NeighboursShown(e) /\ Sorted(e) /\ ClassesAgree(e)
        /\ BackgroundAgrees(e) /\ StateAgrees(e) /\ ControlsAgree(e) /\ AddressAgrees(e) /\ ModesTyped(e)
        /\ (Cued(d) => Cued(e))
    BY <1>1, <1>2, Frames DEF Steady, Core
  <1>6. MediaAgree(e)
    <2>1. e.iframe \in [IframeSlides -> {"blank", "loading", "loaded"}]
      BY <1>1, <1>3 DEF MediaAgree
    <2>2. e.playing \cup e.started \cup e.onload \subseteq {e.cur} \ {None}
      BY <1>1, <1>3, <1>4 DEF MediaAgree
    <2> QED
      BY <2>1, <2>2 DEF MediaAgree
  <1>7. SwitchesTyped(e)
    BY <1>1, <1>4, <1>5 DEF SwitchesTyped, CueTyped, HashTyped
  <1>8. Core(e)
    BY <1>4, <1>5, <1>6, <1>7 DEF Steady, Core
  <1> QED
    BY <1>1, <1>4, <1>5, <1>8 DEF Kept, Steady, e

-----------------------------------------------------------------------------
(* The address *)

LEMMA AddressFrame ==
  ASSUME NEW d, Steady(d), NEW e, Changes(d, e, {"hash", "hashEvent"}), HashTyped(e), e.hashEvent \in BOOLEAN
  PROVE  /\ Core(e) /\ Sorted(e) /\ e.cur # None /\ ControlsAgree(e) /\ e.config = d.config
         /\ AddressAgrees(e) => Kept(d, e)
  <1>1. IsDeck(d) /\ SwitchesTyped(d) /\ ModesTyped(d) /\ CueTyped(d) /\ d.cur # None
    BY SteadyShape
  <1>2. /\ e.config = d.config /\ e.cur = d.cur /\ e.enabled = d.enabled /\ e.timer = d.timer
        /\ e.autoSlide = d.autoSlide /\ e.player = d.player /\ e.resetStacks = d.resetStacks /\ IsDeck(e)
    BY DEF Changes, Fields
  <1>3. /\ Placed(e) /\ FragmentsTyped(e) /\ NeighboursShown(e) /\ Sorted(e) /\ ClassesAgree(e) /\ MediaAgree(e)
        /\ BackgroundAgrees(e) /\ StateAgrees(e) /\ ControlsAgree(e) /\ ModesTyped(e)
        /\ (Cued(d) => Cued(e))
    BY <1>1, Frames DEF Steady, Core
  <1>4. SwitchesTyped(e)
    BY <1>1, <1>2, <1>3 DEF SwitchesTyped, CueTyped
  <1>5. Core(e)
    BY <1>2, <1>3, <1>4 DEF Steady, Core
  <1> QED
    BY <1>1, <1>2, <1>3, <1>5 DEF Kept, Steady

LEMMA SetHashKept ==
  ASSUME NEW d, Steady(d), NEW url, url.h \in Int \ {Undef}, url.v \in Int \ {Undef}
  PROVE  Kept(d, SetHash(d, url))
  <1> DEFINE e == SetHash(d, url)
  <1>1. IsDeck(d) /\ SwitchesTyped(d)
    BY SteadyShape
  <1>2. Changes(d, e, {"hash", "hashEvent"}) /\ e.hash = url /\ e.hashEvent = (d.hashEvent \/ url # d.hash)
    BY <1>1, URLChanges DEF SetHash, IsDeck, Fields
  <1> HIDE DEF e
  <1>3. HashTyped(e) /\ e.hashEvent \in BOOLEAN
    BY <1>2 DEF HashTyped
  <1>4. AddressAgrees(e)
    <2>1. AddressAgrees(d)
      BY DEF Steady
    <2>2. e.cur = d.cur /\ e.config = d.config /\ e.indexh = d.indexh /\ e.indexv = d.indexv
      BY <1>2 DEF Changes, Fields
    <2> QED
      BY <1>2, <2>1, <2>2 DEF AddressAgrees
  <1> QED
    BY <1>2, <1>3, <1>4, AddressFrame DEF e

LEMMA SectionIndices ==
  ASSUME NEW s \in Sections PROVE s[1] \in Int /\ (IsVerticalSlide(s) => s[2] \in Int)
  <1>1. CASE s \in HorizontalSlides
    BY <1>1, HorizontalShape, IndexShape
  <1>2. CASE \E h \in Stacks : s \in VerticalSlides(h)
    BY <1>2, VerticalShape, IndexShape
  <1> QED
    BY <1>1, <1>2 DEF Sections

AlreadyThere(d, e) ==
  e = d /\ d.cur # None /\ d.hash.name = "" /\ <<d.hash.h, d.hash.v>> = <<d.indexh, d.indexv>>

\* The deck goes where an address leads that is read, unless it is there.
LEMMA ReadPlace ==
  ASSUME NEW d, Core(d), NEW e, e = ReadURL(d)
  PROVE  \/ \E h, v \in Int : e = Slide(d, h, v)
         \/ AlreadyThere(d, e)
  <1> DEFINE named == {s \in Sections : SlideId[s] = d.hash.name}
             s == CHOOSE s \in named : TRUE
             toIndex == <<d.hash.h, d.hash.v>>
             toPlace == <<Max({d.indexh, 0}), Max({d.indexv, 0})>>
             toNamed == <<s[1], IF IsVerticalSlide(s) THEN s[2] ELSE Undef>>
             to == IF d.hash.name = "" THEN toIndex ELSE IF named = {} THEN toPlace ELSE toNamed
  <1>1. IsDeck(d) /\ Placed(d) /\ HashTyped(d)
    BY DEF Core, SwitchesTyped
  <1>2. d.indexh \in Int /\ d.indexv \in Int /\ d.hash.h \in Int \ {Undef} /\ d.hash.v \in Int \ {Undef}
    BY <1>1, PlacedShape DEF HashTyped
  <1>3. named # {} => s \in Sections
    <2>1. named # {} => s \in named
      OBVIOUS
    <2> HIDE DEF s
    <2> QED
      BY <2>1
  <1>4. ReadURL(d) = IF d.hash.name = "" /\ to = <<d.indexh, d.indexv>> THEN d ELSE Slide(d, to[1], to[2])
    BY DEF ReadURL
  <1>5. to[1] \in Int /\ to[2] \in Int
    <2>1. toIndex[1] \in Int /\ toIndex[2] \in Int
      BY <1>2
    <2>2. toPlace[1] \in Int /\ toPlace[2] \in Int
      <3>1. 0 \in Int
        OBVIOUS
      <3> QED
        BY <1>2, <3>1, MaxMin
    <2>3. named # {} => toNamed[1] \in Int /\ toNamed[2] \in Int
      <3> HIDE DEF named, s
      <3>1. ASSUME named # {} PROVE s[1] \in Int /\ (IsVerticalSlide(s) => s[2] \in Int)
        <4>1. s \in Sections
          BY <1>3, <3>1
        <4> QED
          BY <4>1, SectionIndices
      <3> QED
        BY <3>1 DEF Undef
    <2> HIDE DEF named, toNamed, toPlace, toIndex
    <2> QED
      BY <2>1, <2>2, <2>3
  <1>6. d.hash.name = "" => to = toIndex
    OBVIOUS
  <1> HIDE DEF to
  <1>7. CASE d.hash.name = "" /\ to = <<d.indexh, d.indexv>>
    <2>1. e = d /\ toIndex = <<d.indexh, d.indexv>>
      BY <1>4, <1>6, <1>7
    <2>2. d.cur # None
      BY <1>1, <1>2, <2>1 DEF Placed
    <2> QED
      BY <1>7, <2>1, <2>2 DEF AlreadyThere
  <1>8. CASE ~(d.hash.name = "" /\ to = <<d.indexh, d.indexv>>)
    BY <1>4, <1>5, <1>8
  <1> QED
    BY <1>7, <1>8

LEMMA ReadEffect ==
  ASSUME NEW d, Core(d), Sorted(d), NEW e, e = ReadURL(d)
  PROVE  \/ Good(e) /\ e.config = d.config
         \/ AlreadyThere(d, e)
  <1>1. ASSUME NEW h \in Int, NEW v \in Int, e = Slide(d, h, v) PROVE Good(e) /\ e.config = d.config
    <2>1. IndexTyped(NoIndex) /\ e = SlideTo(d, h, v, NoIndex)
      BY <1>1 DEF IndexTyped, NoIndex, Slide
    <2> QED
      BY <2>1, SlideEffect
  <1>2. (\E h, v \in Int : e = Slide(d, h, v)) \/ AlreadyThere(d, e)
    BY ReadPlace
  <1> QED
    BY <1>1, <1>2

\* A hashchange that is handled leaves the deck where the address leads.
LEMMA HashChangeKept ==
  ASSUME NEW d, Steady(d) PROVE Kept(d, ReadURL([d EXCEPT !.hashEvent = FALSE]))
  <1> DEFINE a == [d EXCEPT !.hashEvent = FALSE]
             e == ReadURL(a)
  <1> SUFFICES Kept(d, e)
    OBVIOUS
  <1>1. IsDeck(d) /\ SwitchesTyped(d)
    BY SteadyShape
  <1>2. Changes(d, a, {"hash", "hashEvent"}) /\ a.hash = d.hash /\ a.hashEvent = FALSE
    BY <1>1 DEF Changes, IsDeck, Fields
  <1> HIDE DEF a
  <1>3. HashTyped(a) /\ a.hashEvent \in BOOLEAN
    BY <1>1, <1>2 DEF HashTyped, SwitchesTyped
  <1>4. /\ Core(a) /\ Sorted(a) /\ a.cur # None /\ a.config = d.config
        /\ AddressAgrees(a) => Kept(d, a)
    BY <1>2, <1>3, AddressFrame
  <1>5. CASE Good(e) /\ e.config = a.config
    BY <1>4, <1>5 DEF Good, Kept
  <1>6. CASE e = a /\ a.hash.name = "" /\ <<a.hash.h, a.hash.v>> = <<a.indexh, a.indexv>>
    <2>1. AddressAgrees(a)
      BY <1>6 DEF AddressAgrees, Target
    <2> QED
      BY <1>4, <1>6, <2>1
  <1> QED
    BY <1>4, <1>5, <1>6, ReadEffect DEF AlreadyThere

-----------------------------------------------------------------------------
(* Synchronising and configuring *)

\* The fragments can be numbered anew without hiding one before a visible one.
Sortable(d) == PrefixShown(d) /\ (Numbered(d) \/ d.visible = {} \/ d.visible = Fragments)

\* All parts agree, whether the deck has begun or not.
Settled(d) == Core(d) /\ Sorted(d) /\ ControlsAgree(d) /\ AddressAgrees(d) /\ Cued(d)

LEMMA SettledIsGood == \A d : Good(d) <=> Settled(d) /\ d.cur # None
  BY DEF Settled, Good, Steady

\* sync brings every part in line again, for the configuration there is.
LEMMA SyncEffect ==
  ASSUME NEW d, Core(d), Sortable(d), NEW e, e = Sync(d)
  PROVE  Settled(e) /\ e.config = d.config /\ e.cur = d.cur
         /\ (d.cur = None => e.hash = d.hash /\ e.hashEvent = d.hashEvent)
  <1> DEFINE listening == [AddEventListeners(RemoveEventListeners(d)) EXCEPT !.autoSlide = d.config.autoSlide]
             d1 == CueAutoSlide(listening)
             bare == CreateBackgrounds(d1)
             written == WriteURL(bare)
             sorted == SortAllFragments(written)
             d2 == UpdateControls(sorted)
             behind == UpdateBackground(d2, TRUE)
             shown == UpdateSlidesVisibility(behind)
  <1>1. /\ IsDeck(d) /\ d.config \in ConfigType /\ SwitchesTyped(d) /\ Placed(d) /\ FragmentsTyped(d)
        /\ NeighboursShown(d) /\ ClassesAgree(d) /\ MediaAgree(d) /\ BackgroundAgrees(d) /\ StateAgrees(d)
        /\ ModesTyped(d) /\ CueTyped(d) /\ HashTyped(d) /\ d.cur \in Leaves \cup {None}
        /\ d.config.autoSlide \in AutoSlides
    BY PlacedShape DEF Core, SwitchesTyped, ConfigType, AutoSlides
  <1>2. e = StartEmbeddedContent(shown, shown.cur)
    BY DEF Sync
  <1>3. /\ Changes(d, listening, {"listeners", "autoSlide"}) /\ listening.autoSlide = d.config.autoSlide
        /\ IsDeck(listening)
    BY <1>1 DEF AddEventListeners, RemoveEventListeners, Changes, IsDeck, Fields
  <1> HIDE DEF listening
  <1>4. /\ listening.config = d.config /\ listening.cur = d.cur /\ listening.player = d.player
        /\ listening.timer = d.timer /\ FragmentsTyped(listening)
    <2>1. FragmentsTyped(listening)
      BY <1>1, <1>3, Frames
    <2> QED
      BY <1>3, <2>1 DEF Changes, Fields
  <1>5. Changes(listening, d1, {"timer", "autoSlide", "player"}) /\ CueTyped(d1) /\ Cued(d1)
    <2>1. CueTyped(listening)
      BY <1>1, <1>3, <1>4 DEF CueTyped
    <2> QED
      BY <1>1, <1>3, <1>4, <2>1, CueEffect
  <1> HIDE DEF d1
  <1>6. Changes(d, d1, {"listeners", "timer", "autoSlide", "player"}) /\ IsDeck(d1)
    BY <1>3, <1>5 DEF Changes
  <1>7. /\ Changes(d1, bare, {"bgCls", "bgVideo", "bgPlaying", "prevBg"}) /\ IsDeck(bare)
        /\ bare.bgVideo = {} /\ bare.bgPlaying = {} /\ bare.prevBg = None
    BY <1>6, BackgroundChanges DEF CreateBackgrounds, Changes, IsDeck, Fields
  <1> HIDE DEF bare
  <1>8. Placed(bare) /\ HashTyped(bare) /\ bare.hashEvent \in BOOLEAN /\ bare.cur = d.cur /\ bare.config = d.config
        /\ bare.hash = d.hash /\ bare.hashEvent = d.hashEvent
    <2>1. Placed(bare)
      BY <1>1, <1>6, <1>7, Frames
    <2>2. bare.hash = d.hash /\ bare.hashEvent = d.hashEvent /\ bare.cur = d.cur /\ bare.config = d.config
      BY <1>6, <1>7 DEF Changes, Fields
    <2> QED
      BY <1>1, <2>1, <2>2 DEF HashTyped, SwitchesTyped
  <1>9. /\ Changes(bare, written, {"hash", "hashEvent"}) /\ HashTyped(written) /\ written.hashEvent \in BOOLEAN
        /\ AddressAgrees(written) /\ IsDeck(written)
    BY <1>7, <1>8, WriteURLEffect DEF Changes
  <1>10. d.cur = None => written.hash = d.hash /\ written.hashEvent = d.hashEvent
    BY <1>8 DEF WriteURL
  <1> HIDE DEF written
  <1>11. /\ Changes(d, written, {"listeners", "timer", "autoSlide", "player", "bgCls", "bgVideo", "bgPlaying", "prevBg",
                                 "hash", "hashEvent"})
    BY <1>6, <1>7, <1>9 DEF Changes
  <1>12. FragmentsTyped(written) /\ Sortable(written)
    <2>1. written.visible = d.visible /\ written.fidx = d.fidx
      BY <1>11 DEF Changes, Fields
    <2>2. FragmentsTyped(written)
      BY <1>1, <1>11, Frames
    <2> QED
      BY <2>1, <2>2 DEF Sortable, PrefixShown, Numbered
  <1>13. Changes(written, sorted, {"fidx"}) /\ FragmentsTyped(sorted) /\ Sorted(sorted) /\ IsDeck(sorted)
    <2>1. FragmentsTyped(sorted) /\ Numbered(sorted) /\ PrefixShown(sorted)
      BY <1>9, <1>12, SortAllEffect DEF Sortable
    <2> QED
      BY <1>9, <2>1, SortChanges DEF Changes, Sorted
  <1> HIDE DEF sorted
  <1>14. sorted.enabled \subseteq Directions
    <2>1. sorted.enabled = d.enabled
      BY <1>11, <1>13 DEF Changes, Fields
    <2> QED
      BY <1>1, <2>1 DEF SwitchesTyped
  <1>15. Changes(sorted, d2, {"enabled"}) /\ d2.enabled \subseteq Directions /\ ControlsAgree(d2) /\ IsDeck(d2)
    BY <1>13, <1>14, UpdateControlsEffect DEF Changes
  <1> HIDE DEF d2
  <1>16. Changes(d, d2, {"listeners", "timer", "autoSlide", "player", "bgCls", "bgVideo", "bgPlaying", "prevBg",
                         "hash", "hashEvent", "fidx", "enabled"})
    BY <1>11, <1>13, <1>15 DEF Changes
  <1>17. Changes(d2, behind, {"bgCls", "bgPlaying", "prevBg"}) /\ BackgroundAgrees(behind) /\ IsDeck(behind)
    <2>1. d2.bgVideo = {} /\ d2.bgPlaying = {} /\ d2.prevBg = None
      BY <1>7, <1>9, <1>13, <1>15 DEF Changes, Fields
    <2>2. d2.shown = d.shown
      BY <1>16 DEF Changes, Fields
    <2>3. DisplayTyped(d2)
      BY <1>1, <2>1, <2>2 DEF BackgroundAgrees, DisplayTyped
    <2>4. Placed(d2)
      BY <1>1, <1>16, Frames
    <2>5. d2.bgPlaying \subseteq {d2.prevBg} /\ (d2.cur = None => d2.bgVideo = {})
      BY <2>1
    <2>6. Changes(d2, behind, {"bgCls", "bgPlaying", "prevBg"}) /\ BackgroundAgrees(behind)
      BY <1>15, <2>3, <2>4, <2>5, BackgroundEffect
    <2> QED
      BY <2>6 DEF Changes
  <1> HIDE DEF behind
  <1>18. Changes(behind, shown, {"shown", "bgVideo"}) /\ BackgroundAgrees(shown) /\ IsDeck(shown)
    <2>1. DisplayTyped(behind)
      BY <1>17 DEF BackgroundAgrees
    <2>2. /\ Changes(behind, shown, {"shown", "bgVideo"}) /\ DisplayTyped(shown) /\ IsDeck(shown)
          /\ behind.indexh = Undef => shown = behind
      BY <1>17, <2>1, VisibilityEffect DEF Changes
    <2>3. shown.cur = behind.cur /\ shown.bgPlaying = behind.bgPlaying /\ shown.prevBg = behind.prevBg
      BY <2>2 DEF Changes, Fields
    <2>4. behind.cur = None => behind.indexh = Undef
      <3>1. behind.cur = d.cur /\ behind.indexh = d.indexh
        BY <1>16, <1>17 DEF Changes, Fields
      <3> QED
        BY <1>1, <3>1 DEF Placed
    <2> HIDE DEF shown
    <2> QED
      BY <1>17, <2>2, <2>3, <2>4 DEF BackgroundAgrees
  <1> HIDE DEF shown
  <1>19. Changes(d, shown, {"listeners", "timer", "autoSlide", "player", "bgCls", "bgVideo", "bgPlaying", "prevBg",
                            "hash", "hashEvent", "fidx", "enabled", "shown"})
    BY <1>16, <1>17, <1>18 DEF Changes
  <1>20. Changes(shown, e, {"playing", "started", "onload", "iframe"}) /\ MediaAgree(e) /\ IsDeck(e)
    <2>1. MediaAgree(shown)
      BY <1>1, <1>19, Frames
    <2>2. StopEmbeddedContent(shown, None) = shown
      BY DEF StopEmbeddedContent
    <2>3. shown.playing \cup shown.started \cup shown.onload \subseteq {None, shown.cur} \ {None}
          /\ shown.iframe \in [IframeSlides -> {"blank", "loading", "loaded"}]
      BY <2>1 DEF MediaAgree
    <2>4. Changes(shown, e, {"playing", "started", "onload", "iframe"}) /\ MediaAgree(e)
      BY <1>2, <1>18, <2>2, <2>3, ContentEffect
    <2> QED
      BY <2>4 DEF Changes
  <1>21. Changes(d, e, {"listeners", "timer", "autoSlide", "player", "bgCls", "bgVideo", "bgPlaying", "prevBg",
                        "hash", "hashEvent", "fidx", "enabled", "shown", "playing", "started", "onload", "iframe"})
    BY <1>19, <1>20 DEF Changes
  <1>22. /\ Placed(e) /\ NeighboursShown(e) /\ ClassesAgree(e) /\ StateAgrees(e) /\ ModesTyped(e)
    BY <1>1, <1>21, Frames
  <1>23. FragmentsTyped(e) /\ Sorted(e)
    <2>1. Changes(sorted, e, {"enabled", "bgCls", "bgVideo", "bgPlaying", "prevBg", "shown", "playing", "started",
                              "onload", "iframe"})
      BY <1>15, <1>17, <1>18, <1>20 DEF Changes
    <2> QED
      BY <1>13, <2>1, Frames
  <1>24. BackgroundAgrees(e)
    BY <1>18, <1>20, Frames
  <1>25. ControlsAgree(e)
    <2>1. Changes(d2, e, {"bgCls", "bgVideo", "bgPlaying", "prevBg", "shown", "playing", "started", "onload", "iframe"})
      BY <1>17, <1>18, <1>20 DEF Changes
    <2> QED
      BY <1>15, <2>1, Frames
  <1>26. AddressAgrees(e) /\ e.hash = written.hash /\ e.hashEvent = written.hashEvent
    <2>1. Changes(written, e, {"fidx", "enabled", "bgCls", "bgVideo", "bgPlaying", "prevBg", "shown", "playing",
                               "started", "onload", "iframe"})
      BY <1>13, <1>15, <1>17, <1>18, <1>20 DEF Changes
    <2>2. AddressAgrees(e)
      BY <1>9, <2>1, Frames
    <2> QED
      BY <2>1, <2>2 DEF Changes, Fields
  <1>27. Cued(e) /\ CueTyped(e)
    <2>1. Changes(d1, e, {"hash", "hashEvent", "fidx", "enabled", "bgCls", "bgVideo", "bgPlaying", "prevBg", "shown",
                          "playing", "started", "onload", "iframe"})
      BY <1>7, <1>9, <1>13, <1>15, <1>17, <1>18, <1>20 DEF Changes
    <2>2. Cued(e)
      BY <1>5, <1>6, <2>1, Frames
    <2>3. e.autoSlide = d1.autoSlide /\ e.player = d1.player /\ e.timer = d1.timer
      BY <2>1 DEF Changes, Fields
    <2> QED
      BY <1>5, <2>2, <2>3 DEF CueTyped
  <1>28. e.config = d.config /\ e.cur = d.cur /\ e.resetStacks = d.resetStacks
    BY <1>21 DEF Changes, Fields
  <1>29. e.enabled = d2.enabled
    BY <1>17, <1>18, <1>20 DEF Changes, Fields
  <1>30. SwitchesTyped(e)
    BY <1>1, <1>9, <1>15, <1>22, <1>26, <1>27, <1>28, <1>29 DEF SwitchesTyped, HashTyped
  <1>31. Core(e)
    BY <1>1, <1>20, <1>22, <1>23, <1>24, <1>28, <1>30 DEF Core
  <1> QED
    BY <1>10, <1>23, <1>25, <1>26, <1>27, <1>28, <1>31 DEF Settled

LEMMA ResumeEffect ==
  ASSUME NEW d, Core(d), NEW e, e = Resume(d)
  PROVE  /\ Changes(d, e, {"paused", "timer", "autoSlide", "player", "events"})
         /\ ModesTyped(e) /\ CueTyped(e)
  <1> DEFINE a == [d EXCEPT !.paused = FALSE]
             b == CueAutoSlide(a)
  <1>1. /\ IsDeck(d) /\ ModesTyped(d) /\ CueTyped(d) /\ FragmentsTyped(d) /\ d.cur \in Leaves \cup {None}
        /\ d.config.autoSlide \in AutoSlides
    BY PlacedShape DEF Core, SwitchesTyped, ConfigType, AutoSlides
  <1>2. e = DispatchIf(d.paused, b, "resumed")
    BY DEF Resume
  <1>3. Changes(d, a, {"paused"}) /\ a.paused = FALSE /\ IsDeck(a)
    BY <1>1 DEF Changes, IsDeck, Fields
  <1> HIDE DEF a
  <1>4. /\ a.overview = d.overview /\ a.autoSlidePaused = d.autoSlidePaused /\ a.overlay = d.overlay
        /\ a.touch = d.touch /\ a.autoSlide = d.autoSlide /\ a.player = d.player /\ a.timer = d.timer
        /\ a.overviewClicks = d.overviewClicks /\ a.cur = d.cur /\ a.config = d.config
    BY <1>3 DEF Changes, Fields
  <1>5. ModesTyped(a) /\ CueTyped(a)
    BY <1>1, <1>3, <1>4 DEF ModesTyped, CueTyped
  <1>6. FragmentsTyped(a)
    BY <1>1, <1>3, Frames
  <1>7. Changes(a, b, {"timer", "autoSlide", "player"}) /\ CueTyped(b)
    BY <1>1, <1>3, <1>4, <1>5, <1>6, CueEffect
  <1> HIDE DEF b
  <1>8. IsDeck(b) /\ ModesTyped(b)
    <2>1. IsDeck(b)
      BY <1>7 DEF Changes
    <2> QED
      BY <1>3, <1>5, <1>7, <2>1, Frames
  <1>9. Changes(b, e, {"events"})
    BY <1>2, <1>8, EventChanges
  <1>10. ModesTyped(e)
    BY <1>8, <1>9, Frames
  <1>11. CueTyped(e)
    BY <1>7, <1>9 DEF CueTyped, Changes, Fields
  <1> QED
    BY <1>3, <1>7, <1>9, <1>10, <1>11 DEF Changes

\* A configuration that does not turn fragments on leaves all parts in line.
LEMMA ConfigureEffect ==
  ASSUME NEW d, Core(d), Sortable(d), NEW config \in ConfigType, config.fragments => d.config.fragments,
         NEW e, e = Configure(d, config)
  PROVE  Settled(e) /\ e.config = config /\ e.cur = d.cur
         /\ (d.cur = None => e.hash = d.hash /\ e.hashEvent = d.hashEvent)
  <1> DEFINE a == [d EXCEPT !.config = config]
             b == IF config.pause THEN a ELSE Resume(a)
             c == IF Cardinality(Sections) > 1 /\ config.autoSlide = "on" /\ config.autoSlideStoppable
                  THEN [b EXCEPT !.player = "stopped", !.autoSlidePaused = FALSE]
                  ELSE [b EXCEPT !.player = "none"]
             f == IF config.fragments THEN c ELSE [c EXCEPT !.visible = Fragments, !.curfrag = {}]
  <1>1. e = Sync(f)
    BY DEF Configure
  <1>2. IsDeck(d) /\ SwitchesTyped(d)
    BY DEF Core
  <1>3. Changes(d, a, {"config"}) /\ a.config = config /\ IsDeck(a)
    BY <1>2 DEF Changes, IsDeck, Fields
  <1> HIDE DEF a
  <1>4. Core(a) /\ a.visible = d.visible /\ a.fidx = d.fidx /\ a.cur = d.cur
    <2>1. /\ Placed(a) /\ FragmentsTyped(a) /\ ClassesAgree(a) /\ MediaAgree(a) /\ BackgroundAgrees(a)
          /\ StateAgrees(a) /\ ModesTyped(a)
      BY <1>2, <1>3, Frames DEF Core, SwitchesTyped
    <2>2. /\ a.visible = d.visible /\ a.fidx = d.fidx /\ a.cur = d.cur /\ a.enabled = d.enabled /\ a.hash = d.hash
          /\ a.hashEvent = d.hashEvent /\ a.timer = d.timer /\ a.autoSlide = d.autoSlide
          /\ a.player = d.player /\ a.resetStacks = d.resetStacks
      BY <1>3 DEF Changes, Fields
    <2>3. NeighboursShown(a)
      BY <1>3, <2>2 DEF Core, NeighboursShown
    <2>4. SwitchesTyped(a)
      BY <1>2, <2>1, <2>2 DEF SwitchesTyped, CueTyped, HashTyped
    <2> QED
      BY <1>3, <2>1, <2>2, <2>3, <2>4 DEF Core
  <1>5. Changes(a, b, {"paused", "timer", "autoSlide", "player", "events"}) /\ ModesTyped(b) /\ CueTyped(b)
    <2>1. CASE config.pause
      BY <1>4, <2>1, ChangesNothing DEF Core, SwitchesTyped
    <2>2. CASE ~config.pause
      BY <1>4, <2>2, ResumeEffect
    <2> QED
      BY <2>1, <2>2
  <1> HIDE DEF b
  <1>6. /\ Changes(b, c, {"player", "autoSlidePaused"}) /\ c.player \in {"none", "stopped"}
        /\ c.autoSlidePaused \in BOOLEAN
    <2>1. IsDeck(b) /\ b.autoSlidePaused \in BOOLEAN
      BY <1>5 DEF ModesTyped, Changes
    <2> QED
      BY <2>1 DEF Changes, IsDeck, Fields
  <1> HIDE DEF c
  <1>7. Changes(a, c, Switches) /\ IsDeck(c)
    BY <1>5, <1>6 DEF Changes, Switches
  <1>8. ModesTyped(c) /\ CueTyped(c) /\ c.resetStacks \in BOOLEAN
    <2>1. /\ c.overview = b.overview /\ c.paused = b.paused /\ c.overlay = b.overlay
          /\ c.touch = b.touch /\ c.autoSlide = b.autoSlide /\ c.timer = b.timer
          /\ c.overviewClicks = b.overviewClicks /\ c.resetStacks = b.resetStacks
      BY <1>6 DEF Changes, Fields
    <2>2. b.resetStacks = a.resetStacks
      BY <1>5 DEF Changes, Fields
    <2>3. a.resetStacks \in BOOLEAN
      BY <1>4 DEF Core, SwitchesTyped
    <2> QED
      BY <1>5, <1>6, <2>1, <2>2, <2>3 DEF ModesTyped, CueTyped
  <1>9. Core(c)
    BY <1>4, <1>7, <1>8, CoreFrame
  <1>10. /\ c.visible = d.visible /\ c.fidx = d.fidx /\ c.cur = d.cur /\ c.config = config /\ c.hash = d.hash
         /\ c.hashEvent = d.hashEvent
    BY <1>3, <1>7 DEF Changes, Switches, Fields
  <1>11. Core(f) /\ Sortable(f) /\ f.config = config /\ f.cur = d.cur /\ f.hash = d.hash /\ f.hashEvent = d.hashEvent
    <2>1. CASE config.fragments
      BY <1>9, <1>10, <2>1 DEF Sortable, PrefixShown, Numbered
    <2>2. CASE ~config.fragments
      <3>1. f = [c EXCEPT !.visible = Fragments, !.curfrag = {}]
        BY <2>2
      <3> HIDE DEF f
      <3>2. Changes(c, f, {"visible", "curfrag"}) /\ f.visible = Fragments /\ f.curfrag = {} /\ IsDeck(f)
        BY <1>7, <3>1 DEF Changes, IsDeck, Fields
      <3>3. /\ f.config = config /\ f.cur = d.cur /\ f.hash = d.hash /\ f.hashEvent = d.hashEvent /\ f.fidx = c.fidx
            /\ f.enabled = c.enabled /\ f.resetStacks = c.resetStacks
        BY <1>10, <3>2 DEF Changes, Fields
      <3>4. FragmentsTyped(f) /\ NeighboursShown(f) /\ Sortable(f)
        BY <1>9, <2>2, <3>2, <3>3 DEF FragmentsTyped, NeighboursShown, Sortable, PrefixShown, Core
      <3>5. /\ Placed(f) /\ ClassesAgree(f) /\ MediaAgree(f) /\ BackgroundAgrees(f)
            /\ StateAgrees(f) /\ ModesTyped(f)
        BY <1>7, <1>8, <1>9, <3>2, Frames DEF Core
      <3>6. CueTyped(f)
        BY <1>8, <3>2 DEF CueTyped, Changes, Fields
      <3>7. SwitchesTyped(f)
        BY <1>9, <1>10, <3>3, <3>5, <3>6 DEF Core, SwitchesTyped, HashTyped
      <3> QED
        BY <3>2, <3>3, <3>4, <3>5, <3>7 DEF Core
    <2> QED
      BY <2>1, <2>2
  <1> HIDE DEF f
  <1> QED
    BY <1>1, <1>11, SyncEffect

\* Between two handlers a deck is given another configuration.
LEMMA ConfigureKept ==
  ASSUME NEW d, Steady(d), NEW config \in ConfigType, config.fragments => d.config.fragments
  PROVE  /\ Good(Sync(d)) /\ Sync(d).config = d.config
         /\ Good(Configure(d, config)) /\ Configure(d, config).config = config
  <1>1. Core(d) /\ Sortable(d) /\ d.cur # None
    BY DEF Steady, Sorted, Sortable
  <1> QED
    BY <1>1, SyncEffect, ConfigureEffect, SettledIsGood

-----------------------------------------------------------------------------
(* Starting *)

NoneEntered(cls) == cls \in [Sections -> {"", "future"}]
Unopened(config, url, cls) == [NewDeck(config, url) EXCEPT !.cls = cls]

\* Before it has begun, there is nothing in a deck that could disagree.
LEMMA NewEffect ==
  ASSUME NEW config \in ConfigType, NEW url, url.h \in Int \ {Undef}, url.v \in Int \ {Undef},
         NEW cls, NoneEntered(cls), NEW d, d = Unopened(config, url, cls)
  PROVE  Core(d) /\ Sortable(d) /\ Cued(d) /\ d.cur = None /\ d.config = config
  <1>1. /\ d.config = config /\ d.hash = url /\ d.indexh = Undef /\ d.indexv = Undef /\ d.cur = None
        /\ d.visible = {} /\ d.curfrag = {} /\ d.state = <<>> /\ d.root = {} /\ d.enabled = {}
        /\ d.shown = Sections /\ d.bgVideo = {} /\ d.bgPlaying = {} /\ d.prevBg = None
        /\ d.playing = {} /\ d.onload = {} /\ d.started = {}
    BY DEF Unopened, NewDeck
  <1>2. /\ d.overview = FALSE /\ d.paused = FALSE /\ d.overlay = "none" /\ d.autoSlide = "off"
        /\ d.autoSlidePaused = FALSE /\ d.timer = FALSE /\ d.player = "none" /\ d.overviewClicks = {}
        /\ d.touch = [captured |-> FALSE, startCount |-> 0] /\ d.hashEvent = FALSE /\ d.resetStacks = FALSE
        /\ IsDeck(d)
    BY DEF Unopened, NewDeck, IsDeck, Fields
  <1>3. d.cls = cls
    BY DEF Unopened, NewDeck
  <1>4. d.prevV = [h \in Stacks |-> 0]
    BY DEF Unopened, NewDeck
  <1>5. d.fidx = [f \in Fragments |-> FragmentIndices[f[1]][f[2]]]
    BY DEF Unopened, NewDeck
  <1>6. d.iframe = [l \in IframeSlides |-> "blank"]
    BY DEF Unopened, NewDeck
  <1>7. FragmentsTyped(d) /\ Sortable(d)
    <2>1. \A f \in Fragments : FragmentIndices[f[1]][f[2]] \in Nat \cup {Undef}
      BY FragmentOfLeaf, FragmentShape
    <2>2. d.fidx \in [Fragments -> Nat \cup {Undef}]
      BY <1>5, <2>1
    <2>3. Sortable(d)
      BY <1>1 DEF Sortable, PrefixShown
    <2> QED
      BY <1>1, <2>2, <2>3 DEF FragmentsTyped
  <1>8. Placed(d) /\ NeighboursShown(d) /\ BackgroundAgrees(d)
    BY <1>1 DEF Placed, NeighboursShown, BackgroundAgrees, DisplayTyped
  <1>9. MediaAgree(d)
    <2>1. d.iframe \in [IframeSlides -> {"blank", "loading", "loaded"}]
      BY <1>6
    <2> QED
      BY <1>1, <2>1 DEF MediaAgree
  <1>10. ClassesAgree(d)
    <2>1. cls \in [Sections -> {"", "past", "present", "future"}] /\ \A s \in Sections : cls[s] # "present"
      BY DEF NoneEntered
    <2>2. ClassesTyped(d)
      BY <1>3, <2>1 DEF ClassesTyped
    <2>3. \A s \in Sections : d.cls[s] # "present"
      BY <1>3, <2>1
    <2>4. d.prevV \in [Stacks -> Nat] /\ \A h \in Stacks : d.prevV[h] = 0
      BY <1>4
    <2>5. d.cur = None
      BY <1>1
    <2> QED
      BY <2>2, <2>3, <2>4, <2>5, SectionShape DEF ClassesAgree
  <1>11. StateAgrees(d)
    BY <1>1 DEF StateAgrees, NamesOf
  <1>12. SwitchesTyped(d)
    <2>1. d.touch \in [captured : BOOLEAN, startCount : 0 .. 2]
      <3>1. [captured |-> FALSE, startCount |-> 0] \in [captured : BOOLEAN, startCount : 0 .. 2]
        OBVIOUS
      <3>2. d.touch = [captured |-> FALSE, startCount |-> 0]
        BY <1>2
      <3> QED
        BY Zenon, <3>1, <3>2
    <2>2. ModesTyped(d)
      BY <1>2, <2>1 DEF ModesTyped
    <2>3. CueTyped(d)
      BY <1>2 DEF CueTyped, AutoSlides
    <2>4. HashTyped(d)
      BY <1>1 DEF HashTyped
    <2>5. d.enabled \subseteq Directions /\ d.hashEvent \in BOOLEAN /\ d.resetStacks \in BOOLEAN
      BY <1>1, <1>2
    <2> QED
      BY <2>2, <2>3, <2>4, <2>5 DEF SwitchesTyped
  <1>13. IsDeck(d) /\ d.config = config /\ d.cur = None
    BY <1>1, <1>2
  <1>14. Cued(d)
    BY <1>1, <1>2 DEF Cued
  <1> QED
    BY <1>7, <1>8, <1>9, <1>10, <1>11, <1>12, <1>13, <1>14 DEF Core

LEMMA StartEffect ==
  ASSUME NEW config \in ConfigType, NEW url, url.h \in Int \ {Undef}, url.v \in Int \ {Undef},
         NEW e, e = Start(NewDeck(config, url))
  PROVE  Good(e) /\ e.config = config
  <1> DEFINE a == ResetVerticalSlides(NewDeck(config, url))
             b == Configure(a, config)
             c == ReadURL(b)
  <1>1. Core(a) /\ Sortable(a) /\ a.cur = None /\ a.config = config
    <2> DEFINE n == NewDeck(config, url)
               cls == [s \in Sections |-> IF IsVerticalSlide(s) /\ s[2] > 0 THEN "future" ELSE n.cls[s]]
    <2>1. NoneEntered(cls)
      <3>1. \A s \in Sections : n.cls[s] = ""
        BY DEF NewDeck
      <3> HIDE DEF n
      <3> QED
        BY <3>1 DEF NoneEntered
    <2>2. a = Unopened(config, url, cls)
      BY DEF ResetVerticalSlides, Unopened
    <2> HIDE DEF cls, a
    <2> QED
      BY <2>1, <2>2, NewEffect
  <1>2. e = UpdateBackground(c, TRUE)
    <2>1. NewDeck(config, url).config = config
      BY DEF NewDeck
    <2> QED
      BY <2>1 DEF Start
  <1> HIDE DEF a
  <1>3. Settled(b) /\ b.config = config /\ b.cur = None
    BY <1>1, ConfigureEffect
  <1> HIDE DEF b
  <1>4. Good(c) /\ c.config = config
    BY <1>3, ReadEffect DEF Settled, AlreadyThere
  <1> HIDE DEF c
  <1>5. /\ IsDeck(c) /\ Placed(c) /\ DisplayTyped(c) /\ c.bgPlaying \subseteq {c.prevBg} /\ c.cur # None
        /\ SwitchesTyped(c) /\ ModesTyped(c) /\ CueTyped(c)
    BY <1>4 DEF Good, Steady, Core, BackgroundAgrees, SwitchesTyped
  <1>6. Changes(c, e, {"bgCls", "bgPlaying", "prevBg"}) /\ BackgroundAgrees(e)
    BY <1>2, <1>5, BackgroundEffect
  <1>7. /\ Placed(e) /\ FragmentsTyped(e) /\ NeighboursShown(e) /\ Sorted(e) /\ ClassesAgree(e) /\ MediaAgree(e)
        /\ StateAgrees(e) /\ ControlsAgree(e) /\ AddressAgrees(e) /\ ModesTyped(e) /\ Cued(e)
    BY <1>4, <1>5, <1>6, Frames DEF Good, Steady, Core
  <1>8. /\ e.config = c.config /\ e.cur = c.cur /\ e.enabled = c.enabled /\ e.hash = c.hash
        /\ e.hashEvent = c.hashEvent /\ e.timer = c.timer /\ e.autoSlide = c.autoSlide
        /\ e.player = c.player /\ e.resetStacks = c.resetStacks /\ IsDeck(e)
    BY <1>6 DEF Changes, Fields
  <1>9. SwitchesTyped(e)
    BY <1>5, <1>7, <1>8 DEF SwitchesTyped, CueTyped, HashTyped
  <1>10. Core(e)
    BY <1>4, <1>6, <1>7, <1>8, <1>9 DEF Good, Steady, Core
  <1> QED
    BY <1>4, <1>5, <1>7, <1>8, <1>10 DEF Good, Steady

-----------------------------------------------------------------------------
(* Going on, and back again *)

\* The next group of fragments is shown if there is one.
LEMMA NextFragmentEffect ==
  ASSUME NEW d, Steady(d), NEW e, e = NavigateFragment(d, NoIndex, 1)
  PROVE  /\ Changes(d, e, {"fidx", "visible", "curfrag", "enabled", "events"}) /\ Kept(d, e)
         /\ d.visible \subseteq e.visible
         /\ AvailableFragments(d).next <=> e.visible # d.visible
  <1> DEFINE l == d.cur
             F == FragmentsOf(l)
  <1>1. /\ IsDeck(d) /\ FragmentsTyped(d) /\ Sorted(d) /\ d.cur \in Leaves /\ d.cur # None
        /\ d.enabled \subseteq Directions
    BY SteadyShape
  <1>2. /\ Changes(d, e, {"fidx", "visible", "curfrag", "enabled", "events"})
        /\ FragmentsTyped(e)
        /\ ~d.config.fragments => e = d
        /\ \A f \in Fragments : f[1] # l => (f \in e.visible <=> f \in d.visible)
    <2>1. IndexTyped(NoIndex) /\ 1 \in Int
      BY DEF IndexTyped, NoIndex
    <2> QED
      BY <1>1, <2>1, NavigateEffect
  <1>3. Kept(d, e)
    BY FragmentKept
  <1>4. AvailableFragments(d).next <=> d.config.fragments /\ F \ d.visible # {}
    BY <1>1 DEF AvailableFragments
  <1>5. CASE ~d.config.fragments
    BY <1>2, <1>3, <1>4, <1>5
  <1>6. CASE d.config.fragments
    <2> DEFINE num == SortFragments(d, F).fidx
    <2>1. F \subseteq Fragments /\ F = {f \in Fragments : f[1] = l}
      BY <1>1, FragmentShape
    <2>2. PICK K \in Nat : FirstGroups(num, F, d.visible, K)
      BY <1>1, GroupsShown
    <2>3. \A f \in F : num[f] \in Nat
      BY <1>1, GroupsShown
    <2>4. \A f \in F : f \in e.visible <=> num[f] < K + 1
      BY <1>1, <1>6, <2>2, FragmentStep
    <2> HIDE DEF F, num
    <2>5. \A f \in F : f \in d.visible <=> num[f] < K
      BY <2>2 DEF FirstGroups
    <2>6. (\E f \in F : num[f] >= K) => \E f \in F : num[f] = K
      BY <2>2 DEF FirstGroups
    <2>7. \A f \in F : f \in d.visible => f \in e.visible
      BY <2>3, <2>4, <2>5
    <2>8. d.visible \subseteq Fragments /\ e.visible \subseteq Fragments
      BY <1>1, <1>2 DEF FragmentsTyped
    <2>9. d.visible \subseteq e.visible
      BY <1>2, <2>1, <2>7, <2>8
    <2>10. ASSUME F \ d.visible # {} PROVE e.visible # d.visible
      <3>1. \E f \in F : num[f] >= K
        BY <2>3, <2>5, <2>10
      <3>2. PICK f \in F : num[f] = K
        BY <2>6, <3>1
      <3>3. f \in e.visible /\ f \notin d.visible
        BY <2>4, <2>5, <3>2
      <3> QED
        BY <3>3
    <2>11. ASSUME F \ d.visible = {} PROVE e.visible = d.visible
      BY <1>2, <2>1, <2>8, <2>9, <2>11
    <2> QED
      BY <1>2, <1>3, <1>4, <1>6, <2>9, <2>10, <2>11
  <1> QED
    BY <1>5, <1>6

\* What was shown last is hidden again, and nothing more.
LEMMA FragmentUndone ==
  ASSUME NEW d, Steady(d), NEW e, e = NavigateFragment(d, NoIndex, 1), e.visible # d.visible,
         NEW g, Steady(g), g.cur = d.cur, g.config = d.config, g.fidx = e.fidx, g.visible = e.visible
  PROVE  NavigateFragment(g, NoIndex, -1).visible = d.visible
  <1> DEFINE l == d.cur
             F == FragmentsOf(l)
             num == SortFragments(d, F).fidx
             num2 == SortFragments(g, F).fidx
             b == NavigateFragment(g, NoIndex, -1)
  <1>1. /\ IsDeck(d) /\ FragmentsTyped(d) /\ Sorted(d) /\ d.cur \in Leaves /\ d.cur # None
        /\ d.enabled \subseteq Directions
    BY SteadyShape
  <1>2. /\ IsDeck(g) /\ FragmentsTyped(g) /\ Sorted(g) /\ g.cur \in Leaves /\ g.enabled \subseteq Directions
    BY SteadyShape
  <1>3. d.config.fragments
    <2>1. AvailableFragments(d).next
      BY NextFragmentEffect
    <2> QED
      BY <2>1 DEF AvailableFragments
  <1>4. F \subseteq Fragments /\ F = {f \in Fragments : f[1] = l} /\ IsFiniteSet(F)
    BY <1>1, FragmentShape
  <1>5. PICK K \in Nat : FirstGroups(num, F, d.visible, K)
    BY <1>1, GroupsShown
  <1>6. (\A f \in F : num[f] \in Nat) /\ Dense(num, F)
    BY <1>1, GroupsShown
  <1>7. \A f \in F : e.fidx[f] = num[f] /\ (f \in e.visible <=> num[f] < K + 1)
    BY <1>1, <1>3, <1>5, FragmentStep
  <1>8. PICK K2 \in Nat : FirstGroups(num2, F, g.visible, K2)
    BY <1>1, <1>2, GroupsShown
  <1>9. \A f \in F : f \in b.visible <=> num2[f] < K2 + -1
    <2>1. -1 \in Int
      OBVIOUS
    <2> QED
      BY <1>2, <1>3, <1>8, <2>1, FragmentStep
  <1>10. /\ Changes(d, e, {"fidx", "visible", "curfrag", "enabled", "events"})
         /\ FragmentsTyped(e) /\ FragmentsTyped(b)
         /\ \A f \in Fragments : f[1] # l => (f \in e.visible <=> f \in d.visible)
         /\ \A f \in Fragments : f[1] # l => (f \in b.visible <=> f \in g.visible)
    <2>1. IndexTyped(NoIndex) /\ 1 \in Int /\ -1 \in Int
      BY DEF IndexTyped, NoIndex
    <2> QED
      BY <1>1, <1>2, <2>1, NavigateEffect
  <1>11. \A f \in F : num2[f] = num[f]
    <2> HIDE DEF F, num
    <2>1. \A f \in F : g.fidx[f] = num[f]
      BY <1>7
    <2>2. {g.fidx[f] : f \in F} = {num[f] : f \in F}
      BY <2>1
    <2>3. Dense(g.fidx, F)
      BY <1>6, <2>2 DEF Dense
    <2>4. \A f \in F : num2[f] = g.fidx[f]
      BY <1>2, <1>4, <1>6, <2>1, <2>3, SortDense
    <2> QED
      BY <2>1, <2>4
  <1> HIDE DEF F, num, num2, b
  <1>12. \E f \in F : num[f] = K
    <2>1. \E f \in F : f \in e.visible /\ f \notin d.visible
      <3>1. d.visible \subseteq e.visible /\ e.visible \subseteq Fragments
        BY <1>10, NextFragmentEffect DEF FragmentsTyped
      <3> QED
        BY <1>4, <1>10, <3>1
    <2>2. \E f \in F : num[f] >= K
      BY <1>5, <1>6, <2>1 DEF FirstGroups
    <2> QED
      BY <1>5, <2>2 DEF FirstGroups
  <1>13. K2 = K + 1
    <2>1. \A f \in F : num[f] < K2 <=> num[f] < K + 1
      BY <1>7, <1>8, <1>11 DEF FirstGroups
    <2>2. K < K2
      BY <1>12, <2>1
    <2>3. \A n \in 0 .. K2 - 1 : \E f \in F : num[f] = n
      BY <1>8, <1>11 DEF FirstGroups
    <2>4. K2 - 1 \in 0 .. K2 - 1
      BY <2>2
    <2>5. PICK f \in F : num[f] = K2 - 1
      BY <2>3, <2>4
    <2>6. K2 - 1 < K + 1
      BY <2>1, <2>5
    <2> QED
      BY <2>2, <2>6
  <1>14. \A f \in F : f \in b.visible <=> f \in d.visible
    <2>1. K2 + -1 = K
      BY <1>13
    <2>2. \A f \in F : f \in d.visible <=> num[f] < K
      BY <1>5 DEF FirstGroups
    <2> QED
      BY <1>9, <1>11, <2>1, <2>2
  <1>15. b.visible \subseteq Fragments /\ d.visible \subseteq Fragments
    BY <1>1, <1>10 DEF FragmentsTyped
  <1>16. b.visible = d.visible
    BY <1>4, <1>10, <1>14, <1>15
  <1> QED
    BY <1>16 DEF b

\* Where no fragment is visible, none is hidden.
LEMMA NoneHidden ==
  ASSUME NEW d, Steady(d), FragmentsOf(d.cur) \cap d.visible = {}
  PROVE  NavigateFragment(d, NoIndex, -1).visible = d.visible
  <1> DEFINE l == d.cur
             F == FragmentsOf(l)
             num == SortFragments(d, F).fidx
             b == NavigateFragment(d, NoIndex, -1)
  <1>1. /\ IsDeck(d) /\ FragmentsTyped(d) /\ Sorted(d) /\ d.cur \in Leaves /\ d.enabled \subseteq Directions
    BY SteadyShape
  <1>2. /\ FragmentsTyped(b) /\ ~d.config.fragments => b = d
        /\ FragmentsTyped(b)
        /\ \A f \in Fragments : f[1] # l => (f \in b.visible <=> f \in d.visible)
    <2>1. IndexTyped(NoIndex) /\ -1 \in Int
      BY DEF IndexTyped, NoIndex
    <2> QED
      BY <1>1, <2>1, NavigateEffect
  <1>3. CASE ~d.config.fragments
    BY <1>2, <1>3
  <1>4. CASE d.config.fragments
    <2>1. F = {f \in Fragments : f[1] = l} /\ \A f \in F : f \notin d.visible
      BY <1>1, FragmentShape
    <2>2. PICK K \in Nat : FirstGroups(num, F, d.visible, K)
      BY <1>1, GroupsShown
    <2>3. \A f \in F : num[f] \in Nat
      BY <1>1, GroupsShown
    <2>4. \A f \in F : f \in b.visible <=> num[f] < K + -1
      <3>1. -1 \in Int
        OBVIOUS
      <3> QED
        BY <1>1, <1>4, <2>2, <3>1, FragmentStep
    <2> HIDE DEF F, num, b
    <2>5. \A f \in F : ~(num[f] < K)
      BY <2>1, <2>2 DEF FirstGroups
    <2>6. \A f \in F : f \notin b.visible
      BY <2>3, <2>4, <2>5
    <2>7. b.visible \subseteq Fragments /\ d.visible \subseteq Fragments
      BY <1>1, <1>2 DEF FragmentsTyped
    <2>8. b.visible = d.visible
      BY <1>2, <2>1, <2>6, <2>7
    <2> QED
      BY <2>8 DEF b
  <1> QED
    BY <1>3, <1>4

\* Down the stack where that is possible, else on to the slide that follows
Downward(d) == d.indexv < Verticals[d.indexh] - 1

LEMMA NextWay ==
  ASSUME NEW d, Steady(d), NEW way, way = NavigateNext(d)
  PROVE  /\ way.fragment = 1 /\ way.inOverview
         /\ way.open <=> Downward(d) \/ d.indexh < Length - 1 \/ d.config.loop
         /\ Downward(d) => way.h = d.indexh /\ way.v = d.indexv + 1
         /\ ~Downward(d) => way.h = d.indexh + 1 /\ way.v = Undef
  <1> DEFINE routes == AvailableRoutes(d)
             on == d.indexh < Length - 1 \/ d.config.loop
  <1>1. Cardinality(HorizontalSlides) = Length
    BY Shape
  <1>2. /\ routes.down <=> Downward(d)
        /\ d.config.rtl => (routes.left <=> on)
        /\ ~d.config.rtl => (routes.right <=> on)
    BY <1>1 DEF AvailableRoutes, Downward
  <1> HIDE DEF routes, on
  <1>3. CASE Downward(d)
    <2>1. way = [NavigateDown(d) EXCEPT !.inOverview = TRUE]
      BY <1>2, <1>3 DEF NavigateNext, routes
    <2>2. way = [Way(1, FALSE, routes.down, d.indexh, d.indexv + 1) EXCEPT !.inOverview = TRUE]
      BY <2>1 DEF NavigateDown, Vertical, routes
    <2> QED
      BY <1>2, <1>3, <2>2 DEF Way
  <1>4. CASE ~Downward(d)
    <2>1. PICK open : (open <=> on) /\ way = [Way(1, FALSE, open, d.indexh + 1, Undef) EXCEPT !.inOverview = TRUE]
      <3>1. CASE d.config.rtl
        <4>1. way = [Way(1, FALSE, routes.left, d.indexh + 1, Undef) EXCEPT !.inOverview = TRUE]
          BY <1>2, <1>4, <3>1 DEF NavigateNext, NavigateLeft, Horizontal, routes
        <4> QED
          BY <1>2, <3>1, <4>1
      <3>2. CASE ~d.config.rtl
        <4>1. way = [Way(1, FALSE, routes.right, d.indexh + 1, Undef) EXCEPT !.inOverview = TRUE]
          BY <1>2, <1>4, <3>2 DEF NavigateNext, NavigateRight, Horizontal, routes
        <4> QED
          BY <1>2, <3>2, <4>1
      <3> QED
        BY <3>1, <3>2
    <2> QED
      BY <1>4, <2>1 DEF Way, on
  <1> QED
    BY <1>3, <1>4

\* After the slide, none is left where it was.
LEMMA RankOrder ==
  ASSUME NEW s \in Leaves, NEW t \in Leaves, Precedes(s, t)
  PROVE  Rank(s) < Rank(t) /\ s # t
  <1> DEFINE S == {r \in Leaves : Precedes(r, s)}
             T == {r \in Leaves : Precedes(r, t)}
  <1>1. \A r \in Leaves : /\ r[1] \in Int
                          /\ IsVerticalSlide(r) => r[2] \in Int
    BY LeafShape, IndexShape DEF IndicesV, IsVerticalSlide
  <1>2. ~Precedes(s, s) /\ ~Precedes(t, t)
    BY <1>1 DEF Precedes
  <1>3. \A r \in Leaves : Precedes(r, s) => Precedes(r, t)
    BY <1>1 DEF Precedes
  <1>4. S \subseteq T /\ s \in T /\ s \notin S /\ IsFiniteSet(T)
    BY <1>2, <1>3, FiniteSections, FS_Subset
  <1>5. Cardinality(S) < Cardinality(T)
    <2> HIDE DEF S, T
    <2> QED
      BY <1>4, SubsetCard
  <1> QED
    BY <1>2, <1>5 DEF Rank

\* At the end nothing is left to wait for.
LEMMA CueAtEnd ==
  ASSUME NEW d, Steady(d), IsLastSlide(d), ~AvailableFragments(d).next, ~d.config.loop
  PROVE  ~CueAutoSlide(d).timer
  <1> DEFINE auto == AutoSlideOf(d)
             due == /\ auto = "on" /\ ~d.autoSlidePaused /\ ~d.paused /\ ~d.overview
                    /\ (~IsLastSlide(d) \/ AvailableFragments(d).next \/ d.config.loop)
             e == CueAutoSlide(d)
  <1>1. IsDeck(d) /\ d.cur # None
    BY SteadyShape
  <1>2. e = SetPlaying([d EXCEPT !.autoSlide = auto, !.timer = due], due)
    BY <1>1 DEF CueAutoSlide
  <1>3. due = FALSE
    OBVIOUS
  <1> HIDE DEF auto, due, e
  <1> DEFINE b == [d EXCEPT !.autoSlide = auto, !.timer = FALSE]
  <1>4. e = [b EXCEPT !.player = IF @ = "none" THEN @ ELSE IF due THEN "playing" ELSE "stopped"]
    BY <1>2, <1>3 DEF SetPlaying
  <1>5. b.timer = FALSE /\ IsDeck(b)
    BY <1>1 DEF IsDeck, Fields
  <1> HIDE DEF b
  <1>6. e.timer = FALSE
    BY <1>4, <1>5 DEF IsDeck, Fields
  <1> QED
    BY <1>6 DEF e

\* Around the end a deck comes back to its first slide.
LEMMA BoundedAround ==
  ASSUME NEW d, d.config.loop, NEW n \in Nat \ {0}
  PROVE  Bounded(d, n, n) = 0
  <1>1. n % n = 0
    OBVIOUS
  <1>2. Bounded(d, n, n) = Max({Min({0, n - 1}), 0})
    BY <1>1 DEF Bounded
  <1>3. Min({0, n - 1}) = 0 /\ Max({0, 0}) = 0
    <2>1. 0 \in Int /\ n - 1 \in Int /\ n - 1 >= 0
      OBVIOUS
    <2> QED
      BY <2>1, MaxMin
  <1> QED
    BY <1>2, <1>3

\* Where going on leads to when there is no fragment left to show
LEMMA NextPlace ==
  ASSUME NEW d, Steady(d), ~d.overview, ~AvailableFragments(d).next,
         NEW way, way = NavigateNext(d), way.open, NEW e, e = Go(d, way)
  PROVE  /\ Good(e) /\ e.config = d.config /\ ~e.overview /\ Aside(e, e.indexh) /\ OwnKept(d, e)
         /\ Downward(d) => e.indexh = d.indexh /\ e.indexv = d.indexv + 1
         /\ ~Downward(d) /\ d.indexh < Length - 1 =>
              /\ e.indexh = d.indexh + 1
              /\ GetPreviousVerticalIndex(d, d.indexh + 1) = 0 => e.indexv = 0
         /\ ~Downward(d) /\ d.indexh >= Length - 1 => d.config.loop /\ e.indexh = 0 /\ e.indexv = 0
  <1> DEFINE a == NavigateFragment(d, NoIndex, 1)
  <1>1. /\ IsDeck(d) /\ d.indexh \in Nat /\ d.indexv \in Nat /\ d.indexh \in DOMAIN Verticals
        /\ d.cur \in Leaves /\ Placed(d)
    BY SteadyShape
  <1>2. /\ way.fragment = 1 /\ way.inOverview
        /\ way.open <=> Downward(d) \/ d.indexh < Length - 1 \/ d.config.loop
        /\ Downward(d) => way.h = d.indexh /\ way.v = d.indexv + 1
        /\ ~Downward(d) => way.h = d.indexh + 1 /\ way.v = Undef
    BY NextWay
  <1>3. /\ Changes(d, a, {"fidx", "visible", "curfrag", "enabled", "events"}) /\ Kept(d, a)
        /\ a.visible = d.visible
    BY NextFragmentEffect
  <1>4. e = Slide(a, way.h, way.v)
    BY <1>2, <1>3 DEF Go, Follow, Moved
  <1> HIDE DEF a
  <1>5. /\ a.indexh = d.indexh /\ a.indexv = d.indexv /\ a.config = d.config /\ a.overview = d.overview
        /\ a.prevV = d.prevV /\ Steady(a)
    BY <1>3 DEF Changes, Fields, Kept
  <1>6. way.h \in Int /\ way.v \in Int
    BY <1>1, <1>2 DEF Undef
  <1>7. /\ Good(e) /\ e.config = a.config /\ Landed(a, e, way.h, way.v) /\ OwnKept(a, e)
    <2>1. Core(a) /\ Sorted(a) /\ IndexTyped(NoIndex) /\ ~NoIndex.set
      BY <1>5 DEF Steady, IndexTyped, NoIndex
    <2> QED
      BY <1>4, <1>6, <2>1, SlideEffect DEF Slide
  <1>8. OwnKept(d, e)
    BY <1>3, <1>5, <1>7 DEF OwnKept
  <1>9. /\ e.indexh = PlaceH(a, way.h) /\ e.indexv = PlaceV(a, way.h, way.v)
        /\ Aside(e, e.indexh) /\ ~e.overview
    BY <1>5, <1>7 DEF Landed
  <1>10. way.h # Undef /\ way.h \in Nat
    BY <1>1, <1>2 DEF Undef
  <1>11. PlaceH(a, way.h) = Bounded(a, way.h, Length)
    BY <1>10, Shape DEF PlaceH
  <1>12. \A h \in DOMAIN Verticals : Bounded(a, h, Length) = h
    <2>1. \A h \in DOMAIN Verticals : h \in Int /\ h \in 0 .. Length - 1
      BY Shape
    <2> QED
      BY <2>1, Shape, BoundedEffect
  <1>13. \A h : GetPreviousVerticalIndex(a, h) = GetPreviousVerticalIndex(d, h)
    BY <1>5 DEF GetPreviousVerticalIndex
  <1>14. CASE Downward(d)
    <2>1. e.indexh = d.indexh
      BY <1>1, <1>2, <1>9, <1>11, <1>12, <1>14
    <2>2. PlaceV(a, way.h, way.v) = Bounded(a, d.indexv + 1, Verticals[d.indexh])
      <3>1. way.v # Undef /\ way.v = d.indexv + 1
        BY <1>1, <1>2, <1>14 DEF Undef
      <3> QED
        BY <1>9, <2>1, <3>1 DEF PlaceV
    <2>3. d.indexv + 1 \in 0 .. Verticals[d.indexh] - 1 /\ d.indexv + 1 \in Int /\ Verticals[d.indexh] \in Nat
      BY <1>1, <1>14, IndexShape DEF Downward
    <2>4. e.indexv = d.indexv + 1
      BY <1>9, <2>2, <2>3, BoundedEffect
    <2> QED
      BY <1>5, <1>7, <1>8, <1>9, <1>14, <2>1, <2>4
  <1>15. CASE ~Downward(d)
    <2>1. way.h = d.indexh + 1 /\ way.v = Undef
      BY <1>2, <1>15
    <2>2. PlaceV(a, way.h, way.v) = Bounded(a, GetPreviousVerticalIndex(d, way.h), Verticals[e.indexh])
      <3>1. GetPreviousVerticalIndex(a, way.h) # Undef
        <4>1. a.prevV \in [Stacks -> Nat]
          BY <1>5 DEF Steady, Core, ClassesAgree
        <4> QED
          BY <4>1, PreviousShape DEF Undef
      <3>2. ~a.overview
        BY <1>5
      <3> QED
        BY <1>9, <1>13, <2>1, <3>1, <3>2 DEF PlaceV
    <2>3. ASSUME d.indexh < Length - 1
          PROVE  /\ e.indexh = d.indexh + 1
                 /\ GetPreviousVerticalIndex(d, d.indexh + 1) = 0 => e.indexv = 0
      <3>1. d.indexh + 1 \in DOMAIN Verticals
        BY <1>1, <2>3, Shape
      <3>2. e.indexh = d.indexh + 1
        BY <1>9, <1>11, <1>12, <2>1, <3>1
      <3>3. Bounded(a, 0, Verticals[e.indexh]) = 0
        <4>1. Verticals[e.indexh] \in Nat /\ 0 \in Int
          BY <3>1, <3>2, IndexShape
        <4>2. Verticals[e.indexh] # 0 => 0 \in 0 .. Verticals[e.indexh] - 1
          BY <4>1
        <4> QED
          BY <4>1, <4>2, BoundedEffect
      <3> QED
        BY <1>9, <2>1, <2>2, <3>2, <3>3
    <2>4. ASSUME d.indexh >= Length - 1
          PROVE  d.config.loop /\ e.indexh = 0 /\ e.indexv = 0
      <3>1. d.config.loop
        BY <1>1, <1>2, <1>15, <2>4, Shape
      <3>2. way.h = Length /\ way.h \notin Stacks
        BY <1>1, <2>1, <2>4, Shape, IndexShape
      <3>3. e.indexh = 0
        BY <1>5, <1>9, <1>11, <3>1, <3>2, Shape, BoundedAround
      <3>4. GetPreviousVerticalIndex(d, way.h) = 0
        BY <3>2 DEF GetPreviousVerticalIndex
      <3>5. Bounded(a, 0, Verticals[e.indexh]) = 0
        <4>1. Verticals[e.indexh] \in Nat /\ 0 \in Int
          BY <3>3, IndexShape, Shape
        <4>2. Verticals[e.indexh] # 0 => 0 \in 0 .. Verticals[e.indexh] - 1
          BY <4>1
        <4> QED
          BY <4>1, <4>2, BoundedEffect
      <3> QED
        BY <1>9, <2>2, <3>1, <3>3, <3>4, <3>5
    <2> QED
      BY <1>5, <1>7, <1>8, <1>9, <1>15, <2>3, <2>4
  <1> QED
    BY <1>14, <1>15

\* The first slide comes before all others, and the last after them.
LEMMA FirstAndLast ==
  ASSUME NEW s \in Leaves
  PROVE  /\ GetSlide(0, 0) \in Leaves
         /\ s # GetSlide(0, 0) => Precedes(GetSlide(0, 0), s)
         /\ s[1] = Length - 1 /\ (IsVerticalSlide(s) => s[2] = Verticals[s[1]] - 1)
              => \A t \in Leaves : t # s => Precedes(t, s)
  <1>1. 0 \in DOMAIN Verticals /\ 0 \in IndicesV(0)
    BY Shape, IndexShape
  <1>2. /\ GetSlide(0, 0) \in Leaves /\ GetSlide(0, 0)[1] = 0
        /\ IsVerticalSlide(GetSlide(0, 0)) <=> 0 \in Stacks
        /\ 0 \in Stacks => GetSlide(0, 0) = <<0, 0>>
        /\ 0 \notin Stacks => GetSlide(0, 0) = <<0>>
    BY <1>1, SlideShape DEF GetSlide
  <1>3. \A t \in Leaves :
          /\ t[1] \in 0 .. Length - 1 /\ (IsVerticalSlide(t) <=> t[1] \in Stacks)
          /\ IsVerticalSlide(t) => t = <<t[1], t[2]>> /\ t[2] \in 0 .. Verticals[t[1]] - 1
                                   /\ Verticals[t[1]] \in Nat
          /\ ~IsVerticalSlide(t) => t = <<t[1]>>
    BY LeafShape, Shape, IndexShape DEF IndicesV, GetSlide
  <1>4. s # GetSlide(0, 0) => Precedes(GetSlide(0, 0), s)
    BY <1>2, <1>3 DEF Precedes
  <1>5. ASSUME s[1] = Length - 1, IsVerticalSlide(s) => s[2] = Verticals[s[1]] - 1,
               NEW t \in Leaves, t # s
        PROVE  Precedes(t, s)
    BY <1>3, <1>5, Shape DEF Precedes
  <1> QED
    BY <1>2, <1>4, <1>5

\* The last slide is where nothing follows.
LEMMA AtLast ==
  ASSUME NEW d, Steady(d)
  PROVE  IsLastSlide(d) <=> ~Downward(d) /\ d.indexh >= Length - 1
  <1>1. /\ d.cur # None /\ Placed(d) /\ d.indexh \in DOMAIN Verticals /\ d.indexh \in Nat
    BY SteadyShape
  <1>2. /\ d.cur[1] = d.indexh /\ (IsVerticalSlide(d.cur) <=> d.indexh \in Stacks)
        /\ d.indexh \in Stacks => d.cur = <<d.indexh, d.indexv>>
        /\ d.indexh \notin Stacks => d.indexv = 0
        /\ d.indexv \in Nat
    BY <1>1, PlacedShape
  <1>3. d.indexh \in Stacks => d.indexv \in 0 .. Verticals[d.indexh] - 1
    BY <1>1 DEF Placed, IndicesV
  <1>4. d.indexh \notin Stacks => ~Downward(d)
    BY <1>1, <1>2, IndexShape DEF Downward
  <1>5. d.indexh \in Stacks => (~Downward(d) <=> d.indexv = Verticals[d.indexh] - 1)
    BY <1>1, <1>3, IndexShape DEF Downward
  <1>6. d.indexh = Length - 1 <=> d.indexh >= Length - 1
    BY <1>1, Shape
  <1>7. IsLastSlide(d) <=> /\ d.cur[1] = Length - 1
                           /\ IsVerticalSlide(d.cur) => d.cur[2] = Verticals[d.cur[1]] - 1
    BY <1>1, Shape DEF IsLastSlide
  <1> QED
    BY <1>2, <1>4, <1>5, <1>6, <1>7

\* Without a fragment to show, a deck goes on to a later slide, or around, or it
\* is at its end.
LEMMA NextSlide ==
  ASSUME NEW d, Steady(d), ~d.overview, ~AvailableFragments(d).next,
         NEW e, e = Go(d, NavigateNext(d))
  PROVE  \/ Precedes(d.cur, e.cur)
         \/ d.config.loop /\ IsLastSlide(d) /\ e.cur = GetSlide(0, 0)
         \/ /\ ~d.config.loop /\ IsLastSlide(d)
            /\ Steady(e) /\ IsLastSlide(e) /\ ~AvailableFragments(e).next /\ ~e.config.loop
  <1> DEFINE way == NavigateNext(d)
             a == NavigateFragment(d, NoIndex, 1)
  <1>1. Placed(d) /\ d.cur # None /\ d.indexh \in DOMAIN Verticals /\ d.indexh \in Nat /\ d.indexv \in Nat
    BY SteadyShape
  <1>2. /\ way.fragment = 1 /\ way.inOverview
        /\ way.open <=> Downward(d) \/ d.indexh < Length - 1 \/ d.config.loop
    BY NextWay
  <1>3. CASE ~way.open
    <2>1. Changes(d, a, {"fidx", "visible", "curfrag", "enabled", "events"}) /\ Kept(d, a)
          /\ a.visible = d.visible
      BY NextFragmentEffect
    <2>2. e = a
      BY <1>2, <1>3, <2>1 DEF Go, Follow
    <2> HIDE DEF a, way
    <2>3. e.cur = d.cur /\ e.config = d.config
      BY <2>1, <2>2 DEF Changes, Fields
    <2>4. ~d.config.loop /\ IsLastSlide(d)
      <3>1. ~(d.indexh < Length - 1) => d.indexh >= Length - 1
        BY <1>1, Shape
      <3> QED
        BY <1>2, <1>3, <3>1, AtLast
    <2>5. IsLastSlide(e) /\ ~AvailableFragments(e).next
      BY <2>1, <2>2, <2>3, <2>4 DEF IsLastSlide, AvailableFragments
    <2> QED
      BY <2>1, <2>2, <2>3, <2>4, <2>5 DEF Kept
  <1>4. CASE way.open
    <2>1. /\ Good(e)
          /\ Downward(d) => e.indexh = d.indexh /\ e.indexv = d.indexv + 1
          /\ ~Downward(d) /\ d.indexh < Length - 1 => e.indexh = d.indexh + 1
          /\ ~Downward(d) /\ d.indexh >= Length - 1 => d.config.loop /\ e.indexh = 0 /\ e.indexv = 0
      BY <1>4, NextPlace
    <2> HIDE DEF way
    <2>2. Placed(e) /\ e.cur # None /\ e.indexh \in DOMAIN Verticals /\ e.indexv \in Nat
      BY <2>1, SteadyShape DEF Good
    <2>3. e.cur = GetSlide(e.indexh, e.indexv) /\ e.cur[1] = e.indexh /\ d.cur[1] = d.indexh
      BY <1>1, <2>2, PlacedShape DEF Placed
    <2>4. CASE Downward(d)
      <3>1. d.indexh \in Stacks
        BY <1>1, <2>4, IndexShape DEF Downward
      <3>2. /\ d.cur = <<d.indexh, d.indexv>> /\ e.cur = <<d.indexh, d.indexv + 1>>
            /\ IsVerticalSlide(d.cur) /\ IsVerticalSlide(e.cur)
        BY <1>1, <2>1, <2>2, <2>4, <3>1, PlacedShape
      <3> QED
        BY <1>1, <3>2 DEF Precedes
    <2>5. CASE ~Downward(d) /\ d.indexh < Length - 1
      <3>1. d.cur[1] < e.cur[1]
        BY <1>1, <2>1, <2>3, <2>5
      <3> QED
        BY <3>1 DEF Precedes
    <2>6. CASE ~Downward(d) /\ d.indexh >= Length - 1
      BY <2>1, <2>3, <2>6, AtLast
    <2> QED
      BY <1>1, <2>4, <2>5, <2>6, Shape
  <1> QED
    BY <1>3, <1>4

\* Back up the stack where that is possible, else to the last slide of what is
\* marked as past
LEMMA PrevWay ==
  ASSUME NEW d, Steady(d), Aside(d, d.indexh), NEW way, way = NavigatePrev(d)
  PROVE  /\ way.fragment = -1 /\ way.inOverview
         /\ d.indexv > 0 => way.open /\ way.h = d.indexh /\ way.v = d.indexv - 1
         /\ d.indexv = 0 /\ d.indexh > 0 =>
              LET n == Verticals[d.indexh - 1]
              IN way.open /\ way.h = d.indexh - 1
                 /\ way.v = IF n = 0 THEN 0 ELSE IF n = 1 THEN Undef ELSE n - 1
  <1> DEFINE past == {h \in DOMAIN Verticals : d.cls[<<h>>] = IF d.config.rtl THEN "future" ELSE "past"}
             last == IF past = {} THEN 0 ELSE Verticals[Max(past)]
             v == IF last = 0 THEN 0 ELSE IF last = 1 THEN Undef ELSE last - 1
  <1>1. d.indexh \in Nat /\ d.indexv \in Nat /\ d.indexh \in DOMAIN Verticals
    BY SteadyShape
  <1>2. AvailableRoutes(d).up <=> d.indexv > 0
    BY DEF AvailableRoutes
  <1>3. way = IF AvailableRoutes(d).up THEN [NavigateUp(d) EXCEPT !.inOverview = TRUE]
              ELSE Way(-1, TRUE, past # {}, d.indexh - 1, v)
    BY DEF NavigatePrev
  <1>4. past = 0 .. d.indexh - 1
    <2>1. past = {k \in DOMAIN Verticals : k < d.indexh}
      BY DEF Aside
    <2> HIDE DEF past
    <2> QED
      BY <1>1, <2>1, Shape
  <1>5. d.indexh > 0 => past # {} /\ last = Verticals[d.indexh - 1]
    <2> SUFFICES ASSUME d.indexh > 0 PROVE past # {} /\ last = Verticals[d.indexh - 1]
      OBVIOUS
    <2> HIDE DEF past
    <2>1. past # {} /\ past \subseteq Int /\ IsFiniteSet(past) /\ d.indexh - 1 \in past
      <3>1. 0 \in Int /\ d.indexh - 1 \in Int /\ d.indexh - 1 \in 0 .. d.indexh - 1
        BY <1>1
      <3>2. IsFiniteSet(0 .. d.indexh - 1)
        BY <3>1, FS_Interval
      <3>3. 0 .. d.indexh - 1 \subseteq Int
        OBVIOUS
      <3> QED
        BY <1>4, <3>1, <3>2, <3>3
    <2>2. Max(past) \in past /\ \A x \in past : x <= Max(past)
      BY <2>1, MaxExists
    <2>3. Max(past) = d.indexh - 1
      <3> DEFINE m == Max(past)
      <3>1. m \in 0 .. d.indexh - 1 /\ d.indexh - 1 <= m
        BY <1>4, <2>1, <2>2
      <3> HIDE DEF m
      <3>2. m = d.indexh - 1
        BY <1>1, <3>1
      <3> QED
        BY <3>2 DEF m
    <2> QED
      BY <2>1, <2>3
  <1> HIDE DEF past, last
  <1>6. CASE d.indexv > 0
    <2>1. way = [Way(-1, FALSE, AvailableRoutes(d).up, d.indexh, d.indexv + -1) EXCEPT !.inOverview = TRUE]
      BY <1>2, <1>3, <1>6 DEF NavigateUp, Vertical
    <2>2. /\ way.fragment = -1 /\ way.inOverview /\ way.open = AvailableRoutes(d).up
          /\ way.h = d.indexh /\ way.v = d.indexv + -1
      BY <2>1 DEF Way
    <2> QED
      BY <1>1, <1>2, <1>6, <2>2
  <1>7. CASE ~(d.indexv > 0)
    <2> DEFINE some == past # {}
    <2>1. way = Way(-1, TRUE, some, d.indexh - 1, v)
      BY <1>2, <1>3, <1>7
    <2> HIDE DEF some, v
    <2>2. way.fragment = -1 /\ way.inOverview /\ way.open = some /\ way.h = d.indexh - 1 /\ way.v = v
      BY <2>1 DEF Way
    <2> QED
      BY <1>5, <1>7, <2>2 DEF some, v
  <1> QED
    BY <1>6, <1>7

\* Where going back leads to when there is no fragment to hide
LEMMA PrevPlace ==
  ASSUME NEW d, Steady(d), ~d.overview, Aside(d, d.indexh), d.indexv > 0 \/ d.indexh > 0,
         FragmentsOf(d.cur) \cap d.visible = {}, NEW e, e = Go(d, NavigatePrev(d))
  PROVE  /\ Good(e) /\ e.config = d.config /\ OwnKept(d, e)
         /\ d.indexv > 0 => e.indexh = d.indexh /\ e.indexv = d.indexv - 1
         /\ d.indexv = 0 =>
              LET n == Verticals[d.indexh - 1]
              IN e.indexh = d.indexh - 1 /\ e.indexv = IF n = 0 THEN 0 ELSE n - 1
  <1> DEFINE a == NavigateFragment(d, NoIndex, -1)
             way == NavigatePrev(d)
             n == Verticals[d.indexh - 1]
  <1>1. /\ IsDeck(d) /\ d.indexh \in Nat /\ d.indexv \in Nat /\ d.indexh \in DOMAIN Verticals
        /\ d.cur \in Leaves /\ d.cur # None /\ Placed(d) /\ FragmentsTyped(d) /\ Sorted(d) /\ d.enabled \subseteq Directions
    BY SteadyShape
  <1>2. /\ way.fragment = -1 /\ way.inOverview /\ way.open
        /\ d.indexv > 0 => way.h = d.indexh /\ way.v = d.indexv - 1
        /\ d.indexv = 0 => /\ way.h = d.indexh - 1
                           /\ way.v = IF n = 0 THEN 0 ELSE IF n = 1 THEN Undef ELSE n - 1
    BY <1>1, PrevWay
  <1>3. Kept(d, a) /\ a.visible = d.visible /\ Changes(d, a, {"fidx", "visible", "curfrag", "enabled", "events"})
    <2>1. IndexTyped(NoIndex) /\ -1 \in Int
      BY DEF IndexTyped, NoIndex
    <2>2. Changes(d, a, {"fidx", "visible", "curfrag", "enabled", "events"})
      BY <1>1, <2>1, NavigateEffect
    <2> QED
      BY <2>1, <2>2, FragmentKept, NoneHidden
  <1>4. e = Slide(a, way.h, way.v)
    BY <1>2, <1>3 DEF Go, Follow, Moved
  <1>5. way.h \in Int /\ way.v \in Int
    BY WayShape
  <1> HIDE DEF a, way
  <1>6. /\ a.indexh = d.indexh /\ a.indexv = d.indexv /\ a.config = d.config /\ a.overview = d.overview
        /\ a.prevV = d.prevV /\ Steady(a)
    BY <1>3 DEF Changes, Fields, Kept
  <1>7. /\ Good(e) /\ e.config = a.config /\ Landed(a, e, way.h, way.v) /\ OwnKept(a, e)
    <2>1. Core(a) /\ Sorted(a) /\ IndexTyped(NoIndex) /\ ~NoIndex.set
      BY <1>6 DEF Steady, IndexTyped, NoIndex
    <2> QED
      BY <1>4, <1>5, <2>1, SlideEffect DEF Slide
  <1>8. OwnKept(d, e)
    BY <1>3, <1>6, <1>7 DEF OwnKept
  <1>9. way.h \in DOMAIN Verticals /\ way.h # Undef
    <2>1. d.indexh > 0 => d.indexh - 1 \in DOMAIN Verticals
      BY <1>1, Shape
    <2>2. way.h \in DOMAIN Verticals
      BY <1>1, <1>2, <2>1
    <2> QED
      BY <2>2, IndexShape DEF Undef
  <1>10. e.indexh = way.h
    <2>1. e.indexh = Bounded(a, way.h, Length)
      BY <1>7, <1>9, Shape DEF Landed, PlaceH
    <2>2. way.h \in 0 .. Length - 1 /\ way.h \in Int
      BY <1>9, Shape
    <2> QED
      BY <2>1, <2>2, Shape, BoundedEffect
  <1>11. Verticals[way.h] \in Nat
    BY <1>9, IndexShape
  <1>12. \A v \in Nat : way.v = v => e.indexv = Bounded(a, v, Verticals[way.h])
    BY <1>7, <1>10 DEF Landed, PlaceV, Undef
  <1>13. CASE d.indexv > 0
    <2>1. d.indexv \in 0 .. Verticals[way.h] - 1
      <3>1. d.indexv \in IndicesV(d.indexh) /\ way.h = d.indexh
        BY <1>1, <1>2, <1>13 DEF Placed
      <3>2. CASE d.indexh \in Stacks
        BY <3>1, <3>2 DEF IndicesV
      <3>3. CASE d.indexh \notin Stacks
        <4>1. d.indexv \in {0}
          BY <3>1, <3>3 DEF IndicesV
        <4> QED
          BY <1>13, <4>1
      <3> QED
        BY <3>2, <3>3
    <2>2. d.indexv - 1 \in Nat /\ d.indexv - 1 \in 0 .. Verticals[way.h] - 1
      BY <1>1, <1>11, <1>13, <2>1
    <2>3. Bounded(a, d.indexv - 1, Verticals[way.h]) = d.indexv - 1
      BY <1>11, <2>2, BoundedEffect
    <2> QED
      BY <1>2, <1>6, <1>7, <1>8, <1>10, <1>12, <1>13, <2>2, <2>3
  <1>14. CASE d.indexv = 0
    <2>1. way.h = d.indexh - 1 /\ Verticals[way.h] = n
      BY <1>2, <1>14
    <2> HIDE DEF n
    <2>2. n \in Nat
      BY <1>11, <2>1
    <2>3. e.indexv = IF n = 0 THEN 0 ELSE n - 1
      <3>1. CASE n = 0
        <4>1. way.v = 0 /\ 0 \in Nat
          BY <1>2, <1>14, <3>1
        <4>2. Bounded(a, 0, n) = 0
          BY <3>1, BoundedEffect
        <4> QED
          BY <1>12, <2>1, <3>1, <4>1, <4>2
      <3>2. CASE n = 1
        <4>1. way.v = Undef /\ ~a.overview
          BY <1>2, <1>6, <1>14, <3>2
        <4>2. a.prevV \in [Stacks -> Nat]
          BY <1>6 DEF Steady, Core, ClassesAgree
        <4>3. GetPreviousVerticalIndex(a, way.h) \in Nat
          BY <4>2, PreviousShape
        <4>4. e.indexv = Bounded(a, GetPreviousVerticalIndex(a, way.h), n)
          BY <1>7, <1>10, <2>1, <4>1, <4>3 DEF Landed, PlaceV, Undef
        <4>5. e.indexv \in 0 .. n - 1
          BY <2>2, <3>2, <4>3, <4>4, BoundedEffect
        <4> QED
          BY <3>2, <4>5
      <3>3. CASE n # 0 /\ n # 1
        <4>1. way.v = n - 1 /\ n - 1 \in Nat /\ n - 1 \in 0 .. n - 1
          BY <1>2, <1>14, <2>2, <3>3
        <4>2. Bounded(a, n - 1, n) = n - 1
          BY <2>2, <4>1, BoundedEffect
        <4> QED
          BY <1>12, <2>1, <3>3, <4>1, <4>2
      <3> QED
        BY <3>1, <3>2, <3>3
    <2> QED
      BY <1>6, <1>7, <1>8, <1>10, <1>14, <2>1, <2>3 DEF n
  <1> QED
    BY <1>1, <1>13, <1>14

LEMMA PrecedesTotal ==
  ASSUME NEW s \in Leaves, NEW t \in Leaves, s # t
  PROVE  Precedes(s, t) \/ Precedes(t, s)
  <1>1. \A r \in Leaves :
          /\ r[1] \in Int /\ (IsVerticalSlide(r) <=> r[1] \in Stacks)
          /\ IsVerticalSlide(r) => r = <<r[1], r[2]>> /\ r[2] \in Int
          /\ ~IsVerticalSlide(r) => r = <<r[1]>>
    BY LeafShape, IndexShape DEF IndicesV
  <1> QED
    BY <1>1 DEF Precedes

\* On the same slide the fragments of the others are as they were.
LEMMA SameVisible ==
  ASSUME NEW d, Steady(d), NEW e, Steady(e), e.cur = d.cur, d.config.fragments, e.config.fragments,
         \A f \in Fragments : f[1] = d.cur => (f \in e.visible <=> f \in d.visible)
  PROVE  e.visible = d.visible
  <1>1. d.cur \in Leaves /\ d.cur # None /\ NeighboursShown(d) /\ NeighboursShown(e)
    BY SteadyShape
  <1>2. d.visible \subseteq Fragments /\ e.visible \subseteq Fragments
    BY SteadyShape DEF FragmentsTyped
  <1>3. ASSUME NEW f \in Fragments PROVE f \in e.visible <=> f \in d.visible
    <2>1. f[1] = d.cur \/ Precedes(f[1], d.cur) \/ Precedes(d.cur, f[1])
      BY <1>1, FragmentOfLeaf, PrecedesTotal
    <2> QED
      BY <1>1, <2>1 DEF NeighboursShown
  <1> QED
    BY <1>2, <1>3

\* Hiding a fragment again
LEMMA BackFromFragment ==
  ASSUME NEW d, Steady(d), AvailableFragments(d).next,
         NEW g, g = CueAutoSlide(Go(d, NavigateNext(d))), NEW e, e = Go(g, NavigatePrev(g))
  PROVE  e.cur = d.cur /\ e.visible = d.visible
  <1> DEFINE a == NavigateFragment(d, NoIndex, 1)
             b == NavigateFragment(g, NoIndex, -1)
             way == NavigatePrev(g)
  <1>1. /\ Changes(d, a, {"fidx", "visible", "curfrag", "enabled", "events"}) /\ Kept(d, a)
        /\ a.visible # d.visible
    BY NextFragmentEffect
  <1>2. NavigateNext(d).fragment = 1 /\ NavigateNext(d).inOverview
    BY NextWay
  <1>3. Go(d, NavigateNext(d)) = a
    BY <1>1, <1>2 DEF Go, Follow, Moved
  <1> HIDE DEF a
  <1>4. Steady(g) /\ Changes(a, g, {"timer", "autoSlide", "player"})
    <2>1. Steady(a)
      BY <1>1 DEF Kept
    <2> QED
      BY <1>3, <2>1, CueKept, SteadyShape, CueChanges DEF Good
  <1>5. g.cur = d.cur /\ g.config = d.config /\ g.fidx = a.fidx /\ g.visible = a.visible
    BY <1>1, <1>4 DEF Changes, Fields
  <1>6. b.visible = d.visible
    BY <1>1, <1>4, <1>5, FragmentUndone DEF a
  <1>7. b.cur = g.cur
    <2>1. IndexTyped(NoIndex) /\ -1 \in Int
      BY DEF IndexTyped, NoIndex
    <2>2. Changes(g, b, {"fidx", "visible", "curfrag", "enabled", "events"})
      BY <1>4, <2>1, SteadyShape, NavigateEffect
    <2> HIDE DEF b
    <2> QED
      BY <2>2 DEF Changes, Fields
  <1>8. way.fragment = -1 /\ way.inOverview
    BY DEF NavigatePrev, NavigateUp, Vertical, Way
  <1>9. e = b
    BY <1>1, <1>5, <1>6, <1>8 DEF Go, Follow, Moved
  <1> QED
    BY <1>5, <1>6, <1>7, <1>9

\* Back from the slide that follows
LEMMA BackFromSlide ==
  ASSUME NEW d, Steady(d), ~d.overview, ~AvailableFragments(d).next, d.config.fragments,
         ~(d.config.loop /\ IsLastSlide(d)), NavigateNext(d).open,
         \A h \in Stacks : GetPreviousVerticalIndex(d, h) = 0,
         NEW g, g = CueAutoSlide(Go(d, NavigateNext(d))), NEW e, e = Go(g, NavigatePrev(g))
  PROVE  e.cur = d.cur /\ e.visible = d.visible
  <1> DEFINE m == Go(d, NavigateNext(d))
             n == Verticals[g.indexh - 1]
  <1>1. /\ Placed(d) /\ d.cur # None /\ d.cur \in Leaves /\ NeighboursShown(d)
        /\ d.indexh \in DOMAIN Verticals /\ d.indexh \in Nat /\ d.indexv \in Nat
    BY SteadyShape
  <1>2. ~Downward(d) => d.indexh < Length - 1
    BY <1>1, Shape, AtLast, NextPlace
  <1>3. /\ Good(m) /\ m.config = d.config /\ ~m.overview /\ Aside(m, m.indexh) /\ OwnKept(d, m)
        /\ Downward(d) => m.indexh = d.indexh /\ m.indexv = d.indexv + 1
        /\ ~Downward(d) => m.indexh = d.indexh + 1 /\ m.indexv = 0
    <2>1. GetPreviousVerticalIndex(d, d.indexh + 1) = 0
      BY DEF GetPreviousVerticalIndex
    <2> QED
      BY <1>2, <2>1, NextPlace
  <1>4. Precedes(d.cur, m.cur)
    <2>1. ~IsLastSlide(d)
      BY <1>1, <1>2, Shape, AtLast
    <2> QED
      BY <2>1, NextSlide
  <1> HIDE DEF m
  <1>5. Steady(g) /\ Changes(m, g, {"timer", "autoSlide", "player"})
    <2>1. Steady(m)
      BY <1>3 DEF Good
    <2> QED
      BY <2>1, CueKept, SteadyShape, CueChanges DEF Good, m
  <1>6. /\ g.cur = m.cur /\ g.config = d.config /\ g.visible = m.visible /\ g.indexh = m.indexh
        /\ g.indexv = m.indexv /\ g.cls = m.cls /\ ~g.overview
    BY <1>3, <1>5 DEF Changes, Fields
  <1>7. Aside(g, g.indexh)
    BY <1>3, <1>6 DEF Aside
  <1>8. g.cur \in Leaves /\ NeighboursShown(g) /\ g.cur # None
    BY <1>5, SteadyShape
  <1>9. FragmentsOf(g.cur) \cap g.visible = {}
    <2>1. ASSUME NEW f \in Fragments, f[1] = g.cur PROVE f \notin g.visible
      <3>1. f \notin d.visible
        BY <1>1, <1>4, <1>6, <2>1 DEF NeighboursShown
      <3> QED
        BY <1>3, <1>6, <2>1, <3>1 DEF OwnKept
    <2> QED
      BY <1>8, <2>1, FragmentShape
  <1>10. g.indexv > 0 \/ g.indexh > 0
    BY <1>1, <1>3, <1>6
  <1>11. /\ Good(e) /\ e.config = g.config /\ OwnKept(g, e)
         /\ g.indexv > 0 => e.indexh = g.indexh /\ e.indexv = g.indexv - 1
         /\ g.indexv = 0 => e.indexh = g.indexh - 1 /\ e.indexv = IF n = 0 THEN 0 ELSE n - 1
    BY <1>5, <1>6, <1>7, <1>9, <1>10, PrevPlace
  <1>12. e.indexh = d.indexh /\ e.indexv = d.indexv
    <2>1. CASE Downward(d)
      BY <1>1, <1>3, <1>6, <1>11, <2>1
    <2>2. CASE ~Downward(d)
      <3>1. g.indexv = 0 /\ g.indexh - 1 = d.indexh
        BY <1>1, <1>3, <1>6, <2>2
      <3>2. e.indexh = d.indexh /\ e.indexv = IF Verticals[d.indexh] = 0 THEN 0 ELSE Verticals[d.indexh] - 1
        BY <1>11, <3>1
      <3>3. d.indexv \in IndicesV(d.indexh) /\ Verticals[d.indexh] \in Nat
        BY <1>1, IndexShape DEF Placed
      <3>4. CASE d.indexh \in Stacks
        <4>1. d.indexv \in 0 .. Verticals[d.indexh] - 1 /\ Verticals[d.indexh] # 0
          BY <1>1, <3>3, <3>4, IndexShape DEF IndicesV
        <4> QED
          BY <2>2, <3>2, <3>3, <4>1 DEF Downward
      <3>5. CASE d.indexh \notin Stacks
        <4>1. d.indexv = 0 /\ Verticals[d.indexh] = 0
          BY <1>1, <3>3, <3>5, IndexShape DEF IndicesV
        <4> QED
          BY <3>2, <4>1
      <3> QED
        BY <3>4, <3>5
    <2> QED
      BY <2>1, <2>2
  <1>13. Steady(e) /\ e.cur = d.cur
    <2>1. Steady(e)
      BY <1>11 DEF Good
    <2>2. Placed(e) /\ e.cur # None
      BY <2>1, SteadyShape
    <2> QED
      BY <1>1, <1>12, <2>1, <2>2 DEF Placed
  <1>14. ASSUME NEW f \in Fragments, f[1] = d.cur PROVE f \in e.visible /\ f \in d.visible
    <2>1. f \in g.visible
      BY <1>4, <1>6, <1>8, <1>14 DEF NeighboursShown
    <2>2. f \in e.visible
      BY <1>6, <1>11, <1>13, <1>14, <2>1 DEF OwnKept
    <2>3. f \in d.visible
      <3>1. f \in FragmentsOf(d.cur)
        BY <1>1, <1>14, FragmentShape
      <3> QED
        BY <1>1, <3>1 DEF AvailableFragments
    <2> QED
      BY <2>2, <2>3
  <1>15. e.visible = d.visible
    BY <1>6, <1>11, <1>13, <1>14, SameVisible
  <1> QED
    BY <1>13, <1>15

-----------------------------------------------------------------------------
(* The numbers of the fragments *)

\* The numbers that sorting gives the fragments F where num are those they have
NumbersOf(num, F) ==
  LET ordered == {f \in F : num[f] # Undef}
      groups == {num[f] : f \in ordered}
      Index(f) ==
        IF f \in ordered THEN Cardinality({g \in groups : g < num[f]})
        ELSE Cardinality(groups) + Cardinality({e \in F \ ordered : e[2] < f[2]})
  IN [f \in Fragments |-> IF f \in F THEN Index(f) ELSE num[f]]

Given == [f \in Fragments |-> FragmentIndices[f[1]][f[2]]]

\* The numbers that every deck has once it has started
Num == [f \in Fragments |-> NumbersOf(Given, FragmentsOf(f[1]))[f]]

LEMMA SortNumbers ==
  ASSUME NEW d, IsDeck(d)
  PROVE  /\ \A F : SortFragments(d, F).fidx = NumbersOf(d.fidx, F)
         /\ SortAllFragments(d).fidx = [f \in Fragments |-> NumbersOf(d.fidx, FragmentsOf(f[1]))[f]]
  <1>1. ASSUME NEW F PROVE SortFragments(d, F).fidx = NumbersOf(d.fidx, F)
    BY DEF SortFragments, NumbersOf, IsDeck, Fields
  <1>2. SortAllFragments(d).fidx = [f \in Fragments |-> SortFragments(d, FragmentsOf(f[1])).fidx[f]]
    BY DEF SortAllFragments, IsDeck, Fields
  <1> QED
    BY <1>1, <1>2

\* The fragments without an index are counted in the order of the document.
LEMMA CountedInOrder ==
  ASSUME NEW l \in Leaves, NEW U, U \subseteq FragmentsOf(l)
  PROVE  {Cardinality({e \in U : e[2] < f[2]}) : f \in U} = 0 .. Cardinality(U) - 1
  <1> DEFINE G == {f[2] : f \in U}
             Below(n) == {g \in G : g < n}
             Before(n) == {e \in U : e[2] < n}
  <1>1. /\ IsFiniteSet(U) /\ \A f \in U : f = <<l, f[2]>> /\ f[2] \in Nat
    BY FragmentShape, FS_Subset
  <1>2. ASSUME NEW V, V \subseteq U
        PROVE  Cardinality({f[2] : f \in V}) = Cardinality(V) /\ IsFiniteSet({f[2] : f \in V})
    <2> DEFINE W == {f[2] : f \in V}
               number == [f \in V |-> f[2]]
    <2>1. IsFiniteSet(V)
      BY <1>1, <1>2, FS_Subset
    <2>2. number \in Bijection(V, W)
      <3>1. number \in [V -> W] /\ \A n \in W : \E f \in V : number[f] = n
        OBVIOUS
      <3>2. \A e, f \in V : number[e] = number[f] => e = f
        BY <1>1, <1>2
      <3> QED
        BY <3>1, <3>2 DEF Bijection, Injection, Surjection, IsInjective
    <2> HIDE DEF number, W
    <2>3. IsFiniteSet(W) /\ Cardinality(W) = Cardinality(V)
      BY <2>1, <2>2, FS_Bijection DEF ExistsBijection
    <2> QED
      BY <2>3 DEF W
  <1>3. G \subseteq Int /\ IsFiniteSet(G) /\ Cardinality(G) = Cardinality(U)
    BY <1>1, <1>2
  <1>4. ASSUME NEW n PROVE Cardinality(Below(n)) = Cardinality(Before(n))
    <2>1. Below(n) = {f[2] : f \in Before(n)}
      OBVIOUS
    <2>2. Before(n) \subseteq U
      OBVIOUS
    <2> HIDE DEF Before, Below
    <2> QED
      BY <1>2, <2>1, <2>2
  <1>5. {Cardinality(Below(n)) : n \in G} = 0 .. Cardinality(G) - 1
    <2> HIDE DEF G
    <2> QED
      BY <1>3, Ranks
  <1>6. {Cardinality(Below(n)) : n \in G} = {Cardinality(Before(f[2])) : f \in U}
    <2> HIDE DEF Before, Below
    <2> QED
      BY <1>4
  <1> QED
    BY <1>3, <1>5, <1>6

\* However the fragments of a slide were numbered, sorting leaves no gap.
LEMMA NumbersDense ==
  ASSUME NEW num, NEW l \in Leaves, \A f \in FragmentsOf(l) : num[f] \in Nat \cup {Undef}
  PROVE  Dense(NumbersOf(num, FragmentsOf(l)), FragmentsOf(l))
  <1> DEFINE F == FragmentsOf(l)
             ordered == {f \in F : num[f] # Undef}
             groups == {num[f] : f \in ordered}
             Below(n) == {g \in groups : g < n}
             rest == F \ ordered
             Earlier(f) == {e \in rest : e[2] < f[2]}
             m == Cardinality(groups)
             k == Cardinality(rest)
             new == NumbersOf(num, F)
  <1>1. F \subseteq Fragments /\ IsFiniteSet(F)
    BY FragmentShape
  <1>2. /\ \A f \in ordered : new[f] = Cardinality(Below(num[f]))
        /\ \A f \in rest : new[f] = m + Cardinality(Earlier(f))
    BY <1>1 DEF NumbersOf
  <1>3. IsFiniteSet(groups) /\ groups \subseteq Int /\ m \in Nat
    <2>1. IsFiniteSet(ordered) /\ groups \subseteq Int
      BY <1>1, FS_Subset
    <2>2. [f \in ordered |-> num[f]] \in Surjection(ordered, groups)
      BY DEF Surjection
    <2> HIDE DEF ordered, groups
    <2>3. IsFiniteSet(groups)
      BY <2>1, <2>2, FS_Surjection
    <2> QED
      BY <2>1, <2>3, FS_CardinalityType
  <1>4. {Cardinality(Below(n)) : n \in groups} = 0 .. m - 1
    BY <1>3, Ranks
  <1>5. {Cardinality(Earlier(f)) : f \in rest} = 0 .. k - 1 /\ k \in Nat
    <2>1. rest \subseteq FragmentsOf(l) /\ IsFiniteSet(rest)
      BY <1>1, FS_Subset
    <2> HIDE DEF rest
    <2> QED
      BY <2>1, CountedInOrder, FS_CardinalityType
  <1> HIDE DEF m, k, Below, Earlier, new
  <1>6. {new[f] : f \in ordered} = 0 .. m - 1
    <2>1. {new[f] : f \in ordered} = {Cardinality(Below(n)) : n \in groups}
      BY <1>2
    <2> QED
      BY <1>4, <2>1
  <1>7. {new[f] : f \in rest} = m .. m + k - 1
    <2>1. ASSUME NEW f \in rest PROVE new[f] \in m .. m + k - 1
      <3>1. Cardinality(Earlier(f)) \in 0 .. k - 1
        BY <1>5
      <3> QED
        BY <1>2, <1>3, <1>5, <3>1
    <2>2. ASSUME NEW n \in m .. m + k - 1 PROVE \E f \in rest : new[f] = n
      <3>1. n - m \in 0 .. k - 1
        BY <1>3, <1>5
      <3>2. PICK f \in rest : Cardinality(Earlier(f)) = n - m
        BY <1>5, <3>1
      <3> QED
        BY <1>2, <1>3, <3>2
    <2> HIDE DEF rest
    <2> QED
      BY <2>1, <2>2
  <1>8. {new[f] : f \in F} = {new[f] : f \in ordered} \cup {new[f] : f \in rest}
    OBVIOUS
  <1>9. 0 .. (m + k) - 1 = (0 .. m - 1) \cup (m .. m + k - 1) /\ m + k \in Nat
    BY <1>3, <1>5
  <1>10. {new[f] : f \in F} = 0 .. (m + k) - 1
    <2> DEFINE A == {new[f] : f \in ordered}
               B == {new[f] : f \in rest}
               C == {new[f] : f \in F}
    <2>1. A = 0 .. m - 1 /\ B = m .. m + k - 1 /\ C = A \cup B
      BY <1>6, <1>7, <1>8
    <2> HIDE DEF A, B, C
    <2>2. C = 0 .. (m + k) - 1
      BY <1>9, <2>1
    <2> QED
      BY <2>2 DEF C
  <1> QED
    BY <1>9, <1>10 DEF Dense, new


LEMMA NumShape ==
  /\ Num \in [Fragments -> Nat]
  /\ \A l \in Leaves : Dense(Num, FragmentsOf(l))
  <1>1. ASSUME NEW l \in Leaves
        PROVE  /\ Dense(Num, FragmentsOf(l))
               /\ \A f \in FragmentsOf(l) : Num[f] \in Nat
    <2> DEFINE F == FragmentsOf(l)
               new == NumbersOf(Given, F)
    <2>1. \A f \in F : f \in Fragments /\ f[1] = l /\ Given[f] \in Nat \cup {Undef}
      BY FragmentShape DEF Given
    <2>2. Dense(new, F)
      BY <2>1, NumbersDense
    <2>3. \A f \in F : Num[f] = new[f]
      BY <2>1 DEF Num
    <2> HIDE DEF F, new
    <2>4. PICK m \in Nat : {new[f] : f \in F} = 0 .. m - 1
      BY <2>2 DEF Dense
    <2>5. {Num[f] : f \in F} = 0 .. m - 1
      BY <2>3, <2>4
    <2>6. Dense(Num, F)
      BY <2>5 DEF Dense
    <2>7. \A f \in F : Num[f] \in 0 .. m - 1
      BY <2>5
    <2> QED
      BY <2>6, <2>7 DEF F
  <1>2. \A f \in Fragments : Num[f] \in Nat
    BY <1>1, FragmentOfLeaf
  <1> QED
    BY <1>1, <1>2 DEF Num

LEMMA SortSame ==
  ASSUME NEW d, IsDeck(d), d.fidx \in [Fragments -> Nat], NEW F, F \subseteq Fragments, IsFiniteSet(F),
         Dense(d.fidx, F)
  PROVE  SortFragments(d, F).fidx = d.fidx
  <1> DEFINE e == SortFragments(d, F)
  <1>1. \A f \in F : e.fidx[f] = d.fidx[f]
    BY SortDense
  <1>2. DOMAIN e.fidx = Fragments /\ \A f \in Fragments \ F : e.fidx[f] = d.fidx[f]
    BY DEF SortFragments, IsDeck, Fields
  <1>3. e.fidx = [f \in Fragments |-> e.fidx[f]]
    BY DEF SortFragments, IsDeck, Fields
  <1> HIDE DEF e
  <1>4. e.fidx = d.fidx
    BY <1>1, <1>2, <1>3
  <1> QED
    BY <1>4 DEF e

\* The numbers of a deck that has started stay, however often they are sorted.
LEMMA NumKept ==
  ASSUME NEW d, IsDeck(d)
  PROVE  /\ d.fidx = Given => SortAllFragments(d).fidx = Num
         /\ d.fidx = Num => /\ SortAllFragments(d).fidx = Num
                            /\ \A l \in Leaves : SortFragments(d, FragmentsOf(l)).fidx = Num
  <1>1. d.fidx = Given => SortAllFragments(d).fidx = Num
    BY SortNumbers DEF Num
  <1>2. ASSUME d.fidx = Num, NEW l \in Leaves PROVE SortFragments(d, FragmentsOf(l)).fidx = Num
    BY <1>2, NumShape, SortSame, FragmentShape
  <1>3. ASSUME d.fidx = Num PROVE SortAllFragments(d).fidx = Num
    <2>1. SortAllFragments(d).fidx = [f \in Fragments |-> SortFragments(d, FragmentsOf(f[1])).fidx[f]]
      BY DEF SortAllFragments, IsDeck, Fields
    <2>2. \A f \in Fragments : SortFragments(d, FragmentsOf(f[1])).fidx = Num
      BY <1>2, <1>3, FragmentOfLeaf
    <2>3. SortAllFragments(d).fidx = [f \in Fragments |-> Num[f]]
      BY <2>1, <2>2
    <2> QED
      BY <2>3, NumShape
  <1> QED
    BY <1>1, <1>2, <1>3

-----------------------------------------------------------------------------
(* What a state tells of a deck *)

\* The fragments of a slide up to its current ones are visible; a slide of which
\* only some are visible has current ones.
CurrentShown(d) ==
  /\ \A f \in d.curfrag : \A g \in Fragments :
       g[1] = f[1] => (g \in d.visible <=> Num[g] <= Num[f])
  /\ \A f, g \in Fragments :
       f[1] = g[1] /\ f \in d.visible /\ g \notin d.visible => \E c \in d.curfrag : c[1] = f[1]

State == [indexh : Int, indexv : Int, indexf : [set : BOOLEAN, to : Int],
          paused : BOOLEAN, overview : BOOLEAN]
Announcements ==
  {"slidechanged", "fragmentshown", "fragmenthidden", "overviewshown", "overviewhidden", "paused", "resumed",
   "autoslidepaused", "autoslideresumed", "ready"}
Event == [type : Announcements, state : State]

\* What the events of a deck can be told from
Numbering(d) ==
  /\ d.fidx = Num
  /\ d.config.fragments => CurrentShown(d)
  /\ ~d.config.fragments => d.visible = Fragments
Faithful(d) == Numbering(d) /\ d.events \in Seq(Event)

\* A state gives the slide of d and its fragments, and its switches too if all.
Tells(state, d, all) ==
  /\ state.indexh = d.indexh /\ state.indexv = d.indexv
  /\ d.config.fragments =>
       \A f \in Fragments : f[1] = d.cur =>
         state.indexf.set /\ (f \in d.visible <=> Num[f] <= state.indexf.to)
  /\ all => state.paused = d.paused /\ state.overview = d.overview

\* What a deck must have to be told of
Tellable(d) ==
  /\ IsDeck(d) /\ Placed(d) /\ FragmentsTyped(d) /\ {d.paused, d.overview} \subseteq BOOLEAN
  /\ d.config.fragments \in BOOLEAN

LEMMA DenseCard ==
  ASSUME NEW F, IsFiniteSet(F), NEW num, Dense(num, F)
  PROVE  \A f \in F : num[f] \in 0 .. Cardinality(F) - 1
  <1>1. PICK m \in Nat : {num[f] : f \in F} = 0 .. m - 1
    BY DEF Dense
  <1> DEFINE T == {num[f] : f \in F}
  <1>2. [f \in F |-> num[f]] \in Surjection(F, T)
    BY DEF Surjection
  <1> HIDE DEF T
  <1>3. Cardinality(T) <= Cardinality(F) /\ Cardinality(F) \in Nat
    BY <1>2, FS_Surjection, FS_CardinalityType
  <1>4. Cardinality(0 .. m - 1) = m
    BY FS_Interval
  <1>5. m <= Cardinality(F)
    BY <1>1, <1>3, <1>4 DEF T
  <1> QED
    BY <1>1, <1>3, <1>5

LEMMA IndexTells ==
  ASSUME NEW d, Tellable(d), Numbering(d)
  PROVE  /\ GetIndexF(d) \in Int
         /\ d.config.fragments =>
              \A f \in Fragments : f[1] = d.cur => (f \in d.visible <=> Num[f] <= GetIndexF(d))
  <1> DEFINE F == FragmentsOf(d.cur)
             now == d.curfrag \cap F
             first == CHOOSE f \in now : \A g \in now : f[2] <= g[2]
             seen == d.visible \cap F
  <1>1. CASE d.cur = None \/ F = {}
    <2>1. GetIndexF(d) = Undef
      BY <1>1 DEF GetIndexF
    <2>2. \A f \in Fragments : f[1] # d.cur
      BY <1>1, FragmentOfLeaf DEF Leaves, Sections, HorizontalSlides, VerticalSlides, None
    <2> QED
      BY <2>1, <2>2 DEF Undef
  <1>2. CASE d.cur # None /\ F # {}
    <2>1. GetIndexF(d) = IF now # {} THEN Num[first] ELSE Cardinality(seen) - 1
      BY <1>2 DEF GetIndexF, Numbering
    <2>2. d.cur \in Leaves
      BY <1>2, PlacedShape DEF Tellable
    <2>3. /\ F = {f \in Fragments : f[1] = d.cur} /\ IsFiniteSet(F)
          /\ \A f \in F : f[2] \in Nat /\ Num[f] \in Nat
          /\ Dense(Num, F)
      BY <2>2, FragmentShape, NumShape
    <2> HIDE DEF F
    <2>4. IsFiniteSet(seen) /\ Cardinality(seen) \in Nat
      BY <2>3, FS_Subset, FS_CardinalityType
    <2>5. CASE now # {}
      <3> DEFINE N == {f[2] : f \in now}
      <3>1. IsFiniteSet(now) /\ now \subseteq F
        BY <2>3, FS_Subset
      <3>2. [f \in now |-> f[2]] \in Surjection(now, N)
        BY DEF Surjection
      <3>3. N \subseteq Int /\ N # {}
        BY <2>3, <2>5
      <3> HIDE DEF now, N
      <3>4. IsFiniteSet(N)
        BY <3>1, <3>2, FS_Surjection
      <3>5. Min(N) \in N /\ \A n \in N : Min(N) <= n
        BY <3>3, <3>4, MinExists
      <3>6. \E f \in now : \A g \in now : f[2] <= g[2]
        BY <3>5 DEF N
      <3>7. first \in now
        BY <3>6
      <3> HIDE DEF first
      <3>8. first \in F /\ first \in d.curfrag
        BY <3>7 DEF now
      <3>9. d.config.fragments => \A g \in Fragments : g[1] = first[1] => (g \in d.visible <=> Num[g] <= Num[first])
        BY <3>8 DEF Numbering, CurrentShown
      <3> QED
        BY <2>1, <2>3, <2>5, <3>8, <3>9
    <2>6. CASE now = {}
      <3>1. GetIndexF(d) = Cardinality(seen) - 1
        BY <2>1, <2>6
      <3>2. ASSUME d.config.fragments PROVE seen = {} \/ seen = F
        <4>1. \A f, g \in F : f \in d.visible => g \in d.visible
          BY <2>3, <2>6, <3>2 DEF Numbering, CurrentShown, Tellable, FragmentsTyped
        <4> QED
          BY <4>1
      <3> HIDE DEF seen
      <3>3. CASE seen = {}
        <4>1. GetIndexF(d) = -1
          BY <3>1, <3>3, FS_EmptySet
        <4>2. \A f \in F : f \notin d.visible /\ ~(Num[f] <= -1)
          BY <2>3, <3>3 DEF seen
        <4> QED
          BY <2>3, <4>1, <4>2
      <3>4. CASE seen = F
        <4>1. \A f \in F : f \in d.visible
          BY <3>4 DEF seen
        <4>2. \A f \in F : Num[f] \in 0 .. Cardinality(F) - 1
          BY <2>3, DenseCard
        <4>3. Cardinality(F) \in Nat
          BY <2>4, <3>4
        <4>4. \A f \in F : Num[f] <= GetIndexF(d)
          BY <3>1, <3>4, <4>2, <4>3
        <4> QED
          BY <2>3, <2>4, <3>1, <4>1, <4>4
      <3> QED
        BY <2>4, <3>1, <3>2, <3>3, <3>4
    <2> QED
      BY <2>5, <2>6
  <1> QED
    BY <1>1, <1>2

\* The state that a deck gives is typed, and tells of the deck.
LEMMA StateTells ==
  ASSUME NEW d, Tellable(d), Numbering(d)
  PROVE  GetState(d) \in State /\ Tells(GetState(d), d, TRUE)
  <1> DEFINE set == d.cur # None /\ FragmentsOf(d.cur) # {}
             to == GetIndexF(d)
  <1>1. GetState(d) = [indexh |-> d.indexh, indexv |-> d.indexv, indexf |-> [set |-> set, to |-> to],
                       paused |-> d.paused, overview |-> d.overview]
    BY DEF GetState
  <1>2. /\ set \in BOOLEAN /\ to \in Int /\ d.indexh \in Int /\ d.indexv \in Int
        /\ d.paused \in BOOLEAN /\ d.overview \in BOOLEAN
    BY IndexTells, PlacedShape DEF Tellable
  <1>3. d.config.fragments =>
          \A f \in Fragments : f[1] = d.cur => set /\ (f \in d.visible <=> Num[f] <= to)
    <2>1. ASSUME NEW f \in Fragments, f[1] = d.cur PROVE set
      <3>1. d.cur \in Leaves
        BY <2>1, FragmentOfLeaf
      <3>2. d.cur # None /\ f \in FragmentsOf(d.cur)
        BY <2>1, <3>1, FragmentShape, LeafShape DEF None
      <3> QED
        BY <3>2
    <2> HIDE DEF set, to
    <2> QED
      BY <2>1, IndexTells DEF to
  <1> HIDE DEF set, to
  <1>4. GetState(d) \in State
    BY <1>1, <1>2 DEF State
  <1>5. /\ GetState(d).indexh = d.indexh /\ GetState(d).indexv = d.indexv /\ GetState(d).indexf.to = to
        /\ GetState(d).indexf.set = set /\ GetState(d).paused = d.paused /\ GetState(d).overview = d.overview
    BY <1>1
  <1> QED
    BY <1>3, <1>4, <1>5 DEF Tells

-----------------------------------------------------------------------------
(* The events of a deck, and what one who hears those of some types knows *)

\* The last state heard, or the one known before.
LastIs(events, types, before, state) ==
  \/ \E i \in DOMAIN events :
       /\ events[i].type \in types /\ events[i].state = state
       /\ \A j \in DOMAIN events : j > i => events[j].type \notin types
  \/ state = before /\ \A j \in DOMAIN events : events[j].type \notin types

\* It tells of d.
Told(types, all, before, d) ==
  \E state \in State : LastIs(d.events, types, before, state) /\ Tells(state, d, all)

\* Who was told of d is told of e.
Follows(types, all, d, e) ==
  Faithful(e) /\ \A before \in State : Told(types, all, before, d) => Told(types, all, before, e)

\* Whatever was known before, the events tell of d.
Announced(types, all, d) == Faithful(d) /\ \A before \in State : Told(types, all, before, d)

LEMMA FollowsTrans ==
  ASSUME NEW types, NEW all, NEW c, NEW d, NEW e, Follows(types, all, d, e)
  PROVE  /\ Follows(types, all, c, d) => Follows(types, all, c, e)
         /\ Announced(types, all, d) => Announced(types, all, e)
  BY Zenon DEF Follows, Announced

LEMMA AnnouncedFollows ==
  ASSUME NEW types, NEW all, NEW d, NEW e, Announced(types, all, e)
  PROVE  Follows(types, all, d, e) /\ Faithful(e)
  BY Zenon DEF Follows, Announced

LEMMA FollowsSelf ==
  ASSUME NEW types, NEW all, NEW d, Faithful(d)
  PROVE  Follows(types, all, d, d)
  BY Zenon DEF Follows

TellFields == {"config", "indexh", "indexv", "cur", "fidx", "visible", "curfrag", "events"}

\* What does not touch what the events tell of changes nothing about it.
LEMMA TellFrame ==
  ASSUME NEW types, NEW all \in BOOLEAN, NEW d, Faithful(d), NEW A, NEW e, Changes(d, e, A),
         A \cap TellFields = {}, all => A \cap {"paused", "overview"} = {}
  PROVE  Follows(types, all, d, e)
  <1>1. /\ e.config = d.config /\ e.indexh = d.indexh /\ e.indexv = d.indexv /\ e.cur = d.cur
        /\ e.fidx = d.fidx /\ e.visible = d.visible /\ e.curfrag = d.curfrag /\ e.events = d.events
        /\ all => e.paused = d.paused /\ e.overview = d.overview
    BY DEF Changes, Fields, TellFields
  <1>2. CurrentShown(d) <=> CurrentShown(e)
    BY <1>1 DEF CurrentShown
  <1>3. Faithful(e)
    BY <1>1, <1>2 DEF Faithful, Numbering
  <1>4. ASSUME NEW state \in State, Tells(state, d, all) PROVE Tells(state, e, all)
    BY <1>1, <1>4 DEF Tells
  <1> QED
    BY <1>1, <1>3, <1>4 DEF Follows, Told

LEMMA LastAppended ==
  ASSUME NEW S, NEW events \in Seq(S), NEW x, NEW types, NEW before
  PROVE  /\ x.type \in types => LastIs(Append(events, x), types, before, x.state)
         /\ x.type \notin types =>
              \A state : LastIs(events, types, before, state) => LastIs(Append(events, x), types, before, state)
  <1> DEFINE n == Len(events)
             after == Append(events, x)
  <1>1. /\ n \in Nat /\ DOMAIN events = 1 .. n /\ DOMAIN after = 1 .. n + 1
        /\ after[n + 1] = x /\ \A i \in 1 .. n : after[i] = events[i]
    BY AppendProperties
  <1> HIDE DEF n, after
  <1>2. ASSUME x.type \in types PROVE LastIs(after, types, before, x.state)
    <2>1. n + 1 \in DOMAIN after /\ \A j \in DOMAIN after : ~(j > n + 1)
      BY <1>1
    <2> QED
      BY <1>1, <1>2, <2>1 DEF LastIs
  <1>3. ASSUME x.type \notin types, NEW state, LastIs(events, types, before, state)
        PROVE  LastIs(after, types, before, state)
    <2>1. \A j \in DOMAIN after : (j \in 1 .. n /\ after[j] = events[j]) \/ after[j] = x
      BY <1>1
    <2>2. CASE \E i \in DOMAIN events :
                 /\ events[i].type \in types /\ events[i].state = state
                 /\ \A j \in DOMAIN events : j > i => events[j].type \notin types
      <3>1. PICK i \in DOMAIN events :
                 /\ events[i].type \in types /\ events[i].state = state
                 /\ \A j \in DOMAIN events : j > i => events[j].type \notin types
        BY <2>2
      <3>2. i \in DOMAIN after /\ after[i] = events[i]
        BY <1>1
      <3> QED
        BY <1>1, <1>3, <2>1, <3>1, <3>2 DEF LastIs
    <2>3. CASE state = before /\ \A j \in DOMAIN events : events[j].type \notin types
      BY <1>1, <1>3, <2>1, <2>3 DEF LastIs
    <2> QED
      BY <1>3, <2>2, <2>3 DEF LastIs
  <1> QED
    BY <1>2, <1>3 DEF after

\* An event that is heard tells of the deck, whatever was known.
LEMMA DispatchTells ==
  ASSUME NEW types, NEW all \in BOOLEAN, NEW d, Tellable(d), Faithful(d), NEW type \in Announcements,
         NEW e, e = DispatchEvent(d, type)
  PROVE  /\ Follows(types, all, d, e)
         /\ type \in types => Announced(types, all, e)
  <1> DEFINE x == [type |-> type, state |-> GetState(d)]
  <1>1. e = [d EXCEPT !.events = Append(@, x)]
    BY DEF DispatchEvent
  <1>2. x.type = type /\ x.state = GetState(d) /\ x \in Event
    BY StateTells DEF Event, Faithful
  <1> HIDE DEF x
  <1>3. /\ e.config = d.config /\ e.indexh = d.indexh /\ e.indexv = d.indexv /\ e.cur = d.cur
        /\ e.fidx = d.fidx /\ e.visible = d.visible /\ e.curfrag = d.curfrag /\ e.events = Append(d.events, x)
        /\ e.paused = d.paused /\ e.overview = d.overview
    BY <1>1 DEF Tellable, IsDeck, Fields
  <1>4. Faithful(e)
    <2>1. e.events \in Seq(Event)
      BY <1>2, <1>3 DEF Faithful
    <2>2. CurrentShown(d) <=> CurrentShown(e)
      BY <1>3 DEF CurrentShown
    <2> QED
      BY <1>3, <2>1, <2>2 DEF Faithful, Numbering
  <1>5. ASSUME NEW state \in State, Tells(state, d, all) PROVE Tells(state, e, all)
    BY <1>3, <1>5 DEF Tells
  <1>6. GetState(d) \in State /\ Tells(GetState(d), d, all)
    <2>1. GetState(d) \in State /\ Tells(GetState(d), d, TRUE)
      BY StateTells DEF Faithful
    <2> QED
      BY <2>1 DEF Tells
  <1>7. ASSUME NEW before \in State, type \in types PROVE Told(types, all, before, e)
    <2>1. LastIs(e.events, types, before, GetState(d))
      BY <1>2, <1>3, <1>7, LastAppended DEF Faithful
    <2> QED
      BY <1>5, <1>6, <2>1 DEF Told
  <1>8. ASSUME NEW before \in State, type \notin types, Told(types, all, before, d)
        PROVE  Told(types, all, before, e)
    <2>1. PICK state \in State : LastIs(d.events, types, before, state) /\ Tells(state, d, all)
      BY <1>8 DEF Told
    <2>2. LastIs(e.events, types, before, state)
      BY <1>2, <1>3, <1>8, <2>1, LastAppended DEF Faithful
    <2> QED
      BY <1>5, <2>1, <2>2 DEF Told
  <1> QED
    BY <1>4, <1>7, <1>8 DEF Follows, Announced

LEMMA TellableFrame ==
  ASSUME NEW d, Tellable(d), NEW A, NEW e, Changes(d, e, A),
         A \cap {"config", "indexh", "indexv", "cur", "fidx", "visible", "curfrag", "paused", "overview"} = {}
  PROVE  Tellable(e)
  <1>1. Placed(e) /\ FragmentsTyped(e)
    BY Frames DEF Tellable
  <1>2. e.config = d.config /\ e.paused = d.paused /\ e.overview = d.overview /\ IsDeck(e)
    BY DEF Changes, Fields
  <1> QED
    BY <1>1, <1>2 DEF Tellable

-----------------------------------------------------------------------------
(* What navigateFragment tells *)

Followers(types) == {"fragmentshown", "fragmenthidden", "slidechanged"} \subseteq types

\* Showing the fragments of one slide up to an index, its current ones are at it.
LEMMA ShowTells ==
  ASSUME NEW d, Tellable(d), Sorted(d), d.config.fragments, d.fidx = Num, CurrentShown(d),
         NEW l \in Leaves, NEW i \in Int, NEW e, e = ShowUpTo(d, FragmentsOf(l), i)
  PROVE  /\ Tellable(e) /\ Numbering(e)
         /\ \A f \in FragmentsOf(l) : f \in e.visible <=> Num[f] <= i
         /\ Changes(d, e, {"visible", "curfrag"})
  <1> DEFINE F == FragmentsOf(l)
  <1>1. /\ Changes(d, e, {"visible", "curfrag"}) /\ FragmentsTyped(e)
        /\ \A f \in Fragments : f[1] # l => (f \in e.visible <=> f \in d.visible)
    <2>1. IsDeck(d) /\ FragmentsTyped(d) /\ Numbered(d) /\ PrefixShownBut(d, l)
      BY DEF Tellable, Sorted, PrefixShown, PrefixShownBut
    <2> QED
      BY <2>1, ShowUpToEffect
  <1>2. /\ e.visible = (d.visible \ F) \cup {f \in F : Num[f] <= i}
        /\ e.curfrag = (d.curfrag \ F) \cup {f \in F : Num[f] = i}
    BY DEF ShowUpTo, Tellable, IsDeck, Fields
  <1>3. F = {f \in Fragments : f[1] = l} /\ Dense(Num, F) /\ \A f \in Fragments : Num[f] \in Nat
    BY FragmentShape, NumShape
  <1> HIDE DEF F
  <1>4. e.config = d.config /\ e.fidx = Num /\ e.paused = d.paused /\ e.overview = d.overview
    BY <1>1 DEF Changes, Fields
  <1>5. Tellable(e)
    <2>1. Placed(e)
      BY <1>1, Frames DEF Tellable
    <2> QED
      BY <1>1, <1>4, <2>1 DEF Tellable, Changes
  <1>6. \A f \in F : f \in e.visible <=> Num[f] <= i
    BY <1>2
  <1>7. ASSUME NEW f \in e.curfrag, NEW g \in Fragments, g[1] = f[1]
        PROVE  g \in e.visible <=> Num[g] <= Num[f]
    <2>1. CASE f \in F
      BY <1>2, <1>3, <1>6, <1>7, <2>1
    <2>2. CASE f \notin F
      <3>1. f \in d.curfrag /\ f \in Fragments
        BY <1>2, <2>2 DEF Tellable, FragmentsTyped
      <3>2. g[1] # l
        BY <1>3, <1>7, <2>2, <3>1
      <3> QED
        BY <1>1, <1>7, <3>1, <3>2 DEF CurrentShown
    <2> QED
      BY <2>1, <2>2
  <1>8. ASSUME NEW f \in Fragments, NEW g \in Fragments, f[1] = g[1], f \in e.visible, g \notin e.visible
        PROVE  \E c \in e.curfrag : c[1] = f[1]
    <2>1. CASE f \in F
      <3>1. g \in F /\ Num[f] <= i /\ ~(Num[g] <= i)
        BY <1>3, <1>6, <1>8, <2>1
      <3>2. PICK m \in Nat : {Num[x] : x \in F} = 0 .. m - 1
        BY <1>3 DEF Dense
      <3>3. Num[g] \in 0 .. m - 1 /\ Num[f] \in 0 .. m - 1
        BY <2>1, <3>1, <3>2
      <3>4. i \in 0 .. m - 1
        BY <3>1, <3>3
      <3>5. PICK c \in F : Num[c] = i
        BY <3>2, <3>4
      <3> QED
        BY <1>2, <1>3, <2>1, <3>5
    <2>2. CASE f \notin F
      <3>1. f[1] # l /\ g[1] # l
        BY <1>3, <1>8, <2>2
      <3>2. PICK c \in d.curfrag : c[1] = f[1]
        BY <1>1, <1>8, <3>1 DEF CurrentShown
      <3>3. c \notin F
        BY <1>3, <3>1, <3>2
      <3> QED
        BY <1>2, <3>2, <3>3
    <2> QED
      BY <2>1, <2>2
  <1> QED
    BY <1>1, <1>4, <1>5, <1>6, <1>7, <1>8 DEF Numbering, CurrentShown, F

\* Sorting the fragments of one slide, or those of them that are visible, keeps the numbers.
LEMMA SortShownSame ==
  ASSUME NEW d, IsDeck(d), FragmentsTyped(d), Sorted(d), d.fidx = Num, NEW l \in Leaves
  PROVE  /\ SortFragments(d, FragmentsOf(l)).fidx = Num
         /\ SortFragments(SortFragments(d, FragmentsOf(l)), FragmentsOf(l) \cap d.visible).fidx = Num
  <1> DEFINE F == FragmentsOf(l)
             V == F \cap d.visible
             a == SortFragments(d, F)
  <1>1. a.fidx = Num
    BY NumKept
  <1>2. F \subseteq Fragments /\ IsFiniteSet(F)
    BY FragmentShape
  <1>3. PICK K \in Nat : FirstGroups(Num, F, d.visible, K)
    BY <1>1, GroupsShown
  <1>4. IsDeck(a)
    BY SortChanges DEF Changes
  <1> HIDE DEF a, F
  <1>5. {Num[f] : f \in V} = 0 .. K - 1
    <2>1. \A f \in V : Num[f] \in 0 .. K - 1
      BY <1>2, <1>3, NumShape DEF FirstGroups
    <2>2. \A n \in 0 .. K - 1 : \E f \in V : Num[f] = n
      BY <1>3 DEF FirstGroups
    <2> HIDE DEF V
    <2> QED
      BY <2>1, <2>2
  <1>6. V \subseteq Fragments /\ IsFiniteSet(V) /\ Dense(Num, V)
    BY <1>2, <1>5, FS_Subset DEF Dense
  <1> HIDE DEF V
  <1>7. SortFragments(a, V).fidx = Num
    BY <1>1, <1>4, <1>6, NumShape, SortSame
  <1> QED
    BY <1>1, <1>7 DEF a, V, F

LEMMA NavigateTells ==
  ASSUME NEW types, Followers(types), NEW all \in BOOLEAN,
         NEW d, Tellable(d), Faithful(d), Sorted(d), d.cur \in Leaves,
         NEW index, IndexTyped(index), NEW offset \in Int, NEW e, e = NavigateFragment(d, index, offset)
  PROVE  /\ Follows(types, all, d, e)
         /\ d.config.fragments /\ index.set =>
              \A f \in FragmentsOf(d.cur) : f \in e.visible <=> Num[f] <= index.to + offset
  <1> DEFINE l == d.cur
             F == FragmentsOf(l)
             a == SortFragments(d, F)
             seen == F \cap a.visible
             b == SortFragments(a, seen)
             shown == F \cap b.visible
             last == IF shown = {} THEN -1 ELSE Max({b.fidx[f] : f \in shown})
             c == IF index.set THEN ShowUpTo(a, F, index.to + offset) ELSE ShowUpTo(b, F, last + offset)
             g == DispatchIf(d.visible \ c.visible # {}, c, "fragmenthidden")
             h == DispatchIf(c.visible \ d.visible # {}, g, "fragmentshown")
  <1>1. CASE ~d.config.fragments \/ F = {}
    <2>1. e = d
      BY <1>1 DEF NavigateFragment
    <2> QED
      BY <1>1, <2>1, FollowsSelf
  <1>2. CASE d.config.fragments /\ F # {}
    <2>1. e = UpdateControls(FragmentEvents(d, c))
      BY <1>2 DEF NavigateFragment, ShowFromLast
    <2>2. /\ IsDeck(d) /\ FragmentsTyped(d) /\ d.fidx = Num /\ CurrentShown(d)
      BY <1>2 DEF Tellable, Faithful, Numbering
    <2>3. a.fidx = Num /\ Changes(d, a, {"fidx"}) /\ IsDeck(a) /\ a.visible = d.visible
      <3>1. a.fidx = Num
        BY <2>2, SortShownSame
      <3>2. Changes(d, a, {"fidx"})
        BY <2>2, SortChanges
      <3> QED
        BY <3>1, <3>2 DEF Changes, Fields
    <2>4. b.fidx = Num
      BY <2>2, <2>3, SortShownSame
    <2>5. Changes(a, b, {"fidx"}) /\ b.visible = d.visible
      BY <2>3, SortChanges DEF Changes, Fields
    <2>6. F \subseteq Fragments /\ IsFiniteSet(F)
      BY FragmentShape
    <2>7. l \in Leaves /\ F = FragmentsOf(l) /\ l = d.cur
      OBVIOUS
    <2> HIDE DEF F, a, b, l
    <2>8. last \in Int
      <3> DEFINE N == {b.fidx[f] : f \in shown}
      <3>1. IsFiniteSet(shown) /\ shown \subseteq Fragments
        BY <2>6, FS_Subset
      <3>2. [f \in shown |-> b.fidx[f]] \in Surjection(shown, N)
        BY DEF Surjection
      <3>3. IsFiniteSet(N) /\ N \subseteq Int
        BY <2>4, <3>1, <3>2, NumShape, FS_Surjection
      <3>4. shown # {} => N # {}
        OBVIOUS
      <3>5. last = IF shown = {} THEN -1 ELSE Max(N)
        OBVIOUS
      <3> HIDE DEF shown, N, last
      <3> QED
        BY <3>3, <3>4, <3>5, MaxExists
    <2> HIDE DEF last
    <2>9. ASSUME NEW x, Changes(d, x, {"fidx"}), x.fidx = Num
          PROVE  Tellable(x) /\ Sorted(x) /\ CurrentShown(x) /\ x.config = d.config
      <3>1. /\ x.config = d.config /\ x.visible = d.visible /\ x.curfrag = d.curfrag /\ x.fidx = d.fidx
            /\ x.paused = d.paused /\ x.overview = d.overview
        BY <2>2, <2>9 DEF Changes, Fields
      <3>2. Changes(d, x, {})
        BY <2>9, <3>1 DEF Changes
      <3>3. Sorted(x) /\ Placed(x) /\ FragmentsTyped(x)
        BY <2>2, <3>2, Frames DEF Tellable
      <3>4. CurrentShown(x)
        BY <2>2, <3>1 DEF CurrentShown
      <3> QED
        BY <3>1, <3>2, <3>3, <3>4 DEF Tellable, Changes
    <2>10. /\ Tellable(c) /\ Numbering(c) /\ Changes(d, c, {"fidx", "visible", "curfrag"})
           /\ index.set => \A f \in F : f \in c.visible <=> Num[f] <= index.to + offset
      <3>1. CASE index.set
        <4>1. c = ShowUpTo(a, FragmentsOf(l), index.to + offset) /\ index.to + offset \in Int
          BY <2>7, <3>1 DEF IndexTyped
        <4>2. Tellable(a) /\ Sorted(a) /\ CurrentShown(a) /\ a.config = d.config
          BY <2>3, <2>9
        <4> HIDE DEF c
        <4>3. /\ Tellable(c) /\ Numbering(c) /\ Changes(a, c, {"visible", "curfrag"})
              /\ \A f \in FragmentsOf(l) : f \in c.visible <=> Num[f] <= index.to + offset
          BY <1>2, <2>3, <2>7, <4>1, <4>2, ShowTells
        <4> QED
          BY <2>3, <2>7, <4>3 DEF Changes
      <3>2. CASE ~index.set
        <4>1. c = ShowUpTo(b, FragmentsOf(l), last + offset) /\ last + offset \in Int
          BY <2>7, <2>8, <3>2
        <4>2. Changes(d, b, {"fidx"})
          BY <2>3, <2>5 DEF Changes
        <4>3. Tellable(b) /\ Sorted(b) /\ CurrentShown(b) /\ b.config = d.config
          BY <2>4, <2>9, <4>2
        <4> HIDE DEF c
        <4>4. Tellable(c) /\ Numbering(c) /\ Changes(b, c, {"visible", "curfrag"})
          BY <1>2, <2>4, <2>7, <4>1, <4>3, ShowTells
        <4> QED
          BY <3>2, <4>2, <4>4 DEF Changes
      <3> QED
        BY <3>1, <3>2
    <2> HIDE DEF c
    <2>11. Faithful(c)
      BY <2>10 DEF Faithful, Changes, Fields
    <2>12. c.visible = d.visible => Follows(types, all, d, c)
      <3> SUFFICES ASSUME c.visible = d.visible PROVE Follows(types, all, d, c)
        OBVIOUS
      <3>1. /\ c.config = d.config /\ c.indexh = d.indexh /\ c.indexv = d.indexv /\ c.cur = d.cur
            /\ c.events = d.events /\ c.paused = d.paused /\ c.overview = d.overview
        BY <2>10 DEF Changes, Fields
      <3>2. ASSUME NEW state, Tells(state, d, all) PROVE Tells(state, c, all)
        BY <3>1, <3>2 DEF Tells
      <3> QED
        BY <2>11, <3>1, <3>2 DEF Follows, Told
    <2>13. /\ Tellable(g) /\ Faithful(g) /\ Changes(c, g, {"events"})
           /\ Follows(types, all, c, g) /\ (d.visible \ c.visible # {} => Announced(types, all, g))
      <3>1. CASE d.visible \ c.visible # {}
        <4>1. g = DispatchEvent(c, "fragmenthidden") /\ "fragmenthidden" \in types
          BY <3>1 DEF DispatchIf, Followers
        <4>2. Changes(c, g, {"events"})
          BY <2>10, <4>1, EventChanges DEF Tellable
        <4>3. Follows(types, all, c, g) /\ Announced(types, all, g)
          <5>1. "fragmenthidden" \in Announcements
            BY DEF Announcements
          <5> QED
            BY Zenon, <2>10, <2>11, <4>1, <5>1, DispatchTells
        <4> QED
          BY <2>10, <4>2, <4>3, TellableFrame DEF Announced
      <3>2. CASE d.visible \ c.visible = {}
        <4>1. g = c
          BY <3>2 DEF DispatchIf
        <4> QED
          BY <2>10, <2>11, <3>2, <4>1, FollowsSelf, ChangesNothing DEF Tellable
      <3> QED
        BY <3>1, <3>2
    <2> HIDE DEF g
    <2>14. /\ Changes(g, h, {"events"})
           /\ Follows(types, all, g, h) /\ (c.visible \ d.visible # {} => Announced(types, all, h))
      <3>1. CASE c.visible \ d.visible # {}
        <4>1. h = DispatchEvent(g, "fragmentshown") /\ "fragmentshown" \in types
          BY <3>1 DEF DispatchIf, Followers
        <4>2. Changes(g, h, {"events"})
          BY <2>13, <4>1, EventChanges DEF Tellable
        <4>3. Follows(types, all, g, h) /\ Announced(types, all, h)
          <5>1. "fragmentshown" \in Announcements
            BY DEF Announcements
          <5> QED
            BY Zenon, <2>13, <4>1, <5>1, DispatchTells
        <4> QED
          BY <4>2, <4>3
      <3>2. CASE c.visible \ d.visible = {}
        <4>1. h = g
          BY <3>2 DEF DispatchIf
        <4> QED
          BY <2>13, <3>2, <4>1, FollowsSelf, ChangesNothing DEF Tellable
      <3> QED
        BY <3>1, <3>2
    <2>15. Follows(types, all, d, h)
      <3>1. CASE c.visible = d.visible
        BY <2>12, <2>13, <2>14, <3>1, FollowsTrans
      <3>2. CASE d.visible \ c.visible # {}
        BY <2>13, <2>14, <3>2, FollowsTrans, AnnouncedFollows
      <3>3. CASE c.visible \ d.visible # {}
        BY <2>14, <3>3, AnnouncedFollows
      <3> QED
        BY <3>1, <3>2, <3>3
    <2>16. e = UpdateControls(h)
      BY <2>1 DEF FragmentEvents, h, g
    <2>17. IsDeck(h) /\ h.visible = c.visible
      BY <2>13, <2>14 DEF Changes, Fields
    <2> HIDE DEF h
    <2>18. Changes(h, e, {"enabled"}) /\ e.visible = c.visible
      BY <2>16, <2>17, ControlsChanges DEF Changes, Fields
    <2>19. Follows(types, all, h, e)
      BY <2>15, <2>18, TellFrame DEF Follows, TellFields
    <2> QED
      BY <2>7, <2>10, <2>15, <2>18, <2>19, FollowsTrans
  <1> QED
    BY <1>1, <1>2

-----------------------------------------------------------------------------
(* What slide tells *)

\* Whole slides are shown or hidden: those that stay as they were keep their current ones.
LEMMA ShowHideShown ==
  ASSUME NEW d, IsDeck(d), FragmentsTyped(d), CurrentShown(d), NEW A, NEW B,
         NEW e, e = Hide(Show(d, FragmentsWithin(A)), FragmentsWithin(B))
  PROVE  CurrentShown(e)
  <1> DEFINE W == FragmentsWithin(A) \cup FragmentsWithin(B)
  <1>1. /\ e.visible = (d.visible \cup FragmentsWithin(A)) \ FragmentsWithin(B)
        /\ e.curfrag = d.curfrag \ W
    BY DEF Hide, Show, IsDeck, Fields
  <1>2. \A f, g \in Fragments : f[1] = g[1] => /\ f \in FragmentsWithin(A) <=> g \in FragmentsWithin(A)
                                               /\ f \in FragmentsWithin(B) <=> g \in FragmentsWithin(B)
    BY DEF FragmentsWithin
  <1>3. \A f, g \in Fragments : f[1] = g[1] => (f \in W <=> g \in W)
    BY <1>2
  <1>4. \A g : g \notin W => (g \in e.visible <=> g \in d.visible)
    BY <1>1
  <1>5. ASSUME NEW f \in Fragments, NEW g \in Fragments, f[1] = g[1], f \in e.visible, g \notin e.visible
        PROVE  f \notin W /\ g \notin W
    BY <1>1, <1>2, <1>5
  <1> HIDE DEF W
  <1>6. d.curfrag \subseteq Fragments
    BY DEF FragmentsTyped
  <1>7. ASSUME NEW f \in e.curfrag, NEW g \in Fragments, g[1] = f[1]
        PROVE  g \in e.visible <=> Num[g] <= Num[f]
    <2>1. f \in d.curfrag /\ f \notin W /\ f \in Fragments
      BY <1>1, <1>6
    <2>2. g \notin W
      BY <1>3, <1>7, <2>1
    <2> QED
      BY <1>4, <1>7, <2>1, <2>2 DEF CurrentShown
  <1>8. ASSUME NEW f \in Fragments, NEW g \in Fragments, f[1] = g[1], f \in e.visible, g \notin e.visible
        PROVE  \E c \in e.curfrag : c[1] = f[1]
    <2>1. f \notin W /\ g \notin W
      BY <1>5, <1>8
    <2>2. PICK c \in d.curfrag : c[1] = f[1]
      BY <1>4, <1>8, <2>1 DEF CurrentShown
    <2>3. c \notin W
      BY <1>3, <1>6, <2>1, <2>2
    <2> QED
      BY <1>1, <2>2, <2>3
  <1> QED
    BY <1>7, <1>8 DEF CurrentShown

LEMMA SlidesNumbering ==
  ASSUME NEW d, IsDeck(d), FragmentsTyped(d), Numbering(d), d.config.fragments \in BOOLEAN,
         NEW S, NEW index, NEW e, e = UpdateSlides(d, S, index)
  PROVE  Numbering(e) /\ FragmentsTyped(e) /\ IsDeck(e) /\ e.events = d.events /\ e.config = d.config
  <1> DEFINE At(s) == s[Len(s)]
             before == {s \in S : At(s) < index}
             after == {s \in S : At(s) > index}
             Reversed(s) == d.config.rtl /\ ~IsVerticalSlide(s)
             marked == [d EXCEPT
               !.cls = [s \in Sections |->
                          IF s \in before THEN IF Reversed(s) THEN "future" ELSE "past"
                          ELSE IF s \in after THEN IF Reversed(s) THEN "past" ELSE "future"
                          ELSE IF s \in S THEN "present" ELSE @[s]],
               !.state = @ \o DataState[(CHOOSE s \in S : At(s) = index)]]
             shown == Hide(Show(marked, FragmentsWithin(before)), FragmentsWithin(after))
  <1>1. Changes(d, e, {"cls", "state", "visible", "curfrag"})
    BY SlidesChanges
  <1>2. IsDeck(e) /\ e.events = d.events /\ e.config = d.config /\ e.fidx = d.fidx
    BY <1>1 DEF Changes, Fields
  <1>3. e = IF S = {} THEN d ELSE IF ~marked.config.fragments THEN marked ELSE shown
    BY DEF UpdateSlides
  <1>4. Changes(d, marked, {"cls", "state"})
    BY DEF Changes, IsDeck, Fields
  <1> HIDE DEF marked
  <1>5. /\ IsDeck(marked) /\ marked.visible = d.visible /\ marked.curfrag = d.curfrag
        /\ marked.fidx = d.fidx /\ marked.config = d.config
    BY <1>4 DEF Changes, Fields
  <1>6. FragmentsTyped(marked) /\ (CurrentShown(marked) <=> CurrentShown(d))
    BY <1>5 DEF FragmentsTyped, CurrentShown
  <1>7. CASE e = d
    BY <1>2, <1>7
  <1>8. CASE e = marked
    BY <1>2, <1>5, <1>6, <1>8 DEF Numbering
  <1>9. CASE e = shown /\ d.config.fragments
    <2>1. CurrentShown(e)
      <3> HIDE DEF before, after
      <3> QED
        BY <1>5, <1>6, <1>9, ShowHideShown DEF Numbering
    <2>2. e.visible \subseteq Fragments /\ e.curfrag \subseteq e.visible
      <3>1. /\ e.visible = (d.visible \cup FragmentsWithin(before)) \ FragmentsWithin(after)
            /\ e.curfrag \subseteq d.curfrag \ FragmentsWithin(after)
        BY <1>5, <1>9 DEF Hide, Show, IsDeck, Fields
      <3> HIDE DEF before, after
      <3>2. FragmentsWithin(before) \subseteq Fragments
        BY DEF FragmentsWithin
      <3> QED
        BY <3>1, <3>2 DEF FragmentsTyped
    <2> QED
      BY <1>2, <1>9, <2>1, <2>2 DEF Numbering, FragmentsTyped
  <1> QED
    BY <1>3, <1>5, <1>7, <1>8, <1>9

\* The fragments of the slide entered are shown up to the index given.
LEMMA EnterTells ==
  ASSUME NEW types, Followers(types), NEW all \in BOOLEAN,
         NEW d, Tellable(d), Faithful(d), Sorted(d), ClassesTyped(d), d.enabled \subseteq Directions,
         NEW h \in DOMAIN Verticals, NEW v \in IndicesV(h), NEW f, IndexTyped(f),
         NEW e, e = Enter(d, h, v, f)
  PROVE  /\ Faithful(e)
         /\ d.cur # None /\ d.indexh = h /\ d.indexv = v => Follows(types, all, d, e)
         /\ d.config.fragments /\ f.set => \A g \in FragmentsOf(e.cur) : g \in e.visible <=> Num[g] <= f.to
  <1> DEFINE l == GetSlide(h, v)
             a == [d EXCEPT !.state = <<>>]
             b == UpdateSlides(a, HorizontalSlides, h)
             marked == UpdateSlides(UpdateSlides([d EXCEPT !.state = <<>>], HorizontalSlides, h),
                                    VerticalSlides(h), v)
             there == [marked EXCEPT !.indexh = h, !.indexv = v]
             shown == UpdateSlidesVisibility(there)
             applied == ApplyState(shown, d.state)
             at == [applied EXCEPT !.cur = GetSlide(h, v)]
  <1>1. e = IF f.set THEN NavigateFragment(at, f, 0) ELSE at
    BY DEF Enter
  <1>2. Marked(d, marked, h, v)
    BY MarkEffect DEF Tellable
  <1>3. Numbering(marked) /\ marked.events = d.events
    <2>1. Changes(d, a, {"state"})
      BY DEF Changes, Tellable, IsDeck, Fields
    <2>2. marked = UpdateSlides(b, VerticalSlides(h), v)
      OBVIOUS
    <2> HIDE DEF a, marked
    <2>3. /\ IsDeck(a) /\ a.fidx = d.fidx /\ a.config = d.config /\ a.visible = d.visible
          /\ a.curfrag = d.curfrag /\ a.events = d.events
      BY <2>1 DEF Changes, Fields
    <2>4. Numbering(a) /\ FragmentsTyped(a)
      BY <2>3 DEF Numbering, CurrentShown, Faithful, Tellable, FragmentsTyped
    <2>5. Numbering(b) /\ FragmentsTyped(b) /\ IsDeck(b) /\ b.events = d.events /\ b.config = d.config
      <3> HIDE DEF b
      <3>1. b = UpdateSlides(a, HorizontalSlides, h) /\ a.config.fragments \in BOOLEAN
        BY <2>3 DEF b, Tellable
      <3> QED
        BY <2>3, <2>4, <3>1, SlidesNumbering
    <2> HIDE DEF b
    <2>6. b.config.fragments \in BOOLEAN
      BY <2>5 DEF Tellable
    <2> QED
      BY <2>2, <2>5, <2>6, SlidesNumbering
  <1> HIDE DEF marked, a, b
  <1>4. IsDeck(marked) /\ Changes(d, marked, {"cls", "state", "visible", "curfrag"})
    BY <1>2 DEF Marked, Changes
  <1>5. /\ Changes(marked, there, {"indexh", "indexv"}) /\ IsDeck(there)
        /\ there.indexh = h /\ there.indexv = v
    BY <1>4 DEF Changes, IsDeck, Fields
  <1> HIDE DEF there
  <1>6. Changes(there, shown, {"shown", "bgVideo"}) /\ IsDeck(shown)
    BY <1>5, VisibilityChanges DEF Changes
  <1> HIDE DEF shown
  <1>7. Changes(shown, applied, {"root"}) /\ IsDeck(applied)
    BY <1>6, StateChanges DEF Changes
  <1> HIDE DEF applied
  <1>8. Changes(applied, at, {"cur"}) /\ IsDeck(at) /\ at.cur = l
    BY <1>7 DEF Changes, IsDeck, Fields
  <1> HIDE DEF at
  <1>9. Changes(marked, at, {"indexh", "indexv", "shown", "bgVideo", "root", "cur"})
    BY <1>5, <1>6, <1>7, <1>8 DEF Changes
  <1>10. /\ at.indexh = h /\ at.indexv = v /\ at.visible = marked.visible /\ at.curfrag = marked.curfrag
         /\ at.fidx = marked.fidx /\ at.config = marked.config /\ at.events = d.events
         /\ at.config = d.config /\ at.paused = d.paused /\ at.overview = d.overview
         /\ at.enabled = d.enabled
    BY <1>3, <1>4, <1>5, <1>6, <1>7, <1>8 DEF Changes, Fields
  <1>11. l \in Leaves /\ l # None
    BY SlideShape
  <1>12. Tellable(at) /\ Sorted(at)
    <2>1. FragmentsTyped(at) /\ Sorted(at)
      BY <1>2, <1>4, <1>9, Frames DEF Marked
    <2>2. Placed(at)
      BY <1>8, <1>10, <1>11 DEF Placed
    <2> QED
      BY <1>8, <1>10, <2>1, <2>2 DEF Tellable
  <1>13. Faithful(at)
    <2>1. CurrentShown(at) <=> CurrentShown(marked)
      BY <1>10 DEF CurrentShown
    <2> QED
      BY <1>3, <1>10, <2>1 DEF Faithful, Numbering
  <1>14. ASSUME d.cur # None, d.indexh = h, d.indexv = v PROVE Follows(types, all, d, at)
    <2>1. d.cur = l
      BY <1>14 DEF Tellable, Placed
    <2>2. d.config.fragments => \A g \in Fragments : g[1] = l => (g \in at.visible <=> g \in d.visible)
      BY <1>2, <1>10 DEF Marked
    <2>3. ASSUME NEW state, Tells(state, d, all) PROVE Tells(state, at, all)
      BY <1>8, <1>10, <1>14, <2>1, <2>2, <2>3 DEF Tells
    <2> QED
      BY <1>10, <1>13, <2>3 DEF Follows, Told
  <1>15. CASE ~f.set
    BY <1>1, <1>13, <1>14, <1>15
  <1>16. CASE f.set
    <2>1. e = NavigateFragment(at, f, 0) /\ 0 \in Int /\ at.cur \in Leaves
      BY <1>1, <1>8, <1>11, <1>16
    <2>2. /\ Follows(types, all, at, e)
          /\ at.config.fragments /\ f.set =>
               \A g \in FragmentsOf(at.cur) : g \in e.visible <=> Num[g] <= f.to + 0
      BY <1>12, <1>13, <2>1, NavigateTells
    <2>3. e.cur = at.cur
      <3>1. Changes(at, e, {"fidx", "visible", "curfrag", "enabled", "events"})
        BY <1>10, <1>12, <2>1, NavigateEffect DEF Tellable
      <3> QED
        BY <3>1 DEF Changes, Fields
    <2>4. f.to + 0 = f.to
      BY <1>16 DEF IndexTyped
    <2> QED
      BY <1>10, <1>14, <2>2, <2>3, <2>4, FollowsTrans DEF Follows
  <1> QED
    BY <1>15, <1>16

LEMMA CoreTellable == ASSUME NEW d, Core(d) PROVE Tellable(d)
  BY DEF Core, SwitchesTyped, ModesTyped, ConfigType, Tellable

\* Who hears that a deck moves knows where it is, and with which fragments.
LEMMA SlideTells ==
  ASSUME NEW types, Followers(types), NEW all \in BOOLEAN,
         NEW d, Core(d), Sorted(d), Faithful(d), NEW h \in Int, NEW v \in Int, NEW f, IndexTyped(f),
         NEW e, e = SlideTo(d, h, v, f)
  PROVE  /\ Faithful(e)
         /\ d.cur # None => Follows(types, all, d, e)
         /\ d.config.fragments /\ f.set => \A g \in FragmentsOf(e.cur) : g \in e.visible <=> Num[g] <= f.to
  <1> DEFINE v1 == IF v = Undef /\ ~d.overview THEN GetPreviousVerticalIndex(d, h) ELSE v
             left == IF d.cur # None /\ IsVerticalSlide(d.cur)
                     THEN SetPreviousVerticalIndex(d, d.cur[1], d.indexv) ELSE d
             newh == Bounded(d, IF h = Undef THEN d.indexh ELSE h, Cardinality(HorizontalSlides))
             newv == Bounded(d, IF v1 = Undef THEN d.indexv ELSE v1, Verticals[newh])
             changed == newh # Max({d.indexh, 0}) \/ newv # Max({d.indexv, 0})
             entered == Enter(left, newh, newv, f)
             told == DispatchIf(changed, entered, "slidechanged")
             prev == IF changed THEN d.cur ELSE None
             moved == ChangeContent(told, prev)
             shown == UpdateControls(moved)
             behind == UpdateBackground(shown, FALSE)
             written == WriteURL(behind)
  <1>1. /\ Tellable(d) /\ IsDeck(d) /\ d.config \in ConfigType /\ SwitchesTyped(d) /\ Placed(d)
        /\ FragmentsTyped(d) /\ ClassesAgree(d) /\ d.enabled \subseteq Directions
    BY CoreTellable DEF Core, SwitchesTyped
  <1>2. Good(e) /\ Landed(d, e, h, v)
    BY SlideEffect
  <1>3. newh = PlaceH(d, h) /\ newv = PlaceV(d, h, v)
    BY DEF PlaceH, PlaceV
  <1>4. e = CueAutoSlide(written)
    BY DEF SlideTo
  <1> HIDE DEF newh, newv, v1
  <1>5. newh \in DOMAIN Verticals /\ newv \in IndicesV(newh) /\ newh \in Nat /\ newv \in Nat
    <2>1. e.indexh = newh /\ e.indexv = newv
      BY <1>2, <1>3 DEF Landed
    <2>2. e.indexh \in DOMAIN Verticals /\ e.indexv \in IndicesV(e.indexh)
      BY <1>2 DEF Good, Steady, Core, Placed
    <2> QED
      BY <2>1, <2>2, IndexShape
  <1>6. ASSUME d.cur # None, ~changed PROVE d.indexh = newh /\ d.indexv = newv
    <2>1. d.indexh \in Nat /\ d.indexv \in Nat
      BY <1>1, <1>6, PlacedShape
    <2>2. 0 \in Int /\ d.indexh \in Int /\ d.indexv \in Int
      BY <2>1
    <2>3. Max({d.indexh, 0}) = d.indexh /\ Max({d.indexv, 0}) = d.indexv
      BY <2>1, <2>2, MaxMin
    <2> QED
      BY <1>6, <2>3
  <1> HIDE DEF changed
  <1>7. Changes(d, left, {"prevV"}) /\ IsDeck(left)
    BY <1>1 DEF SetPreviousVerticalIndex, Changes, IsDeck, Fields
  <1> HIDE DEF left
  <1>8. /\ left.cls = d.cls /\ left.enabled = d.enabled /\ left.cur = d.cur /\ left.config = d.config
        /\ left.indexh = d.indexh /\ left.indexv = d.indexv
    BY <1>7 DEF Changes, Fields
  <1>9. /\ Tellable(left) /\ Sorted(left) /\ ClassesTyped(left) /\ left.enabled \subseteq Directions
        /\ Follows(types, all, d, left) /\ Faithful(left)
    <2>1. Follows(types, all, d, left)
      BY <1>7, TellFrame DEF TellFields
    <2>2. Tellable(left) /\ Sorted(left)
      BY <1>1, <1>7, Frames, TellableFrame
    <2> QED
      BY <1>1, <1>8, <2>1, <2>2 DEF ClassesAgree, ClassesTyped, Follows
  <1>10. /\ Faithful(entered)
         /\ d.cur # None /\ ~changed => Follows(types, all, left, entered)
         /\ d.config.fragments /\ f.set =>
              \A g \in FragmentsOf(entered.cur) : g \in entered.visible <=> Num[g] <= f.to
    BY <1>5, <1>6, <1>8, <1>9, EnterTells
  <1>11. Entered(left, entered, newh, newv)
    <2>1. StateAgrees(left) /\ DisplayTyped(left) /\ left.cur \in Leaves \cup {None}
      <3>1. StateAgrees(left)
        BY <1>7, Frames DEF Core
      <3>2. DisplayTyped(left)
        BY <1>7 DEF Core, BackgroundAgrees, DisplayTyped, Changes, Fields
      <3> QED
        BY <1>1, <1>8, <3>1, <3>2, PlacedShape
    <2> QED
      BY <1>5, <1>7, <1>9, <2>1, EnterEffect DEF Tellable
  <1> HIDE DEF entered
  <1>12. Tellable(entered)
    <2>1. /\ IsDeck(entered) /\ entered.config = left.config /\ entered.paused = left.paused
          /\ entered.overview = left.overview
      BY <1>11 DEF Entered, EnterFields, Changes, Fields
    <2> QED
      BY <1>9, <1>11, <2>1 DEF Entered, Tellable
  <1>13. /\ Changes(entered, told, {"events"}) /\ IsDeck(told)
         /\ Faithful(told) /\ (d.cur # None => Follows(types, all, d, told))
    <2>1. CASE changed
      <3>1. told = DispatchEvent(entered, "slidechanged") /\ "slidechanged" \in Announcements
        BY <2>1 DEF DispatchIf, Announcements
      <3>2. Announced(types, all, told)
        BY <1>10, <1>12, <3>1, DispatchTells DEF Followers
      <3>3. Changes(entered, told, {"events"})
        BY <1>12, <3>1, EventChanges DEF Tellable
      <3> QED
        BY <3>2, <3>3, AnnouncedFollows DEF Changes
    <2>2. CASE ~changed
      <3>1. told = entered
        BY <2>2 DEF DispatchIf
      <3> QED
        BY <1>9, <1>10, <1>12, <2>2, <3>1, ChangesNothing, FollowsTrans DEF Tellable
    <2> QED
      BY <2>1, <2>2
  <1> HIDE DEF told, prev
  <1>14. Changes(told, moved, {"cls", "resetStacks", "playing", "started", "onload", "iframe"}) /\ IsDeck(moved)
    <2> DEFINE apart == LeavePrevious(told, prev)
               stopped == StopEmbeddedContent(apart, prev)
    <2>1. Changes(told, apart, {"cls", "resetStacks"})
      BY <1>13, LeaveChanges
    <2>2. moved = StartEmbeddedContent(stopped, stopped.cur)
      BY DEF ChangeContent
    <2> HIDE DEF apart, moved
    <2>3. Changes(apart, stopped, {"playing", "started", "onload", "iframe"})
      BY <2>1, ContentChanges DEF Changes
    <2> HIDE DEF stopped
    <2>4. Changes(stopped, moved, {"playing", "started", "onload", "iframe"})
      BY <2>2, <2>3, ContentChanges DEF Changes
    <2> QED
      BY <2>1, <2>3, <2>4 DEF Changes
  <1> HIDE DEF moved
  <1>15. Changes(moved, shown, {"enabled"}) /\ IsDeck(shown)
    BY <1>14, ControlsChanges DEF Changes
  <1> HIDE DEF shown
  <1>16. Changes(shown, behind, {"bgCls", "bgPlaying", "prevBg"}) /\ IsDeck(behind)
    BY <1>15, BackgroundChanges DEF Changes
  <1> HIDE DEF behind
  <1>17. Changes(behind, written, {"hash", "hashEvent"}) /\ IsDeck(written)
    BY <1>16, URLChanges DEF Changes
  <1> HIDE DEF written
  <1>18. Changes(written, e, {"timer", "autoSlide", "player"})
    BY <1>4, <1>17, CueChanges
  <1> DEFINE rest == {"cls", "resetStacks", "playing", "started", "onload", "iframe", "enabled", "bgCls",
                      "bgPlaying", "prevBg", "hash", "hashEvent", "timer", "autoSlide", "player"}
  <1>19. Changes(told, e, rest)
    BY <1>14, <1>15, <1>16, <1>17, <1>18 DEF Changes
  <1>20. rest \cap TellFields = {} /\ rest \cap {"paused", "overview"} = {}
    BY DEF TellFields
  <1> HIDE DEF rest
  <1>21. Follows(types, all, told, e)
    BY <1>13, <1>19, <1>20, TellFrame
  <1>22. e.cur = entered.cur /\ e.visible = entered.visible
    <2>1. Changes(entered, e, rest \cup {"events"})
      BY <1>13, <1>19 DEF Changes
    <2> QED
      BY <2>1 DEF Changes, Fields, rest
  <1> QED
    BY <1>10, <1>13, <1>21, <1>22, FollowsTrans DEF Follows

-----------------------------------------------------------------------------
(* Handlers *)

\* The types that are listened to include those of the switches too, if their
\* values are told.
Watching(types, all) ==
  /\ Followers(types)
  /\ all => {"overviewshown", "overviewhidden", "paused", "resumed"} \subseteq types

LEMMA SteadyTellable == ASSUME NEW d, Steady(d) PROVE Tellable(d)
  BY CoreTellable DEF Steady

LEMMA CueTells ==
  ASSUME NEW types, NEW all \in BOOLEAN, NEW d, Steady(d), Faithful(d)
  PROVE  Follows(types, all, d, CueAutoSlide(d))
  <1>1. Changes(d, CueAutoSlide(d), {"timer", "autoSlide", "player"})
    BY SteadyShape, CueChanges
  <1>2. /\ {"timer", "autoSlide", "player"} \cap TellFields = {}
        /\ {"timer", "autoSlide", "player"} \cap {"paused", "overview"} = {}
    BY DEF TellFields
  <1> QED
    BY <1>1, <1>2, TellFrame

LEMMA MoveTells ==
  ASSUME NEW types, Followers(types), NEW all \in BOOLEAN, NEW d, Steady(d), Faithful(d),
         NEW h \in Int, NEW v \in Int
  PROVE  Follows(types, all, d, Slide(d, h, v))
  <1>1. Core(d) /\ Sorted(d) /\ d.cur # None
    BY DEF Steady
  <1>2. IndexTyped(NoIndex)
    BY DEF IndexTyped, NoIndex
  <1> QED
    BY <1>1, <1>2, SlideTells DEF Slide

LEMMA StepTells ==
  ASSUME NEW types, Followers(types), NEW all \in BOOLEAN, NEW d, Steady(d), Faithful(d), NEW offset \in Int
  PROVE  Follows(types, all, d, NavigateFragment(d, NoIndex, offset))
  <1>1. Tellable(d) /\ Sorted(d) /\ d.cur \in Leaves
    BY SteadyTellable, SteadyShape
  <1>2. IndexTyped(NoIndex)
    BY DEF IndexTyped, NoIndex
  <1> QED
    BY <1>1, <1>2, NavigateTells

LEMMA GoTells ==
  ASSUME NEW types, Followers(types), NEW all \in BOOLEAN, NEW d, Steady(d), Faithful(d),
         NEW way, way.h \in Int, way.v \in Int, way.fragment \in Int
  PROVE  Follows(types, all, d, Go(d, way))
  <1> DEFINE d1 == IF d.overview /\ ~way.inOverview THEN d ELSE NavigateFragment(d, NoIndex, way.fragment)
  <1>1. Kept(d, d1) /\ Follows(types, all, d, d1)
    BY FragmentKept, KeptSelf, StepTells, FollowsSelf
  <1>2. Go(d, way) = Follow(d, d1, way)
    BY DEF Go
  <1> HIDE DEF d1
  <1>3. Follows(types, all, d1, Slide(d1, way.h, way.v))
    BY <1>1, MoveTells DEF Kept, Follows
  <1>4. Follow(d, d1, way) \in {d1, Slide(d1, way.h, way.v)}
    BY DEF Follow
  <1> QED
    BY <1>1, <1>2, <1>3, <1>4, FollowsTrans

LEMMA NavigateFollows ==
  ASSUME NEW types, Followers(types), NEW all \in BOOLEAN, NEW d, Steady(d), Faithful(d), NEW name \in Directions
  PROVE  Follows(types, all, d, Navigate(d, name))
  <1> DEFINE way == CASE name = "left" -> NavigateLeft(d)
                      [] name = "right" -> NavigateRight(d)
                      [] name = "up" -> NavigateUp(d)
                      [] name = "down" -> NavigateDown(d)
                      [] name = "prev" -> NavigatePrev(d)
                      [] name = "next" -> NavigateNext(d)
             moved == Go(d, way)
  <1>1. way \in {NavigateLeft(d), NavigateRight(d), NavigateUp(d), NavigateDown(d), NavigatePrev(d),
                 NavigateNext(d)}
    BY DEF Directions
  <1>2. Navigate(d, name) = IF name = "next" THEN CueAutoSlide(moved) ELSE moved
    BY DEF Navigate
  <1> HIDE DEF way
  <1>3. Kept(d, moved) /\ Follows(types, all, d, moved)
    BY <1>1, WayShape, GoKept, GoTells
  <1> HIDE DEF moved
  <1>4. Follows(types, all, moved, CueAutoSlide(moved))
    BY <1>3, CueTells DEF Kept, Follows
  <1> QED
    BY <1>2, <1>3, <1>4, FollowsTrans

LEMMA EndTells ==
  ASSUME NEW types, Followers(types), NEW all \in BOOLEAN, NEW d, Steady(d), Faithful(d)
  PROVE  Follows(types, all, d, SlideEnd(d))
  <1> DEFINE n == Cardinality(HorizontalSlides)
             h == IF d.config.loop THEN MaxValueMod(n) ELSE n
             v == IF d.overview THEN Undef ELSE 0
  <1>1. n \in Nat \ {0}
    BY Shape
  <1>2. SlideEnd(d) = Slide(d, h, v)
    BY DEF SlideEnd
  <1> HIDE DEF n
  <1>3. h \in Int /\ v \in Int
    BY <1>1, EndShape DEF Undef
  <1> HIDE DEF h, v
  <1> QED
    BY <1>2, <1>3, MoveTells

\* A switch is told with the event that goes with it.
LEMMA SwitchTells ==
  ASSUME NEW types, NEW all \in BOOLEAN, Watching(types, all), NEW d, NEW c, Steady(c), Follows(types, FALSE, d, c),
         NEW type \in {"overviewshown", "overviewhidden", "paused", "resumed"}
  PROVE  Follows(types, all, d, DispatchEvent(c, type))
  <1>1. Tellable(c) /\ Faithful(c) /\ type \in Announcements
    BY SteadyTellable DEF Follows, Announcements
  <1>2. CASE all
    <2>1. type \in types
      BY <1>2 DEF Watching
    <2> QED
      BY <1>1, <2>1, DispatchTells, AnnouncedFollows
  <1>3. CASE ~all
    <2>1. all = FALSE
      BY <1>3
    <2> QED
      BY <1>1, <2>1, DispatchTells, FollowsTrans
  <1> QED
    BY <1>2, <1>3

LEMMA ActivateTells ==
  ASSUME NEW types, NEW all \in BOOLEAN, Watching(types, all), NEW d, Steady(d), Faithful(d)
  PROVE  Follows(types, all, d, ActivateOverview(d))
  <1>1. CASE ~d.config.overview \/ d.overview
    BY <1>1, FollowsSelf DEF ActivateOverview
  <1>2. CASE ~(~d.config.overview \/ d.overview)
    <2> DEFINE a == [CancelAutoSlide(d) EXCEPT !.overview = TRUE, !.overviewClicks = Leaves]
               b == UpdateSlidesVisibility(a)
               rest == {"timer", "overview", "overviewClicks", "shown", "bgVideo"}
    <2>1. ActivateOverview(d) = DispatchEvent(b, "overviewshown")
      BY <1>2 DEF ActivateOverview
    <2>2. IsDeck(d) /\ SwitchesTyped(d) /\ ModesTyped(d) /\ CueTyped(d)
      BY SteadyShape
    <2>3. /\ Changes(d, a, {"timer", "overview", "overviewClicks"}) /\ a.timer = FALSE
          /\ a.overview = TRUE /\ a.overviewClicks = Leaves
      BY <2>2 DEF CancelAutoSlide, Changes, IsDeck, Fields
    <2> HIDE DEF a
    <2>4. /\ a.paused = d.paused /\ a.autoSlidePaused = d.autoSlidePaused /\ a.overlay = d.overlay
          /\ a.touch = d.touch /\ a.autoSlide = d.autoSlide /\ a.player = d.player
          /\ a.resetStacks = d.resetStacks
      BY <2>3 DEF Changes, Fields
    <2>5. ModesTyped(a) /\ CueTyped(a) /\ a.resetStacks \in BOOLEAN
      BY <2>2, <2>3, <2>4 DEF ModesTyped, CueTyped, SwitchesTyped
    <2>6. Steady(a)
      BY <2>3, <2>5, SteadyFrame, ChangesMore DEF Switches
    <2>7. Kept(a, b)
      BY <2>6, VisibilityKept
    <2>8. Changes(a, b, {"shown", "bgVideo"})
      BY <2>6, VisibilityChanges, SteadyShape
    <2> HIDE DEF b
    <2>9. Changes(d, b, rest) /\ rest \cap TellFields = {}
      BY <2>3, <2>8 DEF Changes, TellFields
    <2>10. Follows(types, FALSE, d, b)
      BY <2>9, TellFrame
    <2> QED
      BY <2>1, <2>7, <2>10, SwitchTells DEF Kept
  <1> QED
    BY <1>1, <1>2

LEMMA DeactivateTells ==
  ASSUME NEW types, NEW all \in BOOLEAN, Watching(types, all), NEW d, Steady(d), Faithful(d)
  PROVE  Follows(types, all, d, DeactivateOverview(d))
  <1>1. CASE ~d.config.overview
    BY <1>1, FollowsSelf DEF DeactivateOverview
  <1>2. CASE d.config.overview
    <2> DEFINE a == [d EXCEPT !.overview = FALSE, !.overviewClicks = {}]
               b == Slide(a, d.indexh, d.indexv)
               c == CueAutoSlide(b)
    <2>1. DeactivateOverview(d) = DispatchEvent(c, "overviewhidden")
      BY <1>2 DEF DeactivateOverview
    <2>2. IsDeck(d) /\ SwitchesTyped(d) /\ ModesTyped(d) /\ CueTyped(d) /\ d.indexh \in Int /\ d.indexv \in Int
      BY SteadyShape
    <2>3. /\ Changes(d, a, {"overview", "overviewClicks"}) /\ a.overview = FALSE /\ a.overviewClicks = {}
      BY <2>2 DEF Changes, IsDeck, Fields
    <2> HIDE DEF a
    <2>4. /\ a.paused = d.paused /\ a.autoSlidePaused = d.autoSlidePaused /\ a.overlay = d.overlay
          /\ a.touch = d.touch /\ a.autoSlide = d.autoSlide /\ a.player = d.player
          /\ a.resetStacks = d.resetStacks /\ a.timer = d.timer
      BY <2>3 DEF Changes, Fields
    <2>5. ModesTyped(a) /\ CueTyped(a) /\ a.resetStacks \in BOOLEAN
      BY <2>2, <2>3, <2>4 DEF ModesTyped, CueTyped, SwitchesTyped
    <2>6. Steady(a)
      BY <2>3, <2>5, SteadyFrame, ChangesMore DEF Switches
    <2>7. Follows(types, FALSE, d, a)
      BY <2>3, TellFrame DEF TellFields
    <2>8. Kept(a, b) /\ Follows(types, FALSE, a, b)
      BY <2>2, <2>6, <2>7, SlideKept, MoveTells DEF Watching, Follows
    <2> HIDE DEF b
    <2>9. Steady(c) /\ Follows(types, FALSE, b, c)
      BY <2>8, CueKept, CueTells DEF Kept, Follows, Good
    <2> HIDE DEF c
    <2>10. Follows(types, FALSE, d, c)
      BY <2>7, <2>8, <2>9, FollowsTrans
    <2> QED
      BY <2>1, <2>9, <2>10, SwitchTells
  <1> QED
    BY <1>1, <1>2

LEMMA OverviewTells ==
  ASSUME NEW types, NEW all \in BOOLEAN, Watching(types, all), NEW d, Steady(d), Faithful(d)
  PROVE  Follows(types, all, d, ToggleOverview(d))
  BY ActivateTells, DeactivateTells DEF ToggleOverview

LEMMA PauseTells ==
  ASSUME NEW types, NEW all \in BOOLEAN, Watching(types, all), NEW d, Steady(d), Faithful(d)
  PROVE  Follows(types, all, d, TogglePause(d))
  <1>1. IsDeck(d) /\ SwitchesTyped(d) /\ ModesTyped(d) /\ CueTyped(d)
    BY SteadyShape
  <1>2. CASE ~d.paused /\ ~d.config.pause
    BY <1>2, FollowsSelf DEF TogglePause, Pause
  <1>3. CASE ~d.paused /\ d.config.pause
    <2> DEFINE a == [CancelAutoSlide(d) EXCEPT !.paused = TRUE]
    <2>1. TogglePause(d) = DispatchEvent(a, "paused")
      BY <1>3 DEF TogglePause, Pause, DispatchIf
    <2>2. Changes(d, a, {"timer", "paused"}) /\ a.timer = FALSE /\ a.paused = TRUE
      BY <1>1 DEF CancelAutoSlide, Changes, IsDeck, Fields
    <2> HIDE DEF a
    <2>3. /\ a.overview = d.overview /\ a.autoSlidePaused = d.autoSlidePaused /\ a.overlay = d.overlay
          /\ a.touch = d.touch /\ a.autoSlide = d.autoSlide /\ a.player = d.player
          /\ a.resetStacks = d.resetStacks /\ a.overviewClicks = d.overviewClicks
      BY <2>2 DEF Changes, Fields
    <2>4. ModesTyped(a) /\ CueTyped(a) /\ a.resetStacks \in BOOLEAN
      BY <1>1, <2>2, <2>3 DEF ModesTyped, CueTyped, SwitchesTyped
    <2>5. Steady(a)
      BY <2>2, <2>4, SteadyFrame, ChangesMore DEF Switches
    <2>6. Follows(types, FALSE, d, a)
      BY <2>2, TellFrame DEF TellFields
    <2> QED
      BY <2>1, <2>5, <2>6, SwitchTells
  <1>4. CASE d.paused
    <2> DEFINE a == [d EXCEPT !.paused = FALSE]
               b == CueAutoSlide(a)
    <2>1. TogglePause(d) = DispatchEvent(b, "resumed")
      BY <1>4 DEF TogglePause, Resume, DispatchIf
    <2>2. Changes(d, a, {"paused"}) /\ a.paused = FALSE
      BY <1>1 DEF Changes, IsDeck, Fields
    <2> HIDE DEF a
    <2>3. /\ a.overview = d.overview /\ a.autoSlidePaused = d.autoSlidePaused /\ a.overlay = d.overlay
          /\ a.touch = d.touch /\ a.autoSlide = d.autoSlide /\ a.player = d.player /\ a.timer = d.timer
          /\ a.resetStacks = d.resetStacks /\ a.overviewClicks = d.overviewClicks
      BY <2>2 DEF Changes, Fields
    <2>4. ModesTyped(a) /\ CueTyped(a) /\ a.resetStacks \in BOOLEAN
      BY <1>1, <2>2, <2>3 DEF ModesTyped, CueTyped, SwitchesTyped
    <2>5. Steady(a)
      BY <2>2, <2>4, SteadyFrame, ChangesMore DEF Switches
    <2>6. Follows(types, FALSE, d, a)
      BY <2>2, TellFrame DEF TellFields
    <2>7. Steady(b) /\ Follows(types, FALSE, a, b)
      BY <2>5, <2>6, CueKept, CueTells DEF Kept, Follows
    <2> HIDE DEF b
    <2>8. Follows(types, FALSE, d, b)
      BY <2>6, <2>7, FollowsTrans
    <2> QED
      BY <2>1, <2>7, <2>8, SwitchTells
  <1> QED
    BY <1>2, <1>3, <1>4

LEMMA AutoSlideTells ==
  ASSUME NEW types, NEW all \in BOOLEAN, NEW d, Steady(d), Faithful(d)
  PROVE  /\ Follows(types, all, d, PauseAutoSlide(d)) /\ Follows(types, all, d, ResumeAutoSlide(d))
         /\ \A resume : Follows(types, all, d, ToggleAutoSlide(d, resume))
         /\ Follows(types, all, d, OnUserInput(d))
  <1>1. /\ IsDeck(d) /\ SwitchesTyped(d) /\ ModesTyped(d) /\ CueTyped(d)
        /\ {"autoslidepaused", "autoslideresumed"} \subseteq Announcements
    BY SteadyShape DEF Announcements
  <1>2. ASSUME NEW a, NEW paused \in BOOLEAN, NEW type \in {"autoslidepaused", "autoslideresumed"},
               NEW b, b = [d EXCEPT !.autoSlidePaused = paused], a = DispatchEvent(b, type)
        PROVE  Steady(a) /\ Follows(types, all, d, a)
    <2>1. Changes(d, b, {"autoSlidePaused"}) /\ b.autoSlidePaused = paused
      BY <1>1, <1>2 DEF Changes, IsDeck, Fields
    <2>2. /\ b.overview = d.overview /\ b.overlay = d.overlay /\ b.timer = d.timer
          /\ b.touch = d.touch /\ b.autoSlide = d.autoSlide /\ b.player = d.player
          /\ b.resetStacks = d.resetStacks /\ b.overviewClicks = d.overviewClicks /\ b.paused = d.paused
      BY <2>1 DEF Changes, Fields
    <2>3. ModesTyped(b) /\ CueTyped(b) /\ b.resetStacks \in BOOLEAN
      BY <1>1, <2>1, <2>2 DEF ModesTyped, CueTyped, SwitchesTyped
    <2>4. Steady(b)
      BY <2>1, <2>3, SteadyFrame, ChangesMore DEF Switches
    <2>5. Follows(types, all, d, b)
      BY <2>1, TellFrame DEF TellFields
    <2>6. Follows(types, all, b, a) /\ Kept(b, a)
      BY <1>1, <1>2, <2>4, <2>5, DispatchTells, EventKept, SteadyTellable DEF Follows
    <2> QED
      BY <2>5, <2>6, FollowsTrans DEF Kept
  <1>3. Follows(types, all, d, PauseAutoSlide(d))
    <2>1. CASE ~(d.autoSlide = "on" /\ ~d.autoSlidePaused)
      BY <2>1, FollowsSelf DEF PauseAutoSlide
    <2>2. CASE d.autoSlide = "on" /\ ~d.autoSlidePaused
      <3> DEFINE a == DispatchEvent([d EXCEPT !.autoSlidePaused = TRUE], "autoslidepaused")
                 b == SetPlaying([a EXCEPT !.timer = FALSE], FALSE)
      <3>1. PauseAutoSlide(d) = b
        BY <2>2 DEF PauseAutoSlide
      <3>2. Steady(a) /\ Follows(types, all, d, a)
        BY <1>2
      <3> HIDE DEF a
      <3>3. Changes(a, b, {"timer", "player"})
        <4>1. IsDeck(a)
          BY <3>2, SteadyShape
        <4> QED
          BY <4>1 DEF SetPlaying, Changes, IsDeck, Fields
      <3> HIDE DEF b
      <3>4. Follows(types, all, a, b)
        <4>1. {"timer", "player"} \cap TellFields = {} /\ {"timer", "player"} \cap {"paused", "overview"} = {}
          BY DEF TellFields
        <4> QED
          BY <3>2, <3>3, <4>1, TellFrame DEF Follows
      <3> QED
        BY <3>1, <3>2, <3>4, FollowsTrans
    <2> QED
      BY <2>1, <2>2
  <1>4. Follows(types, all, d, ResumeAutoSlide(d))
    <2>1. CASE ~(d.autoSlide = "on" /\ d.autoSlidePaused)
      BY <2>1, FollowsSelf DEF ResumeAutoSlide
    <2>2. CASE d.autoSlide = "on" /\ d.autoSlidePaused
      <3> DEFINE a == DispatchEvent([d EXCEPT !.autoSlidePaused = FALSE], "autoslideresumed")
      <3>1. ResumeAutoSlide(d) = CueAutoSlide(a)
        BY <2>2 DEF ResumeAutoSlide
      <3>2. Steady(a) /\ Follows(types, all, d, a)
        BY <1>2
      <3> HIDE DEF a
      <3> QED
        BY <3>1, <3>2, CueTells, FollowsTrans DEF Follows
    <2> QED
      BY <2>1, <2>2
  <1>5. \A resume : Follows(types, all, d, ToggleAutoSlide(d, resume))
    BY <1>3, <1>4 DEF ToggleAutoSlide
  <1>6. Follows(types, all, d, OnUserInput(d))
    BY <1>3, FollowsSelf DEF OnUserInput
  <1> QED
    BY <1>3, <1>4, <1>5, <1>6

LEMMA EscapeTells ==
  ASSUME NEW types, NEW all \in BOOLEAN, Watching(types, all), NEW d, Steady(d), Faithful(d)
  PROVE  Follows(types, all, d, OnEscape(d))
  <1>1. Changes(d, CloseOverlay(d), {"overlay"})
    BY SteadyShape DEF CloseOverlay, Changes, IsDeck, Fields
  <1>2. Follows(types, all, d, CloseOverlay(d))
    BY <1>1, TellFrame DEF TellFields
  <1> QED
    BY <1>2, OverviewTells DEF OnEscape

LEMMA KeyTells ==
  ASSUME NEW types, NEW all \in BOOLEAN, Watching(types, all), NEW d, Steady(d), Faithful(d), NEW key, NEW wasPaused
  PROVE  Follows(types, all, d, KeyAction(d, key, wasPaused))
  <1> DEFINE name == Binding(d, key)
  <1>1. name \in Directions => Follows(types, all, d, Navigate(d, name))
    <2> HIDE DEF name
    <2> QED
      BY NavigateFollows DEF Watching
  <1>2. Follows(types, all, d, Slide(d, 0, Undef)) /\ Follows(types, all, d, SlideEnd(d))
    <2>1. 0 \in Int /\ Undef \in Int
      BY DEF Undef
    <2> QED
      BY <2>1, MoveTells, EndTells DEF Watching
  <1>3. /\ Follows(types, all, d, DeactivateOverview(d)) /\ Follows(types, all, d, TogglePause(d))
        /\ Follows(types, all, d, ToggleAutoSlide(d, wasPaused))
        /\ Follows(types, all, d, OnEscape(d)) /\ Follows(types, all, d, d)
    BY DeactivateTells, PauseTells, AutoSlideTells, EscapeTells, FollowsSelf
  <1>4. KeyAction(d, key, wasPaused) =
          CASE name \in Directions -> Navigate(d, name)
            [] name = "home" -> Slide(d, 0, Undef)
            [] name = "end" -> SlideEnd(d)
            [] name = "deactivate" -> DeactivateOverview(d)
            [] name = "pause" -> TogglePause(d)
            [] name = "a" /\ d.config.autoSlideStoppable -> ToggleAutoSlide(d, wasPaused)
            [] name = "escape" -> OnEscape(d)
            [] OTHER -> d
    BY DEF KeyAction
  <1> HIDE DEF name
  <1>5. name \in Directions => name \notin {"home", "end", "deactivate", "pause", "a", "escape"}
    BY DEF Directions
  <1> QED
    BY <1>1, <1>2, <1>3, <1>4, <1>5

\* Whatever key is pressed, the last event that is listened to tells the deck.
LEMMA KeyDownTells ==
  ASSUME NEW types, NEW all \in BOOLEAN, Watching(types, all), NEW d, Good(d), Faithful(d), NEW key,
         NEW e, e = OnDocumentKeyDown(d, key)
  PROVE  Good(e) /\ e.config = d.config /\ Follows(types, all, d, e)
  <1> DEFINE d1 == OnUserInput(d)
             done == KeyAction(d1, key, d.autoSlidePaused)
  <1>1. Steady(d)
    BY DEF Good
  <1>2. Kept(d, d1) /\ Follows(types, all, d, d1)
    BY <1>1, AutoSlideKept, AutoSlideTells
  <1>3. e \in {d1, CueAutoSlide(done)}
    BY DEF OnDocumentKeyDown
  <1> HIDE DEF d1
  <1>4. Kept(d1, done) /\ Follows(types, all, d1, done)
    BY <1>2, KeyKept, KeyTells DEF Kept, Follows
  <1> HIDE DEF done
  <1>5. Follows(types, all, done, CueAutoSlide(done))
    BY <1>4, CueTells DEF Kept, Follows
  <1>6. Follows(types, all, d, e)
    BY <1>2, <1>3, <1>4, <1>5, FollowsTrans
  <1>7. Kept(d, e)
    BY <1>1, KeyDownKept
  <1> QED
    BY <1>6, <1>7 DEF Kept, Good

\* A state that is taken over is told, and leaves the deck at the place it says.
LEMMA SetTells ==
  ASSUME NEW types, NEW all \in BOOLEAN, Watching(types, all), NEW d, Good(d), Faithful(d), NEW state \in State,
         NEW e, e = SetState(d, state)
  PROVE  Good(e) /\ e.config = d.config /\ Follows(types, all, d, e)
  <1> DEFINE a == SlideTo(d, state.indexh, state.indexv, state.indexf)
             b == IF state.paused = a.paused THEN a ELSE TogglePause(a)
             c == IF state.overview = b.overview THEN b ELSE ToggleOverview(b)
  <1>1. Core(d) /\ Sorted(d) /\ d.cur # None /\ Steady(d)
    BY DEF Good, Steady
  <1>2. state.indexh \in Int /\ state.indexv \in Int /\ IndexTyped(state.indexf)
    BY DEF State, IndexTyped
  <1>3. e = c
    BY DEF SetState
  <1>4. Good(a) /\ a.config = d.config /\ Follows(types, all, d, a)
    BY <1>1, <1>2, SlideEffect, SlideTells DEF Watching
  <1> HIDE DEF a
  <1>5. Kept(a, b) /\ Follows(types, all, a, b)
    <2>1. Steady(a) /\ Faithful(a)
      BY <1>4 DEF Good, Follows
    <2> QED
      BY <2>1, PauseKept, PauseTells, KeptSelf, FollowsSelf
  <1> HIDE DEF b
  <1>6. Kept(b, c) /\ Follows(types, all, b, c)
    <2>1. Steady(b) /\ Faithful(b)
      BY <1>5 DEF Kept, Follows
    <2> QED
      BY <2>1, OverviewKept, OverviewTells, KeptSelf, FollowsSelf
  <1> HIDE DEF c
  <1>7. Kept(a, c)
    BY <1>5, <1>6, KeptTrans
  <1> QED
    BY <1>3, <1>4, <1>5, <1>6, <1>7, FollowsTrans DEF Kept, Good

-----------------------------------------------------------------------------
(* The start of a deck *)

LEMMA ReadTells ==
  ASSUME NEW d, Core(d), Sorted(d), Faithful(d), NEW e, e = ReadURL(d)
  PROVE  Faithful(e) /\ e.overview = d.overview /\ e.paused = d.paused
  <1>1. ASSUME NEW h \in Int, NEW v \in Int, e = Slide(d, h, v)
        PROVE  Faithful(e) /\ e.overview = d.overview /\ e.paused = d.paused
    <2>1. IndexTyped(NoIndex) /\ e = SlideTo(d, h, v, NoIndex)
      BY <1>1 DEF IndexTyped, NoIndex, Slide
    <2>2. Followers({"fragmentshown", "fragmenthidden", "slidechanged"}) /\ TRUE \in BOOLEAN
      BY DEF Followers
    <2>3. Faithful(e)
      BY <2>1, <2>2, SlideTells
    <2>4. Landed(d, e, h, v)
      BY <2>1, SlideEffect
    <2> QED
      BY <2>3, <2>4 DEF Landed
  <1>2. (\E h, v \in Int : e = Slide(d, h, v)) \/ AlreadyThere(d, e)
    BY ReadPlace
  <1> QED
    BY <1>1, <1>2 DEF AlreadyThere

\* The fragments of a deck that has been loaded are numbered when it is configured.
LEMMA SyncNumbers ==
  ASSUME NEW d, IsDeck(d), d.fidx = Given, NEW e, e = Sync(d)
  PROVE  /\ e.fidx = Num /\ e.visible = d.visible /\ e.curfrag = d.curfrag /\ e.config = d.config
         /\ e.events = d.events /\ e.overview = d.overview /\ e.paused = d.paused
  <1> DEFINE listening == [AddEventListeners(RemoveEventListeners(d)) EXCEPT !.autoSlide = d.config.autoSlide]
             d1 == CueAutoSlide(listening)
             bare == CreateBackgrounds(d1)
             written == WriteURL(bare)
             sorted == SortAllFragments(written)
             d2 == UpdateControls(sorted)
             behind == UpdateBackground(d2, TRUE)
             shown == UpdateSlidesVisibility(behind)
  <1>1. e = StartEmbeddedContent(shown, shown.cur)
    BY DEF Sync
  <1>2. Changes(d, listening, {"listeners", "autoSlide"}) /\ IsDeck(listening)
    BY DEF AddEventListeners, RemoveEventListeners, Changes, IsDeck, Fields
  <1> HIDE DEF listening
  <1>3. Changes(listening, d1, {"timer", "autoSlide", "player"}) /\ IsDeck(d1)
    BY <1>2, CueChanges DEF Changes
  <1> HIDE DEF d1
  <1>4. Changes(d1, bare, {"bgCls", "bgVideo", "bgPlaying", "prevBg"}) /\ IsDeck(bare)
    BY <1>3, BackgroundChanges DEF Changes
  <1> HIDE DEF bare
  <1>5. Changes(bare, written, {"hash", "hashEvent"}) /\ IsDeck(written)
    BY <1>4, URLChanges DEF Changes
  <1> HIDE DEF written
  <1>6. /\ written.fidx = Given /\ written.visible = d.visible /\ written.curfrag = d.curfrag
        /\ written.config = d.config /\ written.events = d.events /\ written.overview = d.overview
        /\ written.paused = d.paused
    BY <1>2, <1>3, <1>4, <1>5 DEF Changes, Fields
  <1>7. Changes(written, sorted, {"fidx"}) /\ IsDeck(sorted) /\ sorted.fidx = Num
    BY <1>5, <1>6, SortChanges, NumKept DEF Changes
  <1> HIDE DEF sorted
  <1>8. Changes(sorted, d2, {"enabled"}) /\ IsDeck(d2)
    BY <1>7, ControlsChanges DEF Changes
  <1> HIDE DEF d2
  <1>9. Changes(d2, behind, {"bgCls", "bgPlaying", "prevBg"}) /\ IsDeck(behind)
    BY <1>8, BackgroundChanges DEF Changes
  <1> HIDE DEF behind
  <1>10. Changes(behind, shown, {"shown", "bgVideo"}) /\ IsDeck(shown)
    BY <1>9, VisibilityChanges DEF Changes
  <1> HIDE DEF shown
  <1>11. Changes(shown, e, {"playing", "started", "onload", "iframe"})
    BY <1>1, <1>10, ContentChanges
  <1> QED
    BY <1>6, <1>7, <1>8, <1>9, <1>10, <1>11 DEF Changes, Fields

LEMMA ConfigureNumbers ==
  ASSUME NEW d, IsDeck(d), d.fidx = Given, d.visible = {}, d.curfrag = {}, d.events = <<>>, d.paused = FALSE,
         NEW config, NEW e, e = Configure(d, config)
  PROVE  Faithful(e) /\ e.overview = d.overview /\ ~e.paused
  <1> DEFINE a == [d EXCEPT !.config = config]
             b == IF config.pause THEN a ELSE Resume(a)
             c == IF Cardinality(Sections) > 1 /\ config.autoSlide = "on" /\ config.autoSlideStoppable
                  THEN [b EXCEPT !.player = "stopped", !.autoSlidePaused = FALSE]
                  ELSE [b EXCEPT !.player = "none"]
             f == IF config.fragments THEN c ELSE [c EXCEPT !.visible = Fragments, !.curfrag = {}]
  <1>1. e = Sync(f)
    BY DEF Configure
  <1>2. Changes(d, a, {"config"}) /\ a.config = config /\ IsDeck(a)
    BY DEF Changes, IsDeck, Fields
  <1> HIDE DEF a
  <1>3. a.paused = FALSE
    BY <1>2 DEF Changes, Fields
  <1>4. Changes(a, b, {"paused", "timer", "autoSlide", "player"}) /\ IsDeck(b) /\ ~b.paused
    <2> DEFINE g == [a EXCEPT !.paused = FALSE]
    <2>1. Changes(a, g, {"paused"}) /\ IsDeck(g) /\ ~g.paused
      BY <1>2 DEF Changes, IsDeck, Fields
    <2>2. b = IF config.pause THEN a ELSE CueAutoSlide(g)
      BY <1>3 DEF Resume, DispatchIf
    <2> HIDE DEF g, b
    <2>3. Changes(g, CueAutoSlide(g), {"timer", "autoSlide", "player"})
      BY <2>1, CueChanges
    <2> QED
      BY <1>2, <1>3, <2>1, <2>2, <2>3 DEF Changes, Fields
  <1> HIDE DEF b
  <1>5. Changes(b, c, {"player", "autoSlidePaused"}) /\ IsDeck(c)
    BY <1>4 DEF Changes, IsDeck, Fields
  <1> HIDE DEF c
  <1>6. /\ c.fidx = Given /\ c.visible = {} /\ c.curfrag = {} /\ c.events = <<>> /\ c.config = config
        /\ c.overview = d.overview /\ ~c.paused
    BY <1>2, <1>4, <1>5 DEF Changes, Fields
  <1>7. /\ IsDeck(f) /\ f.fidx = Given /\ f.curfrag = {} /\ f.events = <<>> /\ f.config = config
        /\ f.visible = (IF config.fragments THEN {} ELSE Fragments) /\ f.overview = d.overview
        /\ ~f.paused
    BY <1>5, <1>6 DEF IsDeck, Fields
  <1> HIDE DEF f
  <1>8. /\ e.fidx = Num /\ e.curfrag = {} /\ e.events = <<>> /\ e.config = config
        /\ e.visible = (IF config.fragments THEN {} ELSE Fragments) /\ e.overview = d.overview
        /\ ~e.paused
    BY <1>1, <1>7, SyncNumbers
  <1> QED
    BY <1>8 DEF Faithful, Numbering, CurrentShown

LEMMA StartTells ==
  ASSUME NEW config \in ConfigType, NEW url, url.h \in Int \ {Undef}, url.v \in Int \ {Undef},
         NEW e, e = Start(NewDeck(config, url))
  PROVE  Good(e) /\ e.config = config /\ Faithful(e) /\ ~e.overview /\ ~e.paused
  <1> DEFINE n == NewDeck(config, url)
             a == ResetVerticalSlides(n)
             b == Configure(a, config)
             c == ReadURL(b)
  <1>1. Core(a) /\ Sortable(a) /\ a.cur = None /\ a.config = config
    <2> DEFINE cls == [s \in Sections |-> IF IsVerticalSlide(s) /\ s[2] > 0 THEN "future" ELSE n.cls[s]]
    <2>1. NoneEntered(cls)
      <3>1. \A s \in Sections : n.cls[s] = ""
        BY DEF NewDeck
      <3> HIDE DEF n
      <3> QED
        BY <3>1 DEF NoneEntered
    <2>2. a = Unopened(config, url, cls)
      BY DEF ResetVerticalSlides, Unopened
    <2> HIDE DEF cls, a
    <2> QED
      BY <2>1, <2>2, NewEffect
  <1>2. e = UpdateBackground(c, TRUE)
    <2>1. n.config = config
      BY DEF NewDeck
    <2> QED
      BY <2>1 DEF Start
  <1>3. IsDeck(a) /\ a.fidx = Given /\ a.visible = {} /\ a.curfrag = {} /\ a.events = <<>> /\ a.paused = FALSE
        /\ a.overview = FALSE
    <2>1. IsDeck(n) /\ n.fidx = Given /\ n.visible = {} /\ n.curfrag = {} /\ n.events = <<>> /\ n.paused = FALSE
          /\ n.overview = FALSE
      BY NewDeckIsDeck DEF NewDeck, Given
    <2> HIDE DEF n
    <2> QED
      BY <2>1 DEF ResetVerticalSlides, IsDeck, Fields
  <1> HIDE DEF a
  <1>4. Settled(b) /\ Faithful(b) /\ b.overview = FALSE /\ ~b.paused
    <2>1. Settled(b)
      BY <1>1, ConfigureEffect
    <2>2. Faithful(b) /\ b.overview = a.overview /\ ~b.paused
      BY <1>3, ConfigureNumbers
    <2> QED
      BY <1>3, <2>1, <2>2
  <1> HIDE DEF b
  <1>5. Faithful(c) /\ IsDeck(c) /\ c.overview = FALSE /\ ~c.paused
    <2>1. Faithful(c) /\ c.overview = FALSE /\ ~c.paused
      BY <1>4, ReadTells DEF Settled
    <2>2. IsDeck(b) /\ Core(b) /\ Sorted(b)
      BY <1>4 DEF Settled, Core
    <2>3. Good(c) \/ c = b
      BY <2>2, ReadEffect DEF AlreadyThere
    <2> QED
      BY <2>1, <2>2, <2>3 DEF Good, Steady, Core
  <1> HIDE DEF c
  <1>6. Changes(c, e, {"bgCls", "bgPlaying", "prevBg"})
    BY <1>2, <1>5, BackgroundChanges
  <1>7. Follows({}, FALSE, c, e)
    BY <1>5, <1>6, TellFrame DEF TellFields
  <1>8. ~e.overview /\ ~e.paused
    BY <1>5, <1>6 DEF Changes, Fields
  <1> QED
    BY <1>7, <1>8, StartEffect DEF Follows

-----------------------------------------------------------------------------
(* The overview and the pause are only where the configuration has them. *)

Allowed(d) == (d.overview => d.config.overview) /\ (d.paused => d.config.pause)
Modest(d, e) == e.config = d.config /\ (Allowed(d) => Allowed(e))

LEMMA ModestTrans ==
  ASSUME NEW d, NEW e, NEW f, Modest(d, e), Modest(e, f)
  PROVE  Modest(d, f)
  BY DEF Modest

LEMMA ModestFrame ==
  ASSUME NEW d, NEW e, NEW A, Changes(d, e, A), A \cap {"overview", "paused", "config"} = {}
  PROVE  Modest(d, e)
  <1>1. e.config = d.config /\ e.overview = d.overview /\ e.paused = d.paused
    BY DEF Changes, Fields
  <1> QED
    BY <1>1 DEF Modest, Allowed

LEMMA MoveModest ==
  ASSUME NEW d, Steady(d)
  PROVE  /\ Modest(d, d) /\ Modest(d, CueAutoSlide(d))
         /\ \A h, v \in Int : Modest(d, Slide(d, h, v))
         /\ \A offset \in Int : Modest(d, NavigateFragment(d, NoIndex, offset))
  <1>1. IsDeck(d) /\ FragmentsTyped(d) /\ Sorted(d) /\ d.cur \in Leaves /\ d.enabled \subseteq Directions /\ Core(d)
    BY SteadyShape DEF Steady
  <1>2. IndexTyped(NoIndex)
    BY DEF IndexTyped, NoIndex
  <1>3. Modest(d, d)
    BY DEF Modest
  <1>4. Modest(d, CueAutoSlide(d))
    BY <1>1, CueChanges, ModestFrame
  <1>5. ASSUME NEW h \in Int, NEW v \in Int PROVE Modest(d, Slide(d, h, v))
    <2>1. Slide(d, h, v).config = d.config /\ Landed(d, Slide(d, h, v), h, v)
      BY <1>1, <1>2, SlideEffect DEF Slide
    <2> QED
      BY <2>1 DEF Modest, Allowed, Landed
  <1>6. ASSUME NEW offset \in Int PROVE Modest(d, NavigateFragment(d, NoIndex, offset))
    <2>1. Changes(d, NavigateFragment(d, NoIndex, offset), {"fidx", "visible", "curfrag", "enabled", "events"})
      BY <1>1, <1>2, NavigateEffect
    <2> QED
      BY <2>1, ModestFrame
  <1> QED
    BY <1>3, <1>4, <1>5, <1>6

LEMMA GoModest ==
  ASSUME NEW d, Steady(d), NEW way, way.h \in Int, way.v \in Int, way.fragment \in Int
  PROVE  Modest(d, Go(d, way))
  <1> DEFINE d1 == IF d.overview /\ ~way.inOverview THEN d ELSE NavigateFragment(d, NoIndex, way.fragment)
  <1>1. Kept(d, d1) /\ Modest(d, d1)
    BY FragmentKept, KeptSelf, MoveModest
  <1>2. Go(d, way) = Follow(d, d1, way)
    BY DEF Go
  <1> HIDE DEF d1
  <1>3. Modest(d1, Slide(d1, way.h, way.v))
    BY <1>1, MoveModest DEF Kept
  <1>4. Follow(d, d1, way) \in {d1, Slide(d1, way.h, way.v)}
    BY DEF Follow
  <1> QED
    BY <1>1, <1>2, <1>3, <1>4, ModestTrans

LEMMA NavigateModest ==
  ASSUME NEW d, Steady(d), NEW name \in Directions
  PROVE  Modest(d, Navigate(d, name))
  <1> DEFINE way == CASE name = "left" -> NavigateLeft(d)
                      [] name = "right" -> NavigateRight(d)
                      [] name = "up" -> NavigateUp(d)
                      [] name = "down" -> NavigateDown(d)
                      [] name = "prev" -> NavigatePrev(d)
                      [] name = "next" -> NavigateNext(d)
             moved == Go(d, way)
  <1>1. way \in {NavigateLeft(d), NavigateRight(d), NavigateUp(d), NavigateDown(d), NavigatePrev(d),
                 NavigateNext(d)}
    BY DEF Directions
  <1>2. Navigate(d, name) = IF name = "next" THEN CueAutoSlide(moved) ELSE moved
    BY DEF Navigate
  <1> HIDE DEF way
  <1>3. Kept(d, moved) /\ Modest(d, moved)
    BY <1>1, WayShape, GoKept, GoModest
  <1> HIDE DEF moved
  <1>4. Modest(moved, CueAutoSlide(moved))
    BY <1>3, MoveModest DEF Kept
  <1> QED
    BY <1>2, <1>3, <1>4, ModestTrans

LEMMA EndModest == ASSUME NEW d, Steady(d) PROVE Modest(d, SlideEnd(d))
  <1> DEFINE n == Cardinality(HorizontalSlides)
             h == IF d.config.loop THEN MaxValueMod(n) ELSE n
             v == IF d.overview THEN Undef ELSE 0
  <1>1. n \in Nat \ {0}
    BY Shape
  <1>2. SlideEnd(d) = Slide(d, h, v)
    BY DEF SlideEnd
  <1> HIDE DEF n
  <1>3. h \in Int /\ v \in Int
    BY <1>1, EndShape DEF Undef
  <1> HIDE DEF h, v
  <1> QED
    BY <1>2, <1>3, MoveModest

\* Taking the overview or the pause on or off leaves the deck at its place.
SamePlace(d, e) == e.indexh = d.indexh /\ e.indexv = d.indexv /\ e.cur = d.cur /\ OwnKept(d, e)
Staying(d, e) == Modest(d, e) /\ SamePlace(d, e)

LEMMA StayingTrans ==
  ASSUME NEW d, NEW e, NEW f, Staying(d, e), Staying(e, f)
  PROVE  Staying(d, f)
  BY ModestTrans DEF Staying, SamePlace, OwnKept, Modest

LEMMA StayingFrame ==
  ASSUME NEW d, NEW e, NEW A, Changes(d, e, A),
         A \cap {"overview", "paused", "config", "indexh", "indexv", "cur", "visible"} = {}
  PROVE  Staying(d, e)
  <1>1. /\ e.config = d.config /\ e.overview = d.overview /\ e.paused = d.paused /\ e.indexh = d.indexh /\ e.indexv = d.indexv
        /\ e.cur = d.cur /\ e.visible = d.visible
    BY DEF Changes, Fields
  <1> QED
    BY <1>1 DEF Staying, Modest, Allowed, SamePlace, OwnKept

LEMMA SettlesHere ==
  ASSUME NEW d, Steady(d), NEW e, e = Slide(d, d.indexh, d.indexv)
  PROVE  Staying(d, e) /\ e.overview = d.overview /\ e.paused = d.paused /\ Steady(e)
  <1>1. /\ d.indexh \in DOMAIN Verticals /\ Placed(d) /\ d.cur # None /\ Core(d) /\ Sorted(d)
        /\ d.indexh \in Int /\ d.indexv \in Int /\ d.indexh # Undef /\ d.indexv # Undef
    BY SteadyShape DEF Steady
  <1>2. IndexTyped(NoIndex) /\ ~NoIndex.set
    BY DEF IndexTyped, NoIndex
  <1>3. Good(e) /\ e.config = d.config /\ Landed(d, e, d.indexh, d.indexv) /\ OwnKept(d, e)
    BY <1>1, <1>2, SlideEffect DEF Slide
  <1>4. d.indexv \in IndicesV(d.indexh) /\ Verticals[d.indexh] \in Nat
    BY <1>1, IndexShape DEF Placed
  <1>5. e.indexh = d.indexh
    <2>1. PlaceH(d, d.indexh) = Bounded(d, d.indexh, Length)
      BY <1>1, Shape DEF PlaceH
    <2>2. d.indexh \in 0 .. Length - 1
      BY <1>1, Shape
    <2>3. Length \in Nat
      BY Shape
    <2> QED
      BY <1>1, <1>3, <2>1, <2>2, <2>3, BoundedEffect DEF Landed
  <1>6. e.indexv = d.indexv
    <2>1. e.indexv = Bounded(d, d.indexv, Verticals[d.indexh])
      BY <1>1, <1>3, <1>5 DEF Landed, PlaceV
    <2>2. CASE d.indexh \in Stacks
      <3>1. d.indexv \in 0 .. Verticals[d.indexh] - 1
        BY <1>4, <2>2 DEF IndicesV
      <3> QED
        BY <1>1, <1>4, <2>1, <3>1, BoundedEffect
    <2>3. CASE d.indexh \notin Stacks
      <3>1. Verticals[d.indexh] = 0 /\ d.indexv = 0
        BY <1>1, <1>4, <2>3, IndexShape DEF IndicesV
      <3> QED
        BY <1>1, <2>1, <3>1, BoundedEffect
    <2> QED
      BY <2>2, <2>3
  <1>7. e.cur = d.cur
    BY <1>1, <1>3, <1>5, <1>6, SteadyShape DEF Placed, Good
  <1> QED
    BY <1>3, <1>5, <1>6, <1>7 DEF Staying, SamePlace, Modest, Allowed, Landed, Good

LEMMA OverviewStays ==
  ASSUME NEW d, Steady(d), NEW e, e = ToggleOverview(d)
  PROVE  /\ Staying(d, e) /\ e.paused = d.paused
         /\ d.config.overview => e.overview = ~d.overview
         /\ Modest(d, DeactivateOverview(d))
  <1>1. IsDeck(d) /\ SwitchesTyped(d) /\ ModesTyped(d) /\ CueTyped(d) /\ d.overview \in BOOLEAN
    BY SteadyShape DEF ModesTyped
  <1>2. \A x : IsDeck(x) => \A type : Changes(x, DispatchEvent(x, type), {"events"})
    BY EventChanges
  <1>3. ASSUME d.config.overview, ~d.overview
        PROVE  /\ Staying(d, ActivateOverview(d)) /\ ActivateOverview(d).overview = TRUE
               /\ ActivateOverview(d).paused = d.paused
    <2> DEFINE a == [CancelAutoSlide(d) EXCEPT !.overview = TRUE, !.overviewClicks = Leaves]
               b == UpdateSlidesVisibility(a)
               c == DispatchEvent(b, "overviewshown")
    <2>1. ActivateOverview(d) = c
      BY <1>3 DEF ActivateOverview
    <2>2. Changes(d, a, {"timer", "overview", "overviewClicks"}) /\ a.overview = TRUE
      BY <1>1 DEF CancelAutoSlide, Changes, IsDeck, Fields
    <2> HIDE DEF a
    <2>3. Changes(a, b, {"shown", "bgVideo"})
      BY <2>2, VisibilityChanges DEF Changes
    <2> HIDE DEF b
    <2>4. Changes(b, c, {"events"})
      BY <1>2, <2>3 DEF Changes
    <2> HIDE DEF c
    <2>5. Changes(d, c, {"timer", "overview", "overviewClicks", "shown", "bgVideo", "events"})
          /\ c.overview = TRUE
      BY <2>2, <2>3, <2>4 DEF Changes, Fields
    <2>6. /\ c.config = d.config /\ c.indexh = d.indexh /\ c.indexv = d.indexv
          /\ c.cur = d.cur /\ c.visible = d.visible /\ c.paused = d.paused
      BY <2>5 DEF Changes, Fields
    <2> QED
      BY <1>3, <2>1, <2>5, <2>6 DEF Staying, SamePlace, Modest, Allowed, OwnKept
  <1>4. /\ Staying(d, DeactivateOverview(d)) /\ DeactivateOverview(d).paused = d.paused
        /\ d.config.overview => DeactivateOverview(d).overview = FALSE
    <2>1. CASE ~d.config.overview
      <3>1. DeactivateOverview(d) = d
        BY <2>1 DEF DeactivateOverview
      <3> QED
        BY <2>1, <3>1 DEF Staying, SamePlace, Modest, OwnKept
    <2>2. CASE d.config.overview
      <3> DEFINE a == [d EXCEPT !.overview = FALSE, !.overviewClicks = {}]
                 b == Slide(a, d.indexh, d.indexv)
                 c == CueAutoSlide(b)
                 x == DispatchEvent(c, "overviewhidden")
      <3>1. DeactivateOverview(d) = x
        BY <2>2 DEF DeactivateOverview
      <3>2. Changes(d, a, {"overview", "overviewClicks"}) /\ a.overview = FALSE /\ a.overviewClicks = {}
        BY <1>1 DEF Changes, IsDeck, Fields
      <3> HIDE DEF a
      <3>3. /\ a.paused = d.paused /\ a.autoSlidePaused = d.autoSlidePaused /\ a.overlay = d.overlay
            /\ a.touch = d.touch /\ a.autoSlide = d.autoSlide /\ a.player = d.player
            /\ a.resetStacks = d.resetStacks /\ a.timer = d.timer
            /\ a.config = d.config /\ a.indexh = d.indexh /\ a.indexv = d.indexv
            /\ a.cur = d.cur /\ a.visible = d.visible
        BY <3>2 DEF Changes, Fields
      <3>4. ModesTyped(a) /\ CueTyped(a) /\ a.resetStacks \in BOOLEAN
        BY <1>1, <3>2, <3>3 DEF ModesTyped, CueTyped, SwitchesTyped
      <3>5. Steady(a)
        BY <3>2, <3>4, SteadyFrame, ChangesMore DEF Switches
      <3>6. Staying(d, a)
        BY <3>2, <3>3 DEF Staying, SamePlace, Modest, Allowed, OwnKept
      <3>7. Staying(a, b) /\ b.overview = FALSE /\ b.paused = d.paused /\ Steady(b)
        BY <3>2, <3>3, <3>5, SettlesHere
      <3> HIDE DEF b
      <3>8. Changes(b, c, {"timer", "autoSlide", "player"})
        BY <3>7, CueChanges, SteadyShape
      <3> HIDE DEF c
      <3>9. Changes(c, x, {"events"})
        BY <1>2, <3>8 DEF Changes
      <3> HIDE DEF x
      <3>10. Staying(b, c) /\ Staying(c, x)
        BY <3>8, <3>9, StayingFrame
      <3>11. x.overview = FALSE /\ x.paused = d.paused
        BY <3>7, <3>8, <3>9 DEF Changes, Fields
      <3> QED
        BY <3>1, <3>6, <3>7, <3>10, <3>11, StayingTrans
    <2> QED
      BY <2>1, <2>2
  <1>5. ~d.overview /\ ~d.config.overview =>
          Staying(d, ActivateOverview(d)) /\ ActivateOverview(d).paused = d.paused
    BY DEF ActivateOverview, Staying, SamePlace, Modest, OwnKept
  <1> QED
    BY <1>1, <1>3, <1>4, <1>5 DEF ToggleOverview, Staying

LEMMA PauseStays ==
  ASSUME NEW d, Steady(d), NEW e, e = TogglePause(d)
  PROVE  /\ Staying(d, e) /\ e.overview = d.overview
         /\ e.paused = (~d.paused /\ d.config.pause)
  <1>1. IsDeck(d) /\ d.paused \in BOOLEAN /\ d.config.pause \in BOOLEAN
    BY SteadyShape DEF ModesTyped, ConfigType
  <1>2. ASSUME NEW a, Changes(d, a, {"paused", "timer", "autoSlide", "player"}), NEW condition, NEW type
        PROVE  /\ Changes(d, DispatchIf(condition, a, type), {"paused", "timer", "autoSlide", "player", "events"})
               /\ DispatchIf(condition, a, type).paused = a.paused
    <2>1. Changes(a, DispatchIf(condition, a, type), {"events"})
      BY <1>2, EventChanges DEF Changes
    <2> QED
      BY <1>2, <2>1 DEF Changes, Fields
  <1>3. /\ Changes(d, e, {"paused", "timer", "autoSlide", "player", "events"})
        /\ e.paused = (~d.paused /\ d.config.pause)
    <2>1. CASE d.paused
      <3> DEFINE a == [d EXCEPT !.paused = FALSE]
                 b == CueAutoSlide(a)
      <3>1. Changes(d, a, {"paused"}) /\ a.paused = FALSE
        BY <1>1 DEF Changes, IsDeck, Fields
      <3> HIDE DEF a
      <3>2. Changes(a, b, {"timer", "autoSlide", "player"})
        BY <3>1, CueChanges DEF Changes
      <3>3. e = DispatchIf(d.paused, b, "resumed")
        BY <2>1 DEF TogglePause, Resume, a
      <3> HIDE DEF b
      <3>4. Changes(d, b, {"paused", "timer", "autoSlide", "player"}) /\ b.paused = FALSE
        BY <3>1, <3>2 DEF Changes, Fields
      <3>5. e.paused = FALSE
        BY <1>2, <3>3, <3>4
      <3> QED
        BY <1>2, <2>1, <3>3, <3>4, <3>5
    <2>2. CASE ~d.paused /\ d.config.pause
      <3> DEFINE a == [CancelAutoSlide(d) EXCEPT !.paused = TRUE]
      <3>1. Changes(d, a, {"paused", "timer", "autoSlide", "player"}) /\ a.paused = TRUE
        BY <1>1 DEF CancelAutoSlide, Changes, IsDeck, Fields
      <3>2. e = DispatchIf(~d.paused, a, "paused")
        BY <2>2 DEF TogglePause, Pause
      <3> HIDE DEF a
      <3>3. e.paused = TRUE
        BY <1>2, <3>1, <3>2
      <3>4. e.paused = (~d.paused /\ d.config.pause)
        BY Zenon, <1>1, <2>2, <3>3
      <3> QED
        BY <1>2, <3>1, <3>2, <3>4
    <2>3. CASE ~d.paused /\ ~d.config.pause
      <3>1. e = d
        BY <2>3 DEF TogglePause, Pause
      <3>2. e.paused = FALSE
        BY Zenon, <1>1, <2>3, <3>1
      <3> QED
        BY <1>1, <2>3, <3>1, <3>2, ChangesNothing
    <2> QED
      BY <2>1, <2>2, <2>3
  <1>4. /\ e.overview = d.overview /\ e.config = d.config /\ e.indexh = d.indexh /\ e.indexv = d.indexv
        /\ e.cur = d.cur /\ e.visible = d.visible
    BY <1>3 DEF Changes, Fields
  <1>5. Modest(d, e)
    BY <1>1, <1>3, <1>4 DEF Modest, Allowed
  <1> QED
    BY <1>3, <1>4, <1>5 DEF Staying, SamePlace, OwnKept

LEMMA AutoSlideModest ==
  ASSUME NEW d, Steady(d)
  PROVE  (\A resume : Modest(d, ToggleAutoSlide(d, resume))) /\ Modest(d, OnUserInput(d))
  <1> DEFINE rest == {"autoSlidePaused", "timer", "player", "autoSlide", "events"}
  <1>1. IsDeck(d) /\ rest \cap {"overview", "paused", "config"} = {}
    BY SteadyShape
  <1>2. ASSUME NEW paused, NEW type, NEW a, a = DispatchEvent([d EXCEPT !.autoSlidePaused = paused], type)
        PROVE  Changes(d, a, {"autoSlidePaused", "events"})
    <2> DEFINE b == [d EXCEPT !.autoSlidePaused = paused]
    <2>1. Changes(d, b, {"autoSlidePaused"})
      BY <1>1 DEF Changes, IsDeck, Fields
    <2> HIDE DEF b
    <2>2. Changes(b, DispatchEvent(b, type), {"events"})
      BY <2>1, EventChanges DEF Changes
    <2> QED
      BY <1>2, <2>1, <2>2 DEF Changes, b
  <1>3. Modest(d, PauseAutoSlide(d))
    <2>1. CASE ~(d.autoSlide = "on" /\ ~d.autoSlidePaused)
      BY <2>1, MoveModest DEF PauseAutoSlide
    <2>2. CASE d.autoSlide = "on" /\ ~d.autoSlidePaused
      <3> DEFINE a == DispatchEvent([d EXCEPT !.autoSlidePaused = TRUE], "autoslidepaused")
                 b == SetPlaying([a EXCEPT !.timer = FALSE], FALSE)
      <3>1. PauseAutoSlide(d) = b
        BY <2>2 DEF PauseAutoSlide
      <3>2. Changes(d, a, {"autoSlidePaused", "events"})
        BY <1>2
      <3> HIDE DEF a
      <3>3. Changes(a, b, {"timer", "player"})
        BY <3>2 DEF SetPlaying, Changes, IsDeck, Fields
      <3> HIDE DEF b
      <3>4. Changes(d, b, rest)
        BY <3>2, <3>3 DEF Changes
      <3> HIDE DEF rest
      <3> QED
        BY <1>1, <3>1, <3>4, ModestFrame
    <2> QED
      BY <2>1, <2>2
  <1>4. Modest(d, ResumeAutoSlide(d))
    <2>1. CASE ~(d.autoSlide = "on" /\ d.autoSlidePaused)
      BY <2>1, MoveModest DEF ResumeAutoSlide
    <2>2. CASE d.autoSlide = "on" /\ d.autoSlidePaused
      <3> DEFINE a == DispatchEvent([d EXCEPT !.autoSlidePaused = FALSE], "autoslideresumed")
                 b == CueAutoSlide(a)
      <3>1. ResumeAutoSlide(d) = b
        BY <2>2 DEF ResumeAutoSlide
      <3>2. Changes(d, a, {"autoSlidePaused", "events"})
        BY <1>2
      <3> HIDE DEF a
      <3>3. Changes(a, b, {"timer", "autoSlide", "player"})
        BY <3>2, CueChanges DEF Changes
      <3> HIDE DEF b
      <3>4. Changes(d, b, rest)
        BY <3>2, <3>3 DEF Changes
      <3> HIDE DEF rest
      <3> QED
        BY <1>1, <3>1, <3>4, ModestFrame
    <2> QED
      BY <2>1, <2>2
  <1>5. Modest(d, d)
    BY MoveModest
  <1> QED
    BY <1>3, <1>4, <1>5 DEF ToggleAutoSlide, OnUserInput

LEMMA KeyModest ==
  ASSUME NEW d, Steady(d), NEW key, NEW wasPaused
  PROVE  Modest(d, KeyAction(d, key, wasPaused))
  <1> DEFINE name == Binding(d, key)
  <1>1. name \in Directions => Modest(d, Navigate(d, name))
    <2> HIDE DEF name
    <2> QED
      BY NavigateModest
  <1>2. Modest(d, Slide(d, 0, Undef)) /\ Modest(d, SlideEnd(d)) /\ Modest(d, d)
    <2>1. 0 \in Int /\ Undef \in Int
      BY DEF Undef
    <2> QED
      BY <2>1, MoveModest, EndModest
  <1>3. Modest(d, OnEscape(d))
    <2>1. Changes(d, CloseOverlay(d), {"overlay"})
      BY SteadyShape DEF CloseOverlay, Changes, IsDeck, Fields
    <2>2. Modest(d, CloseOverlay(d))
      BY <2>1, ModestFrame
    <2> QED
      BY <2>2, OverviewStays DEF OnEscape, Staying
  <1>4. /\ Modest(d, DeactivateOverview(d)) /\ Modest(d, TogglePause(d))
        /\ Modest(d, ToggleAutoSlide(d, wasPaused))
    BY OverviewStays, PauseStays, AutoSlideModest DEF Staying
  <1>5. KeyAction(d, key, wasPaused) =
          CASE name \in Directions -> Navigate(d, name)
            [] name = "home" -> Slide(d, 0, Undef)
            [] name = "end" -> SlideEnd(d)
            [] name = "deactivate" -> DeactivateOverview(d)
            [] name = "pause" -> TogglePause(d)
            [] name = "a" /\ d.config.autoSlideStoppable -> ToggleAutoSlide(d, wasPaused)
            [] name = "escape" -> OnEscape(d)
            [] OTHER -> d
    BY DEF KeyAction
  <1> HIDE DEF name
  <1>6. name \in Directions => name \notin {"home", "end", "deactivate", "pause", "a", "escape"}
    BY DEF Directions
  <1> QED
    BY <1>1, <1>2, <1>3, <1>4, <1>5, <1>6

LEMMA KeyDownModest ==
  ASSUME NEW d, Good(d), NEW key, NEW e, e = OnDocumentKeyDown(d, key)
  PROVE  Modest(d, e)
  <1> DEFINE d1 == OnUserInput(d)
             done == KeyAction(d1, key, d.autoSlidePaused)
  <1>1. Steady(d)
    BY DEF Good
  <1>2. Kept(d, d1) /\ Modest(d, d1)
    BY <1>1, AutoSlideKept, AutoSlideModest
  <1>3. e \in {d1, CueAutoSlide(done)}
    BY DEF OnDocumentKeyDown
  <1> HIDE DEF d1
  <1>4. Kept(d1, done) /\ Modest(d1, done)
    BY <1>2, KeyKept, KeyModest DEF Kept
  <1> HIDE DEF done
  <1>5. Modest(done, CueAutoSlide(done))
    BY <1>4, MoveModest DEF Kept
  <1> QED
    BY <1>2, <1>3, <1>4, <1>5, ModestTrans

-----------------------------------------------------------------------------
(* Where a deck is taken *)

\* There is a slide at h, v.
Situated(h, v) == h \in DOMAIN Verticals /\ v \in IndicesV(h)

LEMMA Arrives ==
  ASSUME NEW d, Good(d), Faithful(d), NEW h, NEW v, Situated(h, v), NEW f, IndexTyped(f),
         NEW e, e = SlideTo(d, h, v, f)
  PROVE  /\ Good(e) /\ Faithful(e) /\ e.config = d.config /\ e.overview = d.overview /\ e.paused = d.paused
         /\ e.indexh = h /\ e.indexv = v
         /\ d.config.fragments /\ f.set => \A g \in Fragments : g[1] = e.cur => (g \in e.visible <=> Num[g] <= f.to)
  <1>1. /\ h \in Nat /\ v \in Nat /\ h \in Int /\ v \in Int /\ h # Undef /\ v # Undef
        /\ h \in DOMAIN Verticals /\ v \in IndicesV(h) /\ Verticals[h] \in Nat
    BY IndexShape DEF Situated, Undef
  <1>2. Core(d) /\ Sorted(d)
    BY DEF Good, Steady
  <1>3. Good(e) /\ e.config = d.config /\ Landed(d, e, h, v)
    BY <1>1, <1>2, SlideEffect
  <1>4. e.indexh = h
    <2>1. PlaceH(d, h) = Bounded(d, h, Length)
      BY <1>1, Shape DEF PlaceH
    <2>2. h \in 0 .. Length - 1 /\ Length \in Nat
      BY <1>1, Shape
    <2> QED
      BY <1>1, <1>3, <2>1, <2>2, BoundedEffect DEF Landed
  <1>5. e.indexv = v
    <2>1. e.indexv = Bounded(d, v, Verticals[h])
      BY <1>1, <1>3, <1>4 DEF Landed, PlaceV
    <2>2. CASE h \in Stacks
      <3>1. v \in 0 .. Verticals[h] - 1
        BY <1>1, <2>2 DEF IndicesV
      <3> QED
        BY <1>1, <2>1, <3>1, BoundedEffect
    <2>3. CASE h \notin Stacks
      <3>1. Verticals[h] = 0 /\ v = 0
        BY <1>1, <2>3, IndexShape DEF IndicesV
      <3> QED
        BY <1>1, <2>1, <3>1, BoundedEffect
    <2> QED
      BY <2>2, <2>3
  <1>6. /\ Faithful(e)
        /\ d.config.fragments /\ f.set => \A g \in FragmentsOf(e.cur) : g \in e.visible <=> Num[g] <= f.to
    <2>1. Followers({"fragmentshown", "fragmenthidden", "slidechanged"}) /\ TRUE \in BOOLEAN
      BY DEF Followers
    <2> QED
      BY <1>1, <1>2, <2>1, SlideTells
  <1>7. e.cur \in Leaves
    BY <1>3, SteadyShape DEF Good
  <1> QED
    BY <1>3, <1>4, <1>5, <1>6, <1>7, FragmentShape DEF Landed

\* A state that a deck with this configuration can be in: its slide is there, it says
\* which fragments of it are shown, and the overview and the pause only where there are.
Fit(state, config) ==
  /\ state \in State /\ Situated(state.indexh, state.indexv)
  /\ config.fragments /\ FragmentsOf(GetSlide(state.indexh, state.indexv)) # {} => state.indexf.set
  /\ (state.overview => config.overview) /\ (state.paused => config.pause)

LEMMA SetArrives ==
  ASSUME NEW d, Good(d), Faithful(d), Allowed(d), NEW state, Fit(state, d.config), NEW e, e = SetState(d, state)
  PROVE  /\ Good(e) /\ Faithful(e) /\ Allowed(e) /\ e.config = d.config
         /\ Tells(state, e, TRUE) /\ Tells(state, e, FALSE) /\ e.overview = state.overview
  <1> DEFINE a == SlideTo(d, state.indexh, state.indexv, state.indexf)
             b == IF state.paused = a.paused THEN a ELSE TogglePause(a)
             c == IF state.overview = b.overview THEN b ELSE ToggleOverview(b)
  <1>1. e = c
    BY DEF SetState
  <1>2. /\ state \in State /\ Situated(state.indexh, state.indexv) /\ IndexTyped(state.indexf)
        /\ state.overview \in BOOLEAN /\ state.paused \in BOOLEAN
    BY DEF Fit, State, IndexTyped
  <1>3. /\ Good(a) /\ Faithful(a) /\ a.config = d.config /\ a.overview = d.overview /\ a.paused = d.paused
        /\ a.indexh = state.indexh /\ a.indexv = state.indexv
        /\ d.config.fragments /\ state.indexf.set =>
             \A g \in Fragments : g[1] = a.cur => (g \in a.visible <=> Num[g] <= state.indexf.to)
    BY <1>2, Arrives
  <1> HIDE DEF a
  <1>4. Tells(state, a, FALSE)
    <2>1. a.cur = GetSlide(state.indexh, state.indexv) /\ a.cur \in Leaves
      BY <1>3, SteadyShape DEF Good, Placed
    <2>2. ASSUME d.config.fragments, NEW g \in Fragments, g[1] = a.cur PROVE state.indexf.set
      <3>1. g \in FragmentsOf(a.cur)
        BY <2>1, <2>2, FragmentShape
      <3> QED
        BY <2>1, <2>2, <3>1 DEF Fit
    <2> QED
      BY <1>3, <2>2 DEF Tells
  <1>5. Staying(a, b) /\ b.overview = a.overview /\ Steady(b) /\ b.paused = state.paused
    <2>1. Staying(a, a) /\ Steady(a)
      BY <1>3 DEF Good, Staying, Modest, SamePlace, OwnKept
    <2>2. a.paused \in BOOLEAN
      BY <2>1, SteadyShape DEF ModesTyped
    <2>3. /\ Staying(a, TogglePause(a)) /\ TogglePause(a).overview = a.overview /\ Steady(TogglePause(a))
          /\ TogglePause(a).paused = (~a.paused /\ a.config.pause)
      BY <2>1, PauseStays, PauseKept DEF Kept
    <2>4. state.paused => a.config.pause
      BY <1>3 DEF Fit
    <2>5. CASE state.paused = a.paused
      BY <2>1, <2>5
    <2>6. CASE state.paused # a.paused
      <3>1. b = TogglePause(a)
        BY <2>6
      <3>2. TogglePause(a).paused = state.paused
        BY <1>2, <2>2, <2>3, <2>4, <2>6
      <3> HIDE DEF b
      <3> QED
        BY <2>3, <3>1, <3>2
    <2> QED
      BY <2>5, <2>6
  <1> HIDE DEF b
  <1>6. Staying(b, c) /\ c.overview = state.overview /\ c.paused = b.paused
    <2>1. CASE state.overview = b.overview
      BY <2>1 DEF Staying, Modest, SamePlace, OwnKept
    <2>2. CASE state.overview # b.overview
      <3>1. Staying(b, c) /\ (b.config.overview => c.overview = ~b.overview) /\ c.paused = b.paused
        BY <1>5, <2>2, OverviewStays
      <3>2. b.config = d.config /\ (b.overview => d.config.overview)
        BY <1>3, <1>5 DEF Staying, Modest, Allowed
      <3>3. b.overview \in BOOLEAN
        BY <1>5, SteadyShape DEF ModesTyped
      <3>4. d.config.overview
        BY <1>2, <2>2, <3>2, <3>3 DEF Fit
      <3> QED
        BY <1>2, <2>2, <3>1, <3>2, <3>3, <3>4
    <2> QED
      BY <2>1, <2>2
  <1> HIDE DEF c
  <1>7. Good(e) /\ Faithful(e) /\ e.config = d.config
    <2>1. Watching({"fragmentshown", "fragmenthidden", "slidechanged"}, FALSE) /\ FALSE \in BOOLEAN
      BY DEF Watching, Followers
    <2> QED
      BY <1>2, <2>1, SetTells DEF Follows
  <1>8. Staying(a, e)
    BY <1>1, <1>5, <1>6, StayingTrans
  <1>9. Tells(state, e, FALSE) /\ Tells(state, e, TRUE)
    BY <1>1, <1>3, <1>4, <1>5, <1>6, <1>8 DEF Tells, Staying, SamePlace, OwnKept, Modest
  <1>10. Allowed(e)
    BY <1>3, <1>8 DEF Staying, Modest, Allowed
  <1> QED
    BY <1>1, <1>6, <1>7, <1>9, <1>10

\* Whatever state is set, and wherever it leads, the overview is only where it may be.
LEMMA SetModest ==
  ASSUME NEW d, Good(d), NEW state \in State, NEW e, e = SetState(d, state)
  PROVE  Modest(d, e)
  <1> DEFINE a == SlideTo(d, state.indexh, state.indexv, state.indexf)
             b == IF state.paused = a.paused THEN a ELSE TogglePause(a)
             c == IF state.overview = b.overview THEN b ELSE ToggleOverview(b)
  <1>1. e = c
    BY DEF SetState
  <1>2. state.indexh \in Int /\ state.indexv \in Int /\ IndexTyped(state.indexf)
    BY DEF State, IndexTyped
  <1>3. Steady(a) /\ Modest(d, a)
    <2>1. Good(a) /\ a.config = d.config /\ Landed(d, a, state.indexh, state.indexv)
      BY <1>2, SlideEffect DEF Good, Steady
    <2> QED
      BY <2>1 DEF Good, Modest, Allowed, Landed
  <1> HIDE DEF a
  <1>4. Steady(b) /\ Modest(a, b)
    BY <1>3, PauseKept, PauseStays, MoveModest DEF Kept, Staying
  <1> HIDE DEF b
  <1>5. Modest(b, c)
    BY <1>4, OverviewStays, MoveModest DEF Staying
  <1> QED
    BY <1>1, <1>3, <1>4, <1>5, ModestTrans

\* A step on from one place shows the same fragments in either deck.
LEMMA NextFragmentSame ==
  ASSUME NEW d, Good(d), Faithful(d), NEW u, Good(u), Faithful(u),
         u.cur = d.cur, u.visible = d.visible, u.config.fragments = d.config.fragments,
         NEW a, a = NavigateFragment(d, NoIndex, 1), NEW b, b = NavigateFragment(u, NoIndex, 1)
  PROVE  b.visible = a.visible
  <1>1. /\ IsDeck(d) /\ FragmentsTyped(d) /\ Sorted(d) /\ d.cur \in Leaves /\ d.enabled \subseteq Directions
        /\ IsDeck(u) /\ FragmentsTyped(u) /\ Sorted(u) /\ u.cur \in Leaves /\ u.enabled \subseteq Directions
    BY SteadyShape DEF Good
  <1>2. IndexTyped(NoIndex) /\ 1 \in Int
    BY DEF IndexTyped, NoIndex
  <1>3. /\ FragmentsTyped(a) /\ (~d.config.fragments => a = d)
        /\ \A f \in Fragments : f[1] # d.cur => (f \in a.visible <=> f \in d.visible)
    BY <1>1, <1>2, NavigateEffect
  <1>4. /\ FragmentsTyped(b) /\ (~u.config.fragments => b = u)
        /\ \A f \in Fragments : f[1] # u.cur => (f \in b.visible <=> f \in u.visible)
    BY <1>1, <1>2, NavigateEffect
  <1>5. CASE ~d.config.fragments
    BY <1>3, <1>4, <1>5
  <1>6. CASE d.config.fragments
    <2> DEFINE F == FragmentsOf(d.cur)
               num == SortFragments(d, F).fidx
    <2>1. num = SortFragments(u, F).fidx
      <3>1. d.fidx = Num /\ u.fidx = Num
        BY DEF Faithful, Numbering
      <3>2. SortFragments(d, F).fidx = NumbersOf(d.fidx, F) /\ SortFragments(u, F).fidx = NumbersOf(u.fidx, F)
        <4> HIDE DEF F
        <4> QED
          BY <1>1, SortNumbers
      <3> QED
        BY <3>1, <3>2
    <2>2. PICK K \in Nat : FirstGroups(num, F, d.visible, K)
      BY <1>1, GroupsShown
    <2>3. \A f \in F : f \in a.visible <=> num[f] < K + 1
      BY <1>1, <1>2, <1>6, <2>2, FragmentStep
    <2>4. \A f \in F : f \in b.visible <=> num[f] < K + 1
      <3>1. FragmentsOf(u.cur) = F /\ FirstGroups(num, F, u.visible, K)
        BY <2>2
      <3>2. num = SortFragments(u, FragmentsOf(u.cur)).fidx /\ u.config.fragments
        BY <1>6, <2>1
      <3> HIDE DEF num, F
      <3>3. \A f \in FragmentsOf(u.cur) : f \in b.visible <=> num[f] < K + 1
        BY <1>1, <1>2, <3>1, <3>2, FragmentStep
      <3> QED
        BY <3>1, <3>3
    <2> HIDE DEF num
    <2>5. \A f \in Fragments : f[1] = d.cur => f \in F
      BY <1>1, FragmentShape
    <2> HIDE DEF F
    <2>6. \A f \in Fragments : f \in b.visible <=> f \in a.visible
      BY <1>3, <1>4, <2>3, <2>4, <2>5
    <2> QED
      BY <1>3, <1>4, <2>6 DEF FragmentsTyped
  <1> QED
    BY <1>5, <1>6

\* Two decks at the same place go on to the same place, unless the next slide is in
\* another stack: there each deck is where it has been.
LEMMA NextSame ==
  ASSUME NEW d, Good(d), Faithful(d), NEW u, Good(u), Faithful(u),
         u.indexh = d.indexh, u.indexv = d.indexv, u.visible = d.visible, u.overview = d.overview,
         u.config.fragments = d.config.fragments, u.config.loop = d.config.loop,
         NEW n, n = Navigate(d, "next"), NEW m, m = Navigate(u, "next")
  PROVE  \/ m.cur = n.cur /\ m.visible = n.visible
         \/ n.cur[1] \in Stacks \ {d.cur[1]} /\ m.cur[1] = n.cur[1]
  <1> DEFINE a == NavigateFragment(d, NoIndex, 1)
             b == NavigateFragment(u, NoIndex, 1)
             way == NavigateNext(d)
             way2 == NavigateNext(u)
  <1>1. /\ Steady(d) /\ Steady(u) /\ "next" \in Directions
        /\ d.indexh \in Nat /\ d.indexv \in Nat /\ d.indexh \in DOMAIN Verticals
    BY SteadyShape DEF Good, Directions
  <1>2. u.cur = d.cur
    BY <1>1, SteadyShape DEF Placed
  <1>3. b.visible = a.visible
    BY <1>2, NextFragmentSame
  <1>4. /\ Changes(d, a, {"fidx", "visible", "curfrag", "enabled", "events"}) /\ Kept(d, a)
        /\ Changes(u, b, {"fidx", "visible", "curfrag", "enabled", "events"}) /\ Kept(u, b)
    BY <1>1, NextFragmentEffect
  <1>5. /\ way.fragment = 1 /\ way.inOverview
        /\ way.open <=> Downward(d) \/ d.indexh < Length - 1 \/ d.config.loop
        /\ Downward(d) => way.h = d.indexh /\ way.v = d.indexv + 1
        /\ ~Downward(d) => way.h = d.indexh + 1 /\ way.v = Undef
    <2> HIDE DEF way
    <2> QED
      BY <1>1, NextWay DEF way
  <1>6. /\ way2.fragment = 1 /\ way2.inOverview /\ (way2.open <=> way.open)
        /\ way2.h = way.h /\ way2.v = way.v
    <2>1. Downward(u) <=> Downward(d)
      BY DEF Downward
    <2>2. /\ way2.fragment = 1 /\ way2.inOverview
          /\ way2.open <=> Downward(u) \/ u.indexh < Length - 1 \/ u.config.loop
          /\ Downward(u) => way2.h = u.indexh /\ way2.v = u.indexv + 1
          /\ ~Downward(u) => way2.h = u.indexh + 1 /\ way2.v = Undef
      <3> HIDE DEF way2
      <3> QED
        BY <1>1, NextWay DEF way2
    <2> HIDE DEF way, way2
    <2> QED
      BY <1>5, <2>1, <2>2
  <1>7. /\ n = CueAutoSlide(Follow(d, a, way)) /\ m = CueAutoSlide(Follow(u, b, way2))
    <2>1. Go(d, way) = Follow(d, a, way) /\ Go(u, way2) = Follow(u, b, way2)
      BY <1>5, <1>6 DEF Go
    <2>2. n = CueAutoSlide(Go(d, way)) /\ m = CueAutoSlide(Go(u, way2))
      BY DEF Navigate
    <2> HIDE DEF way, way2, a, b
    <2> QED
      BY <2>1, <2>2
  <1>8. /\ Good(n) /\ n.config = d.config /\ Faithful(n)
        /\ Good(m) /\ m.config = u.config /\ Faithful(m)
    <2>1. Followers({"fragmentshown", "fragmenthidden", "slidechanged"}) /\ TRUE \in BOOLEAN
      BY DEF Followers
    <2>2. Faithful(n) /\ Faithful(m)
      BY <1>1, <2>1, NavigateFollows DEF Follows
    <2> QED
      BY <1>1, <2>2, NavigateKept DEF Kept
  <1> HIDE DEF a, b, way, way2
  <1>9. /\ a.indexh = d.indexh /\ a.indexv = d.indexv /\ a.config = d.config /\ a.overview = d.overview
        /\ b.indexh = d.indexh /\ b.indexv = d.indexv /\ b.config = u.config /\ b.overview = d.overview
        /\ a.cur = d.cur /\ b.cur = d.cur /\ Steady(a) /\ Steady(b)
    BY <1>2, <1>4 DEF Changes, Fields, Kept
  <1>10. ASSUME NEW x, Steady(x), NEW y, y = CueAutoSlide(x)
         PROVE  y.cur = x.cur /\ y.visible = x.visible
    <2>1. Changes(x, y, {"timer", "autoSlide", "player"})
      BY <1>10, CueChanges, SteadyShape
    <2> QED
      BY <2>1 DEF Changes, Fields
  <1>11. CASE Moved(d, a) \/ ~way.open
    <2>1. Follow(d, a, way) = a /\ Follow(u, b, way2) = b
      BY <1>3, <1>6, <1>11 DEF Follow, Moved
    <2> QED
      BY <1>3, <1>7, <1>9, <1>10, <2>1
  <1>12. CASE ~(Moved(d, a) \/ ~way.open)
    <2> DEFINE e == Slide(a, way.h, way.v)
               f == Slide(b, way.h, way.v)
    <2>1. Follow(d, a, way) = e /\ Follow(u, b, way2) = f
      BY <1>3, <1>6, <1>12 DEF Follow, Moved
    <2>2. way.h \in Int /\ way.v \in Int /\ way.h # Undef /\ way.h \in Nat
      BY <1>1, <1>5 DEF Undef
    <2>3. IndexTyped(NoIndex) /\ ~NoIndex.set
      BY DEF IndexTyped, NoIndex
    <2>4. /\ Good(e) /\ e.config = a.config /\ Landed(a, e, way.h, way.v) /\ OwnKept(a, e)
          /\ Good(f) /\ f.config = b.config /\ Landed(b, f, way.h, way.v) /\ OwnKept(b, f)
      BY <1>9, <2>2, <2>3, SlideEffect DEF Slide, Steady
    <2> HIDE DEF e, f
    <2>5. \A i, k : Bounded(b, i, k) = Bounded(a, i, k)
      BY <1>9 DEF Bounded
    <2>6. f.indexh = e.indexh
      BY <1>9, <2>4, <2>5 DEF Landed, PlaceH
    <2>7. /\ n.cur = e.cur /\ n.visible = e.visible
          /\ m.cur = f.cur /\ m.visible = f.visible
      BY <1>7, <1>10, <2>1, <2>4 DEF Good
    <2>8. ASSUME f.indexv = e.indexv PROVE m.cur = n.cur /\ m.visible = n.visible
      <3>1. f.cur = e.cur
        BY <2>4, <2>6, <2>8, SteadyShape DEF Good, Placed
      <3>2. CASE ~d.config.fragments
        BY <1>8, <2>7, <3>1, <3>2 DEF Faithful, Numbering
      <3>3. CASE d.config.fragments
        <4>1. \A g \in Fragments : g[1] = e.cur => (g \in f.visible <=> g \in e.visible)
          BY <1>3, <1>9, <2>4, <3>1, <3>3 DEF OwnKept
        <4>2. e.config.fragments /\ f.config.fragments /\ Steady(e) /\ Steady(f)
          BY <1>9, <2>4, <3>3 DEF Good
        <4>3. f.visible = e.visible
          BY <3>1, <4>1, <4>2, SameVisible
        <4> QED
          BY <2>7, <3>1, <4>3
      <3> QED
        BY <3>2, <3>3
    <2>9. CASE way.v # Undef \/ d.overview
      <3>1. f.indexv = e.indexv
        BY <1>9, <2>4, <2>5, <2>6, <2>9 DEF Landed, PlaceV
      <3> QED
        BY <2>8, <3>1
    <2>10. CASE way.v = Undef /\ ~d.overview /\ way.h \notin Stacks
      <3>1. GetPreviousVerticalIndex(a, way.h) = 0 /\ GetPreviousVerticalIndex(b, way.h) = 0
        BY <2>10 DEF GetPreviousVerticalIndex
      <3>2. f.indexv = e.indexv
        BY <1>9, <2>4, <2>5, <2>6, <2>10, <3>1 DEF Landed, PlaceV
      <3> QED
        BY <2>8, <3>2
    <2>11. CASE way.v = Undef /\ ~d.overview /\ way.h \in Stacks
      <3>1. way.h = d.indexh + 1
        <4>1. ~Downward(d)
          BY <1>1, <1>5, <2>11 DEF Undef
        <4> QED
          BY <1>5, <4>1
      <3>2. way.h \in 0 .. Length - 1 /\ Length \in Nat
        BY <2>11, Shape, IndexShape
      <3>3. e.indexh = way.h
        <4>1. PlaceH(a, way.h) = Bounded(a, way.h, Length)
          BY <2>2, Shape DEF PlaceH
        <4> QED
          BY <2>2, <2>4, <3>2, <4>1, BoundedEffect DEF Landed
      <3>4. e.cur[1] = e.indexh /\ f.cur[1] = f.indexh /\ d.cur[1] = d.indexh
        <4>1. Placed(e) /\ e.cur # None /\ Placed(f) /\ f.cur # None /\ Placed(d) /\ d.cur # None
          BY <1>1, <2>4, SteadyShape DEF Good
        <4> QED
          BY <4>1, PlacedShape
      <3>5. way.h # d.indexh
        BY <1>1, <3>1
      <3> QED
        BY <2>6, <2>7, <2>11, <3>3, <3>4, <3>5
    <2> QED
      BY <2>9, <2>10, <2>11
  <1> QED
    BY <1>11, <1>12
=============================================================================
