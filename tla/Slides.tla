------------------------------- MODULE Slides -------------------------------
(***************************************************************************)
(* The sections of a deck of reveal.js and what its functions write into   *)
(* them: the classes past, present and future, the fragments that are      *)
(* visible, the slides that are displayed, their backgrounds and the media *)
(* embedded in them.                                                       *)
(*                                                                         *)
(* A section is <<h>> (a horizontal slide, or the stack around vertical    *)
(* ones) or <<h, v>> (a vertical slide); indices count from 0 as in the    *)
(* code.  A fragment is <<slide, i>>, the i-th of its slide in document    *)
(* order.  The state of a deck is one record d: a handler of the code      *)
(* calls the functions one after the other, each on what the one before    *)
(* left, and so do these operators.                                        *)
(***************************************************************************)
EXTENDS Integers, Sequences, FiniteSets, FiniteSetsExt

CONSTANTS
  Verticals,          \* h |-> how many vertical slides it holds, 0 for a plain slide
  StartIndexV,        \* h |-> its data-start-indexv, or Undef
  FragmentIndices,    \* slide |-> the data-fragment-index of its fragments, or Undef
  FragmentAutoSlide,  \* slide |-> the data-autoslide of its fragments ("" if none)
  SlideAutoSlide,     \* section |-> its data-autoslide ("", "off" for 0, "on")
  SlideId,            \* slide |-> its id attribute, "" if it has none
  Slug,               \* id |-> what writeURL makes of it (lower case, stripped)
  DataState,          \* section |-> the names in its data-state
  AutoplaySlides,     \* the slides with a video or audio that has data-autoplay
  IframeSlides,       \* the slides with an iframe that has data-src
  VideoBackgrounds    \* the sections with a data-background-video

\* JavaScript's undefined, where a number is expected: none that a deck computes
\* (before the first slide there is -1)
Undef == -2
None == <<>>          \* null, where a section is expected

HorizontalSlides == {<<h>> : h \in DOMAIN Verticals}
VerticalSlides(h) == {<<h, v>> : v \in 0 .. Verticals[h] - 1}
Stacks == {h \in DOMAIN Verticals : Verticals[h] > 0}
Sections == HorizontalSlides \cup UNION {VerticalSlides(h) : h \in Stacks}
Leaves == {s \in Sections : Len(s) = 2 \/ s[1] \notin Stacks}

IsVerticalSlide(s) == Len(s) = 2

GetSlide(h, v) == IF h \in Stacks THEN <<h, v>> ELSE <<h>>

FragmentsOf(l) == {<<l, i>> : i \in DOMAIN FragmentIndices[l]}
Fragments == UNION {FragmentsOf(l) : l \in Leaves}
FragmentsWithin(S) == {f \in Fragments : f[1] \in S \/ SubSeq(f[1], 1, 1) \in S}

AutoSlideSetting == {"", "off", "on"}

ASSUME DeckShape ==
  /\ IsFiniteSet(DOMAIN Verticals) /\ DOMAIN Verticals # {}
  /\ DOMAIN Verticals = 0 .. Cardinality(DOMAIN Verticals) - 1
  /\ \A h \in DOMAIN Verticals : Verticals[h] \in Nat
  /\ \A h \in Stacks : StartIndexV[h] \in {Undef} \cup 0 .. Verticals[h] - 1
  /\ \A l \in Leaves : FragmentIndices[l] \in Seq(Nat \cup {Undef})
  /\ \A f \in Fragments : FragmentAutoSlide[f[1]][f[2]] \in AutoSlideSetting
  /\ \A s \in Sections : SlideAutoSlide[s] \in AutoSlideSetting /\ DataState[s] \in Seq(STRING)
  /\ AutoplaySlides \cup IframeSlides \subseteq Leaves /\ VideoBackgrounds \subseteq Sections

-----------------------------------------------------------------------------
(* Events.  A dispatched event carries the state of the deck at that moment:
   the listeners of the plugins run synchronously and ask for it. *)

GetIndexF(d) ==
  IF d.cur = None \/ FragmentsOf(d.cur) = {} THEN Undef
  ELSE LET now == d.curfrag \cap FragmentsOf(d.cur)
       IN IF now # {} THEN d.fidx[(CHOOSE f \in now : \A g \in now : f[2] <= g[2])]
          ELSE Cardinality(d.visible \cap FragmentsOf(d.cur)) - 1

GetState(d) ==
  [indexh |-> d.indexh, indexv |-> d.indexv,
   indexf |-> [set |-> d.cur # None /\ FragmentsOf(d.cur) # {}, to |-> GetIndexF(d)],
   paused |-> d.paused, overview |-> d.overview]

DispatchEvent(d, type) ==
  [d EXCEPT !.events = Append(@, [type |-> type, state |-> GetState(d)])]
DispatchIf(condition, d, type) == IF condition THEN DispatchEvent(d, type) ELSE d

-----------------------------------------------------------------------------
(* The routes and the fragments that are left, and the buttons that show them *)

AvailableRoutes(d) ==
  LET back == d.indexh > 0 \/ d.config.loop
      on == d.indexh < Cardinality(HorizontalSlides) - 1 \/ d.config.loop
  IN [left |-> IF d.config.rtl THEN on ELSE back,
      right |-> IF d.config.rtl THEN back ELSE on,
      up |-> d.indexv > 0,
      down |-> d.indexv < Verticals[d.indexh] - 1]

AvailableFragments(d) ==
  LET all == IF d.cur # None /\ d.config.fragments THEN FragmentsOf(d.cur) ELSE {}
  IN [prev |-> all \cap d.visible # {}, next |-> all \ d.visible # {}]

EnabledControls(r, f, vertical) ==
  LET open == [left |-> r.left \/ (~vertical /\ f.prev), right |-> r.right \/ (~vertical /\ f.next),
               up |-> r.up \/ (vertical /\ f.prev), down |-> r.down \/ (vertical /\ f.next),
               prev |-> r.left \/ r.up \/ f.prev, next |-> r.right \/ r.down \/ f.next]
  IN {b \in DOMAIN open : open[b]}

UpdateControls(d) ==
  IF d.indexh = Undef THEN d
  ELSE [d EXCEPT !.enabled = EnabledControls(AvailableRoutes(d), AvailableFragments(d),
                                             IsVerticalSlide(d.cur))]

-----------------------------------------------------------------------------
(* Fragments *)

\* Numbers the fragments F of one slide: the groups that have an index in its
\* order, without gaps, then the others one by one in document order.
SortFragments(d, F) ==
  LET ordered == {f \in F : d.fidx[f] # Undef}
      groups == {d.fidx[f] : f \in ordered}
      Index(f) ==
        IF f \in ordered THEN Cardinality({g \in groups : g < d.fidx[f]})
        ELSE Cardinality(groups) + Cardinality({e \in F \ ordered : e[2] < f[2]})
  IN [d EXCEPT !.fidx = [f \in Fragments |-> IF f \in F THEN Index(f) ELSE @[f]]]

SortAllFragments(d) ==
  [d EXCEPT !.fidx = [f \in Fragments |-> SortFragments(d, FragmentsOf(f[1])).fidx[f]]]

\* Of the fragments F those up to index are visible, those at it are current
ShowUpTo(d, F, index) ==
  [d EXCEPT !.visible = (@ \ F) \cup {f \in F : d.fidx[f] <= index},
            !.curfrag = (@ \ F) \cup {f \in F : d.fidx[f] = index}]

\* From the last visible one on, found by numbering the visible fragments alone
ShowFromLast(d, F, offset) ==
  LET Last(e, seen) == IF seen = {} THEN -1 ELSE Max({e.fidx[f] : f \in seen})
      From(e) == ShowUpTo(e, F, Last(e, F \cap e.visible) + offset)
  IN From(SortFragments(d, F \cap d.visible))

FragmentEvents(before, d) ==
  DispatchIf(d.visible \ before.visible # {},
             DispatchIf(before.visible \ d.visible # {}, d, "fragmenthidden"), "fragmentshown")

\* Shows the fragments of the current slide up to index + offset, or by offset
\* from the last visible one if there is no index (set = FALSE)
NavigateFragment(d, index, offset) ==
  LET F == FragmentsOf(d.cur)
      Navigate(e) == IF index.set THEN ShowUpTo(e, F, index.to + offset)
                     ELSE ShowFromLast(e, F, offset)
  IN IF ~d.config.fragments \/ F = {} THEN d
     ELSE UpdateControls(FragmentEvents(d, Navigate(SortFragments(d, F))))

NoIndex == [set |-> FALSE, to |-> 0]
BugNextFragment(d) == [NavigateFragment(d, NoIndex, 1) EXCEPT !.enabled = d.enabled]
NextFragment(d) == NavigateFragment(d, NoIndex, 1)
PreviousFragment(d) == NavigateFragment(d, NoIndex, -1)

\* What navigateFragment returns: it has shown or hidden a fragment
Moved(before, after) == before.visible # after.visible

-----------------------------------------------------------------------------
(* Past, present and future *)

\* Brings an index into the range of n slides, around the end if the deck loops
Bounded(d, index, n) ==
  IF n = 0 THEN 0
  ELSE LET i == IF d.config.loop THEN index % n ELSE index
       IN Max({Min({i, n - 1}), 0})

BugShow(d, F) == d
Show(d, F) == [d EXCEPT !.visible = @ \cup F, !.curfrag = @ \ F]

BugHide(d, F) == [d EXCEPT !.visible = @ \ F]
Hide(d, F) == [d EXCEPT !.visible = @ \ F, !.curfrag = @ \ F]

\* Marks the sections S around the one at index, shows every fragment before it
\* and hides every fragment after it, and collects its data-state.
UpdateSlides(d, S, index) ==
  LET At(s) == s[Len(s)]
      before == {s \in S : At(s) < index}
      after == {s \in S : At(s) > index}
      Reversed(s) == d.config.rtl /\ ~IsVerticalSlide(s)
      marked == [d EXCEPT
        !.cls = [s \in Sections |->
                   IF s \in before THEN IF Reversed(s) THEN "future" ELSE "past"
                   ELSE IF s \in after THEN IF Reversed(s) THEN "past" ELSE "future"
                   ELSE IF s \in S THEN "present" ELSE @[s]],
        !.state = @ \o DataState[(CHOOSE s \in S : At(s) = index)]]
      ShowBefore(e) == IF ~e.config.fragments THEN e
                       ELSE Hide(Show(e, FragmentsWithin(before)), FragmentsWithin(after))
  IN IF S = {} THEN d ELSE ShowBefore(marked)

ResetVerticalSlides(d) ==
  [d EXCEPT !.cls = [s \in Sections |->
     IF IsVerticalSlide(s) /\ s[2] > 0 THEN "future" ELSE @[s]]]

BugSetPreviousVerticalIndex(d, h, v) == [d EXCEPT !.prevV[h] = d.indexh]
SetPreviousVerticalIndex(d, h, v) == [d EXCEPT !.prevV[h] = v]

GetPreviousVerticalIndex(d, h) ==
  IF h \notin Stacks THEN 0
  ELSE IF StartIndexV[h] # Undef THEN StartIndexV[h] ELSE d.prevV[h]

\* How many slides come before the current one, counted from the classes
GetSlidePastCount(d) ==
  LET Present(h) == d.cls[<<h>>] = "present" \/ \E s \in VerticalSlides(h) : d.cls[s] = "present"
      h0 == Min({h \in DOMAIN Verticals : Present(h)} \cup {Cardinality(HorizontalSlides)})
      AheadIn(h) == {s \in VerticalSlides(h) : ~ \E t \in VerticalSlides(h) :
                                               t[2] <= s[2] /\ d.cls[t] = "present"}
      stopped == {s \in Leaves : s[1] < h0}
  IN Cardinality(stopped) +
     (IF h0 \in DOMAIN Verticals THEN Cardinality(AheadIn(h0)) ELSE 0)

-----------------------------------------------------------------------------
(* Display *)

AbsDiff(a, b) == IF a < b THEN b - a ELSE a - b
AbsRem(a, b, m) == IF m = 0 THEN 0 ELSE AbsDiff(a, b) % AbsDiff(m, 0)

\* showSlide, hideSlide: a section is displayed with its background, whose video
\* is created the first time it is shown (not in a speaker's preview)
ShowSlides(d, S) ==
  [d EXCEPT !.shown = S,
            !.bgVideo = IF d.config.receiver THEN @ ELSE @ \cup (S \cap VideoBackgrounds)]

UpdateSlidesVisibility(d) ==
  LET distance == IF d.overview THEN 10 ELSE d.config.viewDistance
      oy(h) == IF h = d.indexh THEN d.indexv ELSE GetPreviousVerticalIndex(d, h)
      Around(h, x, y) == {s \in VerticalSlides(h) : x + AbsDiff(s[2], y) < distance}
      Near(h, x) == IF x < distance THEN {<<h>>} \cup Around(h, x, oy(h)) ELSE {}
      DistanceX(h) ==
        IF d.config.loop THEN AbsRem(d.indexh, h, Cardinality(HorizontalSlides) - distance)
        ELSE AbsDiff(d.indexh, h)
  IN IF d.indexh = Undef THEN d
     ELSE ShowSlides(d, UNION {Near(h, DistanceX(h)) : h \in DOMAIN Verticals})

CreateBackgrounds(d) ==
  [d EXCEPT !.bgCls = [s \in Sections |-> ""], !.bgVideo = {}, !.bgPlaying = {}, !.prevBg = None]

\* Comparisons with an undefined index are false: before the first slide every
\* background is present.
UpdateBackground(d, includeAll) ==
  LET reverse == d.config.rtl
      Before(i, index) == index # Undef /\ i < index
      After(i, index) == index # Undef /\ i > index
      Class(s) ==
        IF ~IsVerticalSlide(s)
        THEN IF Before(s[1], d.indexh) THEN IF reverse THEN "future" ELSE "past"
             ELSE IF After(s[1], d.indexh) THEN IF reverse THEN "past" ELSE "future"
             ELSE "present"
        ELSE IF ~includeAll /\ s[1] # d.indexh THEN d.bgCls[s]
        ELSE IF Before(s[2], d.indexv) THEN "past"
        ELSE IF After(s[2], d.indexv) THEN "future" ELSE "present"
      now == IF d.indexh = Undef THEN <<Cardinality(HorizontalSlides) - 1>>
             ELSE GetSlide(d.indexh, d.indexv)
  IN [d EXCEPT !.bgCls = [s \in Sections |-> Class(s)],
               !.bgPlaying = (@ \ {d.prevBg}) \cup ({now} \cap d.bgVideo),
               !.prevBg = now]

-----------------------------------------------------------------------------
(* Embedded content.  An iframe with data-src is loaded when its slide starts
   and told slide:start once it has loaded. *)

StartEmbeddedContent(d, s) ==
  IF s = None \/ d.config.receiver THEN d
  ELSE LET lazy == {s} \cap IframeSlides
           ready == {l \in lazy : d.iframe[l] # "blank"}
       IN [d EXCEPT !.playing = @ \cup ({s} \cap AutoplaySlides),
                    !.started = @ \cup ready,
                    !.onload = @ \cup (lazy \ ready),
                    !.iframe = [l \in IframeSlides |->
                                  IF l \in lazy \ ready THEN "loading" ELSE @[l]]]

BugStopEmbeddedContent(d, s) ==
  IF s = None THEN d ELSE [d EXCEPT !.playing = @ \ {s}, !.started = @ \ {s}]
StopEmbeddedContent(d, s) ==
  IF s = None THEN d
  ELSE [d EXCEPT !.playing = @ \ {s}, !.started = @ \ {s}, !.onload = @ \ {s},
                 !.iframe = [l \in IframeSlides |-> IF l = s THEN "blank" ELSE @[l]]]

\* startEmbeddedIframe, on the load event of an iframe
IframeLoad(d, s) ==
  [d EXCEPT !.iframe[s] = "loaded", !.started = @ \cup ({s} \cap d.onload)]

=============================================================================
