---------------------------- MODULE RevealProofs ----------------------------
(***************************************************************************)
(* Lemmas about the functions of reveal.js, for every deck and every       *)
(* configuration: what each of them leaves alone (Changes), and what it    *)
(* makes of the parts of a deck that must agree.                           *)
(***************************************************************************)
EXTENDS DeckTerms, FiniteSetTheorems, SequenceTheorems, WellFoundedInduction, TLAPS

Length == Cardinality(DOMAIN Verticals)

\* The indices a deck may have in its h-th horizontal slide
IndicesV(h) == IF h \in Stacks THEN 0 .. Verticals[h] - 1 ELSE {0}

-----------------------------------------------------------------------------
(* The shape of a deck *)

\* The horizontal slides are as many as there are indices.
LEMMA Shape ==
  /\ Length \in Nat \ {0}
  /\ DOMAIN Verticals = 0 .. Length - 1
  /\ IsFiniteSet(HorizontalSlides)
  /\ Cardinality(HorizontalSlides) = Length
  <1>1. IsFiniteSet(DOMAIN Verticals) /\ DOMAIN Verticals # {} /\ DOMAIN Verticals = 0 .. Length - 1
    BY DeckShape DEF DeckShape, Length
  <1>2. Length \in Nat \ {0}
    BY <1>1, FS_CardinalityType DEF Length
  <1>3. [h \in DOMAIN Verticals |-> <<h>>] \in Bijection(DOMAIN Verticals, HorizontalSlides)
    BY DEF HorizontalSlides, Bijection, Injection, Surjection, IsInjective
  <1> QED
    BY <1>1, <1>2, <1>3, FS_Bijection DEF ExistsBijection, Length

LEMMA IndexShape ==
  /\ Stacks \subseteq DOMAIN Verticals
  /\ \A h \in DOMAIN Verticals :
       /\ h \in Nat /\ Verticals[h] \in Nat /\ 0 \in IndicesV(h) /\ IndicesV(h) \subseteq Nat
       /\ h \in Stacks <=> Verticals[h] # 0
  BY Shape, DeckShape DEF DeckShape, IndicesV, Stacks

LEMMA SectionShape ==
  /\ Leaves \subseteq Sections /\ HorizontalSlides \subseteq Sections
  /\ \A h \in Stacks : VerticalSlides(h) \subseteq Sections
  /\ \A h \in DOMAIN Verticals : h \notin Stacks => VerticalSlides(h) = {}
  /\ \A h \in DOMAIN Verticals : <<h>> \in HorizontalSlides
  BY IndexShape DEF Leaves, Sections, VerticalSlides, HorizontalSlides

LEMMA SlideShape ==
  ASSUME NEW h \in DOMAIN Verticals, NEW v \in IndicesV(h)
  PROVE  /\ GetSlide(h, v) \in Leaves /\ GetSlide(h, v) # None
         /\ GetSlide(h, v)[1] = h
         /\ IsVerticalSlide(GetSlide(h, v)) <=> h \in Stacks
         /\ h \in Stacks => GetSlide(h, v)[2] = v /\ GetSlide(h, v) \in VerticalSlides(h)
  BY IndexShape
  DEF IndicesV, GetSlide, Leaves, Sections, HorizontalSlides, VerticalSlides, IsVerticalSlide, None

LEMMA HorizontalShape ==
  ASSUME NEW s \in HorizontalSlides
  PROVE  s[1] \in DOMAIN Verticals /\ s = <<s[1]>> /\ Len(s) = 1 /\ ~IsVerticalSlide(s)
  BY DEF HorizontalSlides, IsVerticalSlide

LEMMA VerticalShape ==
  ASSUME NEW h \in DOMAIN Verticals, NEW s \in VerticalSlides(h)
  PROVE  /\ h \in Stacks /\ s[1] = h /\ s[2] \in IndicesV(h) /\ s = <<h, s[2]>>
         /\ Len(s) = 2 /\ IsVerticalSlide(s) /\ s \in Leaves
  <1>1. h \in Stacks
    BY SectionShape
  <1>2. PICK v \in 0 .. Verticals[h] - 1 : s = <<h, v>>
    BY DEF VerticalSlides
  <1> QED
    BY <1>1, <1>2, SectionShape DEF IndicesV, IsVerticalSlide, Leaves

LEMMA LeafShape ==
  ASSUME NEW s \in Leaves
  PROVE  /\ s[1] \in DOMAIN Verticals
         /\ IsVerticalSlide(s) <=> s[1] \in Stacks
         /\ IsVerticalSlide(s) => s[2] \in IndicesV(s[1]) /\ s = <<s[1], s[2]>> /\ s \in VerticalSlides(s[1])
         /\ ~IsVerticalSlide(s) => s = <<s[1]>>
  <1>1. CASE s \in HorizontalSlides
    BY <1>1, HorizontalShape DEF Leaves, IsVerticalSlide
  <1>2. CASE \E h \in Stacks : s \in VerticalSlides(h)
    BY <1>2, VerticalShape, IndexShape
  <1> QED
    BY <1>1, <1>2 DEF Leaves, Sections

LEMMA FiniteSections == IsFiniteSet(Sections) /\ IsFiniteSet(Leaves)
  <1>1. ASSUME NEW h \in Stacks PROVE IsFiniteSet(VerticalSlides(h))
    <2>1. IsFiniteSet(0 .. Verticals[h] - 1)
      BY IndexShape, FS_Interval
    <2>2. [v \in 0 .. Verticals[h] - 1 |-> <<h, v>>] \in Surjection(0 .. Verticals[h] - 1, VerticalSlides(h))
      BY DEF VerticalSlides, Surjection
    <2> QED
      BY <2>1, <2>2, FS_Surjection
  <1>2. IsFiniteSet(Stacks)
    BY DeckShape, FS_Subset DEF DeckShape, Stacks
  <1>3. [h \in Stacks |-> VerticalSlides(h)] \in Surjection(Stacks, {VerticalSlides(h) : h \in Stacks})
    BY DEF Surjection
  <1>4. IsFiniteSet({VerticalSlides(h) : h \in Stacks})
    BY <1>2, <1>3, FS_Surjection
  <1>5. IsFiniteSet(UNION {VerticalSlides(h) : h \in Stacks})
    BY <1>1, <1>4, FS_UNION
  <1>6. IsFiniteSet(Sections)
    BY <1>5, Shape, FS_Union DEF Sections
  <1> QED
    BY <1>6, FS_Subset DEF Leaves

LEMMA SubsetCard ==
  ASSUME NEW S, IsFiniteSet(S), NEW T, T \subseteq S
  PROVE  /\ IsFiniteSet(T) /\ Cardinality(T) \in Nat /\ Cardinality(T) <= Cardinality(S)
         /\ T # S => Cardinality(T) < Cardinality(S)
  BY FS_Subset, FS_CardinalityType

LEMMA FragmentShape ==
  ASSUME NEW l \in Leaves
  PROVE  /\ FragmentsOf(l) \subseteq Fragments /\ IsFiniteSet(FragmentsOf(l))
         /\ FragmentsOf(l) = {f \in Fragments : f[1] = l}
         /\ \A f \in FragmentsOf(l) : f = <<l, f[2]>> /\ f[1] = l /\ f[2] \in DOMAIN FragmentIndices[l]
         /\ \A f \in FragmentsOf(l) : f[2] \in Nat /\ FragmentIndices[l][f[2]] \in Nat \cup {Undef}
  <1>1. /\ FragmentsOf(l) \subseteq Fragments
        /\ FragmentsOf(l) = {f \in Fragments : f[1] = l}
        /\ \A f \in FragmentsOf(l) : f = <<l, f[2]>> /\ f[1] = l /\ f[2] \in DOMAIN FragmentIndices[l]
    BY DEF FragmentsOf, Fragments
  <1>2. FragmentIndices[l] \in Seq(Nat \cup {Undef})
    BY DeckShape DEF DeckShape
  <1>3. IsFiniteSet(DOMAIN FragmentIndices[l]) /\ DOMAIN FragmentIndices[l] \subseteq Nat
    BY <1>2, FS_Interval
  <1>4. [i \in DOMAIN FragmentIndices[l] |-> <<l, i>>] \in Surjection(DOMAIN FragmentIndices[l], FragmentsOf(l))
    BY DEF FragmentsOf, Surjection
  <1>5. IsFiniteSet(FragmentsOf(l))
    BY <1>3, <1>4, FS_Surjection
  <1> QED
    BY <1>1, <1>2, <1>3, <1>5

LEMMA FragmentOfLeaf ==
  ASSUME NEW f \in Fragments PROVE f[1] \in Leaves /\ f \in FragmentsOf(f[1])
  BY DEF Fragments, FragmentsOf

\* A finite set of integers has a greatest one: no subset is the smallest without.
LEMMA MaxExists ==
  ASSUME NEW S, IsFiniteSet(S), S # {}, S \subseteq Int
  PROVE  Max(S) \in S /\ \A x \in S : x <= Max(S)
  <1> DEFINE HasMax(U) == \E x \in U : \A y \in U : x >= y
             Bad == {U \in FiniteSubsetsOf(S) : U # {} /\ ~HasMax(U)}
  <1>1. Bad = {}
    <2> SUFFICES ASSUME Bad # {} PROVE FALSE
      OBVIOUS
    <2>1. IsWellFoundedOn(StrictSubsetOrdering(S), FiniteSubsetsOf(S))
      BY FS_StrictSubsetOrderingWellFounded
    <2>2. PICK U \in Bad : \A V \in Bad : ~(<<V, U>> \in StrictSubsetOrdering(S))
      BY <2>1, WFMin
    <2>3. PICK x \in U : TRUE
      OBVIOUS
    <2>4. U \subseteq S /\ IsFiniteSet(U)
      BY DEF FiniteSubsetsOf
    <2>5. IsFiniteSet(U \ {x})
      BY <2>4, FS_RemoveElement
    <2>6. U \ {x} \in FiniteSubsetsOf(S) /\ <<U \ {x}, U>> \in StrictSubsetOrdering(S)
      BY <2>4, <2>5 DEF FiniteSubsetsOf, StrictSubsetOrdering
    <2>7. U \ {x} = {} \/ HasMax(U \ {x})
      BY <2>2, <2>6
    <2>8. HasMax(U)
      BY <2>3, <2>4, <2>7
    <2> QED
      BY <2>8
  <1>2. S \in FiniteSubsetsOf(S)
    BY DEF FiniteSubsetsOf
  <1>3. HasMax(S)
    BY <1>1, <1>2
  <1> QED
    BY <1>3 DEF Max

-----------------------------------------------------------------------------
(* What a function leaves alone *)

Fields ==
  {"config", "indexh", "indexv", "cur", "cls", "prevV", "fidx", "visible", "curfrag", "overview",
   "paused", "overlay", "autoSlide", "autoSlidePaused", "timer", "player", "shown", "state", "root",
   "enabled", "bgCls", "bgVideo", "bgPlaying", "prevBg", "playing", "iframe", "onload", "started",
   "listeners", "overviewClicks", "touch", "hash", "hashEvent", "resetStacks", "events"}

IsDeck(d) == DOMAIN d = Fields

\* e is d but for these fields
Changes(d, e, fields) == IsDeck(e) /\ \A x \in Fields \ fields : e[x] = d[x]

LEMMA ChangesTrans ==
  ASSUME NEW d, NEW e, NEW f, NEW A, NEW B, Changes(d, e, A), Changes(e, f, B)
  PROVE  Changes(d, f, A \cup B)
  BY DEF Changes

LEMMA NewDeckIsDeck == \A config, hash : IsDeck(NewDeck(config, hash))
  BY DEF IsDeck, NewDeck, Fields

LEMMA EventChanges ==
  ASSUME NEW d, IsDeck(d), NEW type, NEW condition
  PROVE  /\ Changes(d, DispatchEvent(d, type), {"events"})
         /\ Changes(d, DispatchIf(condition, d, type), {"events"})
  BY DEF DispatchIf, DispatchEvent, Changes, IsDeck, Fields

LEMMA ControlsChanges ==
  ASSUME NEW d, IsDeck(d) PROVE Changes(d, UpdateControls(d), {"enabled"})
  BY DEF UpdateControls, Changes, IsDeck, Fields

LEMMA SortChanges ==
  ASSUME NEW d, IsDeck(d), NEW F
  PROVE  Changes(d, SortFragments(d, F), {"fidx"}) /\ Changes(d, SortAllFragments(d), {"fidx"})
  <1>1. Changes(d, SortFragments(d, F), {"fidx"})
    BY DEF SortFragments, Changes, IsDeck, Fields
  <1>2. Changes(d, SortAllFragments(d), {"fidx"})
    BY DEF SortAllFragments, Changes, IsDeck, Fields
  <1> QED
    BY <1>1, <1>2

LEMMA ShowUpToChanges ==
  ASSUME NEW d, IsDeck(d), NEW F, NEW index
  PROVE  Changes(d, ShowUpTo(d, F, index), {"visible", "curfrag"})
  BY DEF ShowUpTo, Changes, IsDeck, Fields

LEMMA SlidesChanges ==
  ASSUME NEW d, IsDeck(d), NEW S, NEW index
  PROVE  Changes(d, UpdateSlides(d, S, index), {"cls", "state", "visible", "curfrag"})
  BY DEF UpdateSlides, Hide, Show, Changes, IsDeck, Fields

LEMMA VisibilityChanges ==
  ASSUME NEW d, IsDeck(d) PROVE Changes(d, UpdateSlidesVisibility(d), {"shown", "bgVideo"})
  BY DEF UpdateSlidesVisibility, ShowSlides, Changes, IsDeck, Fields

LEMMA BackgroundChanges ==
  ASSUME NEW d, IsDeck(d), NEW all
  PROVE  /\ Changes(d, CreateBackgrounds(d), {"bgCls", "bgVideo", "bgPlaying", "prevBg"})
         /\ Changes(d, UpdateBackground(d, all), {"bgCls", "bgPlaying", "prevBg"})
  <1>1. Changes(d, CreateBackgrounds(d), {"bgCls", "bgVideo", "bgPlaying", "prevBg"})
    BY DEF CreateBackgrounds, Changes, IsDeck, Fields
  <1>2. Changes(d, UpdateBackground(d, all), {"bgCls", "bgPlaying", "prevBg"})
    BY DEF UpdateBackground, Changes, IsDeck, Fields
  <1> QED
    BY <1>1, <1>2

LEMMA ContentChanges ==
  ASSUME NEW d, IsDeck(d), NEW s
  PROVE  /\ Changes(d, StartEmbeddedContent(d, s), {"playing", "started", "onload", "iframe"})
         /\ Changes(d, StopEmbeddedContent(d, s), {"playing", "started", "onload", "iframe"})
         /\ Changes(d, IframeLoad(d, s), {"iframe", "started"})
  <1>1. Changes(d, StartEmbeddedContent(d, s), {"playing", "started", "onload", "iframe"})
    BY DEF StartEmbeddedContent, Changes, IsDeck, Fields
  <1>2. Changes(d, StopEmbeddedContent(d, s), {"playing", "started", "onload", "iframe"})
    BY DEF StopEmbeddedContent, Changes, IsDeck, Fields
  <1>3. Changes(d, IframeLoad(d, s), {"iframe", "started"})
    BY DEF IframeLoad, Changes, IsDeck, Fields
  <1> QED
    BY <1>1, <1>2, <1>3

LEMMA CueChanges ==
  ASSUME NEW d, IsDeck(d)
  PROVE  /\ Changes(d, CueAutoSlide(d), {"timer", "autoSlide", "player"})
         /\ Changes(d, CancelAutoSlide(d), {"timer"})
         /\ \A value : Changes(d, SetPlaying(d, value), {"player"})
  <1>1. Changes(d, CueAutoSlide(d), {"timer", "autoSlide", "player"})
    BY DEF CueAutoSlide, CancelAutoSlide, SetPlaying, Changes, IsDeck, Fields
  <1>2. Changes(d, CancelAutoSlide(d), {"timer"})
    BY DEF CancelAutoSlide, Changes, IsDeck, Fields
  <1>3. \A value : Changes(d, SetPlaying(d, value), {"player"})
    BY DEF SetPlaying, Changes, IsDeck, Fields
  <1> QED
    BY <1>1, <1>2, <1>3

LEMMA URLChanges ==
  ASSUME NEW d, IsDeck(d), NEW url
  PROVE  /\ Changes(d, SetHash(d, url), {"hash", "hashEvent"})
         /\ Changes(d, WriteURL(d), {"hash", "hashEvent"})
  BY DEF WriteURL, SetHash, Changes, IsDeck, Fields

LEMMA StateChanges ==
  ASSUME NEW d, IsDeck(d), NEW before PROVE Changes(d, ApplyState(d, before), {"root"})
  BY DEF ApplyState, Changes, IsDeck, Fields

LEMMA LeaveChanges ==
  ASSUME NEW d, IsDeck(d), NEW prev PROVE Changes(d, LeavePrevious(d, prev), {"cls", "resetStacks"})
  BY DEF LeavePrevious, Changes, IsDeck, Fields

LEMMA ChangesMore ==
  ASSUME NEW d, NEW e, NEW A, NEW B, Changes(d, e, A), A \subseteq B
  PROVE  Changes(d, e, B)
  BY DEF Changes

LEMMA ChangesNothing == ASSUME NEW d, IsDeck(d), NEW A PROVE Changes(d, d, A)
  BY DEF Changes

-----------------------------------------------------------------------------
(* Fragments *)

FragmentsTyped(d) ==
  /\ d.fidx \in [Fragments -> Nat \cup {Undef}]
  /\ d.visible \subseteq Fragments /\ d.curfrag \subseteq d.visible

Numbered(d) == \A f \in Fragments : d.fidx[f] \in Nat

\* Of each slide a first part of the groups is visible.
PrefixShown(d) ==
  \A f, g \in Fragments :
    f[1] = g[1] /\ f \in d.visible /\ d.fidx[g] <= d.fidx[f] => g \in d.visible

\* The fragments sorted get numbers, in the order of those they had.
LEMMA SortEffect ==
  ASSUME NEW d, IsDeck(d), FragmentsTyped(d), NEW F, F \subseteq Fragments, IsFiniteSet(F),
         NEW e, e = SortFragments(d, F)
  PROVE  /\ FragmentsTyped(e)
         /\ \A f \in F : e.fidx[f] \in Nat
         /\ \A f \in Fragments \ F : e.fidx[f] = d.fidx[f]
         /\ \A f, g \in F : d.fidx[f] \in Nat /\ d.fidx[g] \in Nat /\ e.fidx[g] <= e.fidx[f]
                              => d.fidx[g] <= d.fidx[f]
  <1> DEFINE ordered == {f \in F : d.fidx[f] # Undef}
             groups == {d.fidx[f] : f \in ordered}
             Below(n) == {g \in groups : g < n}
             Earlier(f) == {x \in F \ ordered : x[2] < f[2]}
             Index(f) == IF f \in ordered THEN Cardinality(Below(d.fidx[f]))
                         ELSE Cardinality(groups) + Cardinality(Earlier(f))
  <1>1. e.fidx = [f \in Fragments |-> IF f \in F THEN Index(f) ELSE d.fidx[f]]
    BY DEF SortFragments, IsDeck, Fields
  <1>2. e.visible = d.visible /\ e.curfrag = d.curfrag
    BY DEF SortFragments, IsDeck, Fields
  <1>3. IsFiniteSet(groups) /\ groups \subseteq Nat
    <2>1. IsFiniteSet(ordered)
      BY FS_Subset
    <2>2. [f \in ordered |-> d.fidx[f]] \in Surjection(ordered, groups)
      BY DEF Surjection
    <2>3. groups \subseteq Nat
      BY DEF FragmentsTyped, Undef
    <2> QED
      BY <2>1, <2>2, <2>3, FS_Surjection
  <1>4. \A n : IsFiniteSet(Below(n)) /\ Cardinality(Below(n)) \in Nat
    BY <1>3, FS_Subset, FS_CardinalityType
  <1>5. \A f : Cardinality(Earlier(f)) \in Nat
    BY FS_Subset, FS_CardinalityType
  <1>6. ASSUME NEW f PROVE Index(f) \in Nat
    <2>1. Cardinality(groups) \in Nat
      BY <1>3, FS_CardinalityType
    <2>2. Cardinality(Below(d.fidx[f])) \in Nat /\ Cardinality(Earlier(f)) \in Nat
      BY <1>4, <1>5
    <2>3. Cardinality(groups) + Cardinality(Earlier(f)) \in Nat
      <3> HIDE DEF groups, Earlier
      <3> QED
        BY <2>1, <2>2
    <2> QED
      BY <2>2, <2>3
  <1>7. FragmentsTyped(e)
    <2>1. ASSUME NEW f \in Fragments
          PROVE  (IF f \in F THEN Index(f) ELSE d.fidx[f]) \in Nat \cup {Undef}
      <3>1. d.fidx[f] \in Nat \cup {Undef}
        BY DEF FragmentsTyped
      <3> HIDE DEF Index
      <3> QED
        BY <1>6, <3>1
    <2> HIDE DEF Index
    <2>2. e.fidx \in [Fragments -> Nat \cup {Undef}]
      BY <1>1, <2>1
    <2> QED
      BY <1>2, <2>2 DEF FragmentsTyped
  <1>8. ASSUME NEW f \in F, NEW g \in F, d.fidx[f] \in Nat, d.fidx[g] \in Nat, d.fidx[f] < d.fidx[g]
        PROVE  e.fidx[f] < e.fidx[g]
    <2>1. f \in ordered /\ g \in ordered
      BY <1>8 DEF Undef
    <2>2. \A n \in groups : n < d.fidx[f] => n < d.fidx[g]
      <3> HIDE DEF groups
      <3> QED
        BY <1>3, <1>8
    <2>3. d.fidx[f] \in groups /\ ~(d.fidx[f] < d.fidx[f])
      BY <1>8, <2>1
    <2>4. Below(d.fidx[f]) \subseteq Below(d.fidx[g]) /\ Below(d.fidx[f]) # Below(d.fidx[g])
      <3> HIDE DEF groups
      <3>1. d.fidx[f] \in Below(d.fidx[g]) /\ d.fidx[f] \notin Below(d.fidx[f])
        BY <1>8, <2>3
      <3>2. Below(d.fidx[f]) \subseteq Below(d.fidx[g])
        BY <2>2
      <3> QED
        BY <3>1, <3>2
    <2>5. Cardinality(Below(d.fidx[f])) < Cardinality(Below(d.fidx[g]))
      <3> HIDE DEF Below
      <3> QED
        BY <1>4, <2>4, SubsetCard
    <2>6. e.fidx[f] = Cardinality(Below(d.fidx[f])) /\ e.fidx[g] = Cardinality(Below(d.fidx[g]))
      BY <1>1, <2>1
    <2> QED
      BY <2>5, <2>6
  <1>9. \A f \in F : e.fidx[f] \in Nat
    BY <1>1, <1>6
  <1>10. \A f \in Fragments \ F : e.fidx[f] = d.fidx[f]
    BY <1>1
  <1>11. ASSUME NEW f \in F, NEW g \in F, d.fidx[f] \in Nat, d.fidx[g] \in Nat, e.fidx[g] <= e.fidx[f]
         PROVE  d.fidx[g] <= d.fidx[f]
    BY <1>8, <1>9, <1>11
  <1> QED
    BY <1>7, <1>9, <1>10, <1>11

LEMMA SortAllEffect ==
  ASSUME NEW d, IsDeck(d), FragmentsTyped(d), NEW e, e = SortAllFragments(d)
  PROVE  /\ FragmentsTyped(e) /\ Numbered(e)
         /\ PrefixShown(d) /\ (Numbered(d) \/ d.visible = {} \/ d.visible = Fragments) => PrefixShown(e)
  <1> DEFINE Sorted(l) == SortFragments(d, FragmentsOf(l))
  <1>1. e.fidx = [f \in Fragments |-> Sorted(f[1]).fidx[f]] /\ e.visible = d.visible /\ e.curfrag = d.curfrag
    BY DEF SortAllFragments, IsDeck, Fields
  <1>2. ASSUME NEW f \in Fragments
        PROVE  /\ Sorted(f[1]).fidx[f] \in Nat
               /\ \A g \in Fragments : g[1] = f[1] /\ d.fidx[f] \in Nat /\ d.fidx[g] \in Nat
                    /\ Sorted(f[1]).fidx[g] <= Sorted(f[1]).fidx[f] => d.fidx[g] <= d.fidx[f]
    <2>1. f[1] \in Leaves
      BY FragmentOfLeaf
    <2>2. FragmentsOf(f[1]) = {g \in Fragments : g[1] = f[1]} /\ IsFiniteSet(FragmentsOf(f[1]))
      BY <2>1, FragmentShape
    <2>3. FragmentsOf(f[1]) \subseteq Fragments
      BY <2>2
    <2>4. PICK sorted : sorted = Sorted(f[1])
      OBVIOUS
    <2>5. /\ \A g \in FragmentsOf(f[1]) : sorted.fidx[g] \in Nat
          /\ \A g, k \in FragmentsOf(f[1]) : d.fidx[g] \in Nat /\ d.fidx[k] \in Nat
                /\ sorted.fidx[k] <= sorted.fidx[g] => d.fidx[k] <= d.fidx[g]
      <3>1. ASSUME NEW F, F = FragmentsOf(f[1])
            PROVE  /\ \A g \in F : sorted.fidx[g] \in Nat
                   /\ \A g, k \in F : d.fidx[g] \in Nat /\ d.fidx[k] \in Nat
                        /\ sorted.fidx[k] <= sorted.fidx[g] => d.fidx[k] <= d.fidx[g]
        <4>1. F \subseteq Fragments /\ IsFiniteSet(F) /\ sorted = SortFragments(d, F)
          BY <2>2, <2>3, <2>4, <3>1
        <4> QED
          BY <4>1, SortEffect
      <3> QED
        BY <3>1
    <2>6. f \in FragmentsOf(f[1]) /\ \A g \in Fragments : g[1] = f[1] => g \in FragmentsOf(f[1])
      BY <2>2
    <2> HIDE DEF Sorted
    <2> QED
      BY <2>4, <2>5, <2>6
  <1>3. FragmentsTyped(e) /\ Numbered(e)
    BY <1>1, <1>2 DEF FragmentsTyped, Numbered
  <1>4. ASSUME PrefixShown(d), Numbered(d) PROVE PrefixShown(e)
    <2> SUFFICES ASSUME NEW f \in Fragments, NEW g \in Fragments, f[1] = g[1], f \in e.visible, e.fidx[g] <= e.fidx[f]
                 PROVE  g \in e.visible
      BY DEF PrefixShown
    <2>1. e.fidx[f] = Sorted(f[1]).fidx[f] /\ e.fidx[g] = Sorted(f[1]).fidx[g]
      BY <1>1
    <2>2. d.fidx[g] <= d.fidx[f]
      BY <1>2, <1>4, <2>1 DEF Numbered
    <2> QED
      BY <1>1, <1>4, <2>2 DEF PrefixShown
  <1>5. ASSUME d.visible = {} \/ d.visible = Fragments PROVE PrefixShown(e)
    BY <1>1, <1>5 DEF PrefixShown
  <1> QED
    BY <1>3, <1>4, <1>5

-----------------------------------------------------------------------------
(* The parts of a deck that must agree, whether it has begun or not *)

\* The indices are those of the current slide.
Placed(d) ==
  /\ d.cur = None => d.indexh = Undef /\ d.indexv = Undef
  /\ d.cur # None => /\ d.indexh \in DOMAIN Verticals /\ d.indexv \in IndicesV(d.indexh)
                     /\ d.cur = GetSlide(d.indexh, d.indexv)

\* The fragments before the current slide are visible and those after it are not.
NeighboursShown(d) ==
  d.cur # None /\ d.config.fragments =>
    \A f \in Fragments : /\ Precedes(f[1], d.cur) => f \in d.visible
                         /\ Precedes(d.cur, f[1]) => f \notin d.visible

Sorted(d) == Numbered(d) /\ PrefixShown(d)

ClassesTyped(d) == d.cls \in [Sections -> {"", "past", "present", "future"}]

PastIn(d, h) == Cardinality({s \in VerticalSlides(h) : d.cls[s] = "past"})

\* The current slide is the only vertical one that is present; a stack that was
\* left is resumed where it was left, or at its start.
ClassesAgree(d) ==
  /\ ClassesTyped(d) /\ d.prevV \in [Stacks -> Nat]
  /\ \A h \in Stacks : \A s \in VerticalSlides(h) : d.cls[s] = "present" => s = d.cur
  /\ d.cur = None => \A h \in Stacks : d.prevV[h] = 0
  /\ d.cur # None =>
       /\ \A h \in DOMAIN Verticals : d.cls[<<h>>] = "present" <=> h = d.indexh
       /\ d.indexh \in Stacks => d.cls[d.cur] = "present"
       /\ \A s \in VerticalSlides(d.indexh) : d.cls[s] = "past" <=> s[2] < d.indexv
       /\ \A h \in Stacks \ {d.indexh} : d.prevV[h] \in {0, PastIn(d, h)}

\* What plays, or is going to when it has loaded, belongs to the current slide.
MediaAgree(d) ==
  /\ d.playing \cup d.started \cup d.onload \subseteq {d.cur} \ {None}
  /\ d.iframe \in [IframeSlides -> {"blank", "loading", "loaded"}]

DisplayTyped(d) == d.shown \subseteq Sections /\ d.bgVideo \subseteq VideoBackgrounds

BackgroundAgrees(d) ==
  /\ DisplayTyped(d)
  /\ d.bgPlaying \subseteq {d.prevBg} \cap ({d.cur} \ {None})
  /\ d.cur = None => d.bgVideo = {}

NamesOf(state) == {state[i] : i \in DOMAIN state}

StateAgrees(d) ==
  /\ d.state = IF d.cur = None THEN <<>> ELSE StateOf(d.cur)
  /\ NamesOnce => d.root = NamesOf(d.state)

AutoSlides == {"on", "off"}

CueTyped(d) ==
  /\ d.autoSlide \in AutoSlides /\ d.player \in {"none", "playing", "stopped"} /\ d.timer \in BOOLEAN

HashTyped(d) == d.hash.h \in Int \ {Undef} /\ d.hash.v \in Int \ {Undef}

ModesTyped(d) ==
  /\ {d.overview, d.paused, d.autoSlidePaused} \subseteq BOOLEAN
  /\ d.overlay \in {"none", "help", "preview"} /\ d.overviewClicks \in {{}, Leaves}
  /\ d.touch \in [captured : BOOLEAN, startCount : 0 .. 2]

SwitchesTyped(d) ==
  /\ ModesTyped(d) /\ CueTyped(d) /\ HashTyped(d)
  /\ d.enabled \subseteq Directions /\ d.hashEvent \in BOOLEAN /\ d.resetStacks \in BOOLEAN

Core(d) ==
  /\ IsDeck(d) /\ d.config \in ConfigType /\ SwitchesTyped(d)
  /\ Placed(d) /\ FragmentsTyped(d) /\ NeighboursShown(d)
  /\ ClassesAgree(d) /\ MediaAgree(d) /\ BackgroundAgrees(d) /\ StateAgrees(d)

\* The buttons are those of the ways that are open.
ControlsAgree(d) == d.cur # None => UpdateControls(d).enabled = d.enabled

\* The timeout is set where the deck plays, and only there.
Cued(d) ==
  LET playing == /\ d.cur # None /\ d.autoSlide = "on" /\ ~d.autoSlidePaused
                 /\ ~d.paused /\ ~d.overview
  IN /\ d.timer => playing
     /\ playing /\ ~IsLastSlide(d) => d.timer
     /\ d.timer /\ d.player # "none" => d.player = "playing"

AddressAgrees(d) ==
  IdsSurvive /\ d.cur # None /\ d.config.history /\ ~d.hashEvent
    => Target(d.hash) = <<d.indexh, d.indexv>>

\* A deck that has begun, between two handlers
Steady(d) == Core(d) /\ d.cur # None /\ Sorted(d) /\ ControlsAgree(d) /\ AddressAgrees(d)
Good(d) == Steady(d) /\ Cued(d)

-----------------------------------------------------------------------------
(* What these parts read *)

OpenControls(d) ==
  EnabledControls(AvailableRoutes(d), AvailableFragments(d), IsVerticalSlide(d.cur))

LEMMA ControlsEffect ==
  ASSUME NEW d, IsDeck(d)
  PROVE  ControlsAgree(d) <=> (d.cur # None /\ d.indexh # Undef => OpenControls(d) = d.enabled)
  BY DEF ControlsAgree, UpdateControls, OpenControls, IsDeck, Fields

LEMMA Frames ==
  ASSUME NEW d, IsDeck(d), NEW e, NEW A, Changes(d, e, A)
  PROVE  /\ A \cap {"indexh", "indexv", "cur"} = {} /\ Placed(d) => Placed(e)
         /\ A \cap {"fidx", "visible", "curfrag"} = {} /\ FragmentsTyped(d) => FragmentsTyped(e)
         /\ A \cap {"fidx", "visible"} = {} /\ Sorted(d) => Sorted(e)
         /\ A \cap {"cur", "visible", "config"} = {} /\ NeighboursShown(d) => NeighboursShown(e)
         /\ A \cap {"cur", "indexh", "indexv", "cls", "prevV"} = {} /\ ClassesAgree(d) => ClassesAgree(e)
         /\ A \cap {"cur", "playing", "started", "onload", "iframe"} = {} /\ MediaAgree(d) => MediaAgree(e)
         /\ A \cap {"cur", "shown", "bgVideo", "bgPlaying", "prevBg"} = {} /\ BackgroundAgrees(d)
              => BackgroundAgrees(e)
         /\ A \cap {"cur", "state", "root"} = {} /\ StateAgrees(d) => StateAgrees(e)
         /\ A \cap {"indexh", "indexv", "cur", "config", "visible", "enabled"} = {} /\ ControlsAgree(d)
              => ControlsAgree(e)
         /\ A \cap {"cur", "autoSlide", "autoSlidePaused", "paused", "overview", "timer", "player"} = {}
              /\ Cued(d) => Cued(e)
         /\ A \cap {"indexh", "indexv", "cur", "config", "hash", "hashEvent"} = {} /\ AddressAgrees(d)
              => AddressAgrees(e)
         /\ A \cap {"overview", "paused", "autoSlidePaused", "overlay", "overviewClicks", "touch"} = {}
              /\ ModesTyped(d) => ModesTyped(e)
  <1>1. A \cap {"indexh", "indexv", "cur"} = {} /\ Placed(d) => Placed(e)
    BY DEF Changes, Fields, Placed
  <1>2. A \cap {"fidx", "visible", "curfrag"} = {} /\ FragmentsTyped(d) => FragmentsTyped(e)
    BY DEF Changes, Fields, FragmentsTyped
  <1>3. A \cap {"fidx", "visible"} = {} /\ Sorted(d) => Sorted(e)
    BY DEF Changes, Fields, Sorted, Numbered, PrefixShown
  <1>4. A \cap {"cur", "visible", "config"} = {} /\ NeighboursShown(d) => NeighboursShown(e)
    BY DEF Changes, Fields, NeighboursShown
  <1>5. A \cap {"cur", "indexh", "indexv", "cls", "prevV"} = {} /\ ClassesAgree(d) => ClassesAgree(e)
    <2> SUFFICES ASSUME A \cap {"cur", "indexh", "indexv", "cls", "prevV"} = {}, ClassesAgree(d)
                 PROVE  ClassesAgree(e)
      OBVIOUS
    <2>1. /\ e.indexh = d.indexh /\ e.indexv = d.indexv /\ e.cur = d.cur /\ e.cls = d.cls
          /\ e.prevV = d.prevV
      BY DEF Changes, Fields
    <2>2. \A h : PastIn(e, h) = PastIn(d, h)
      BY <2>1 DEF PastIn
    <2>3. ClassesTyped(e)
      BY <2>1 DEF ClassesAgree, ClassesTyped
    <2> QED
      BY <2>1, <2>2, <2>3 DEF ClassesAgree
  <1>6. A \cap {"cur", "playing", "started", "onload", "iframe"} = {} /\ MediaAgree(d) => MediaAgree(e)
    BY DEF Changes, Fields, MediaAgree
  <1>7. A \cap {"cur", "shown", "bgVideo", "bgPlaying", "prevBg"} = {} /\ BackgroundAgrees(d)
          => BackgroundAgrees(e)
    BY DEF Changes, Fields, BackgroundAgrees, DisplayTyped
  <1>8. A \cap {"cur", "state", "root"} = {} /\ StateAgrees(d) => StateAgrees(e)
    BY DEF Changes, Fields, StateAgrees
  <1>9. A \cap {"indexh", "indexv", "cur", "config", "visible", "enabled"} = {} /\ ControlsAgree(d)
          => ControlsAgree(e)
    <2> SUFFICES ASSUME A \cap {"indexh", "indexv", "cur", "config", "visible", "enabled"} = {}, ControlsAgree(d)
                 PROVE  ControlsAgree(e)
      OBVIOUS
    <2>1. /\ e.indexh = d.indexh /\ e.indexv = d.indexv /\ e.cur = d.cur /\ e.config = d.config
          /\ e.visible = d.visible /\ e.enabled = d.enabled
      BY DEF Changes, Fields
    <2>2. AvailableRoutes(e) = AvailableRoutes(d) /\ AvailableFragments(e) = AvailableFragments(d)
      BY <2>1 DEF AvailableRoutes, AvailableFragments
    <2>3. OpenControls(e) = OpenControls(d)
      BY <2>1, <2>2 DEF OpenControls
    <2>4. d.enabled = e.enabled /\ d.cur = e.cur /\ d.indexh = e.indexh
      BY <2>1
    <2> QED
      BY <2>3, <2>4, ControlsEffect DEF Changes
  <1>10. A \cap {"cur", "autoSlide", "autoSlidePaused", "paused", "overview", "timer", "player"} = {}
           /\ Cued(d) => Cued(e)
    BY DEF Changes, Fields, Cued, IsLastSlide
  <1>12. A \cap {"overview", "paused", "autoSlidePaused", "overlay", "overviewClicks", "touch"} = {}
           /\ ModesTyped(d) => ModesTyped(e)
    BY DEF Changes, Fields, ModesTyped
  <1>11. A \cap {"indexh", "indexv", "cur", "config", "hash", "hashEvent"} = {} /\ AddressAgrees(d)
           => AddressAgrees(e)
    BY DEF Changes, Fields, AddressAgrees
  <1> QED
    BY <1>1, <1>2, <1>3, <1>4, <1>5, <1>6, <1>7, <1>8, <1>9, <1>10, <1>11, <1>12

-----------------------------------------------------------------------------
(* Indices *)

LEMMA MaxMin ==
  ASSUME NEW a \in Int, NEW b \in Int
  PROVE  Max({a, b}) = (IF a < b THEN b ELSE a) /\ Min({a, b}) = (IF a < b THEN a ELSE b)
  <1>1. Max({a, b}) = (IF a < b THEN b ELSE a)
    <2>1. \E x \in {a, b} : \A y \in {a, b} : x >= y
      OBVIOUS
    <2>2. Max({a, b}) \in {a, b} /\ \A y \in {a, b} : Max({a, b}) >= y
      BY <2>1 DEF Max
    <2> QED
      BY <2>2
  <1>2. Min({a, b}) = (IF a < b THEN a ELSE b)
    <2>1. \E x \in {a, b} : \A y \in {a, b} : x <= y
      OBVIOUS
    <2>2. Min({a, b}) \in {a, b} /\ \A y \in {a, b} : Min({a, b}) <= y
      BY <2>1 DEF Min
    <2> QED
      BY <2>2
  <1> QED
    BY <1>1, <1>2

\* An index is brought into its range, and one that is there is left alone.
LEMMA BoundedEffect ==
  ASSUME NEW d, NEW i \in Int, NEW n \in Nat
  PROVE  /\ n = 0 => Bounded(d, i, n) = 0
         /\ n # 0 => Bounded(d, i, n) \in 0 .. n - 1
         /\ i \in 0 .. n - 1 => Bounded(d, i, n) = i
  <1>1. CASE n = 0
    BY <1>1 DEF Bounded
  <1>2. CASE n # 0
    <2> DEFINE j == IF d.config.loop THEN i % n ELSE i
    <2>1. j \in Int /\ (i \in 0 .. n - 1 => j = i)
      <3>1. i % n \in Int /\ (i \in 0 .. n - 1 => i % n = i)
        BY <1>2
      <3> QED
        BY <3>1
    <2>2. Bounded(d, i, n) = Max({Min({j, n - 1}), 0})
      BY <1>2 DEF Bounded
    <2> HIDE DEF j
    <2>3. Min({j, n - 1}) = IF j < n - 1 THEN j ELSE n - 1
      <3>1. n - 1 \in Int /\ j \in Int
        BY <2>1
      <3> QED
        BY <3>1, MaxMin
    <2>4. Min({j, n - 1}) \in Int
      BY <2>1, <2>3
    <2>5. Bounded(d, i, n) = IF Min({j, n - 1}) < 0 THEN 0 ELSE Min({j, n - 1})
      <3>1. 0 \in Int
        OBVIOUS
      <3> QED
        BY <2>2, <2>4, <3>1, MaxMin
    <2> QED
      BY <1>2, <2>1, <2>3, <2>5
  <1> QED
    BY <1>1, <1>2

LEMMA PreviousShape ==
  ASSUME NEW d, d.prevV \in [Stacks -> Nat], NEW h
  PROVE  GetPreviousVerticalIndex(d, h) \in Nat
  BY IndexShape, DeckShape DEF DeckShape, GetPreviousVerticalIndex, Undef

LEMMA PlacedShape ==
  ASSUME NEW d, Placed(d)
  PROVE  /\ d.indexh \in Int /\ d.indexv \in Int /\ d.cur \in Leaves \cup {None}
         /\ d.indexh \in {Undef} \cup DOMAIN Verticals /\ d.indexv \in {Undef} \cup Nat
         /\ d.cur # None => /\ d.indexh \in Nat /\ d.indexv \in Nat /\ d.cur \in Leaves
                            /\ d.indexh # Undef /\ d.indexv # Undef /\ d.cur[1] = d.indexh
                            /\ IsVerticalSlide(d.cur) <=> d.indexh \in Stacks
                            /\ d.indexh \in Stacks => d.cur = <<d.indexh, d.indexv>>
                            /\ d.indexh \notin Stacks => d.cur = <<d.indexh>> /\ d.indexv = 0
  BY IndexShape, SlideShape DEF Placed, Undef, IndicesV, GetSlide

\* A vertical slide is never a horizontal one.
LEMMA SectionsDisjoint ==
  \A h, v, k : <<h, v>> # <<k>> /\ Len(<<k>>) = 1 /\ Len(<<h, v>>) = 2
  OBVIOUS

-----------------------------------------------------------------------------
(* The controls and the fragments of the current slide *)

LEMMA UpdateControlsEffect ==
  ASSUME NEW d, IsDeck(d), d.enabled \subseteq Directions, NEW e, e = UpdateControls(d)
  PROVE  /\ Changes(d, e, {"enabled"}) /\ e.enabled \subseteq Directions
         /\ ControlsAgree(e)
  <1>1. Changes(d, e, {"enabled"})
    BY ControlsChanges
  <1>2. e.enabled = IF d.indexh = Undef THEN d.enabled ELSE OpenControls(d)
    BY DEF UpdateControls, OpenControls, IsDeck, Fields
  <1>3. OpenControls(d) \subseteq Directions
    BY DEF OpenControls, EnabledControls, Directions
  <1>4. /\ e.indexh = d.indexh /\ e.indexv = d.indexv /\ e.cur = d.cur /\ e.config = d.config
        /\ e.visible = d.visible
    BY <1>1 DEF Changes, Fields
  <1>5. AvailableRoutes(e) = AvailableRoutes(d) /\ AvailableFragments(e) = AvailableFragments(d)
    BY <1>4 DEF AvailableRoutes, AvailableFragments
  <1>6. OpenControls(e) = OpenControls(d)
    BY <1>4, <1>5 DEF OpenControls
  <1>7. IsDeck(e)
    BY <1>1 DEF Changes
  <1> QED
    BY <1>1, <1>2, <1>3, <1>4, <1>6, <1>7, ControlsEffect

\* The order of the fragments is kept on the other slides.
PrefixShownBut(d, l) ==
  \A f, g \in Fragments :
    f[1] # l /\ f[1] = g[1] /\ f \in d.visible /\ d.fidx[g] <= d.fidx[f] => g \in d.visible

LEMMA ShowUpToEffect ==
  ASSUME NEW d, IsDeck(d), FragmentsTyped(d), Numbered(d), NEW l \in Leaves, PrefixShownBut(d, l),
         NEW index \in Int, NEW e, e = ShowUpTo(d, FragmentsOf(l), index)
  PROVE  /\ Changes(d, e, {"visible", "curfrag"}) /\ FragmentsTyped(e) /\ Sorted(e)
         /\ \A f \in Fragments : f[1] # l => (f \in e.visible <=> f \in d.visible)
  <1> DEFINE F == FragmentsOf(l)
  <1>1. Changes(d, e, {"visible", "curfrag"})
    BY ShowUpToChanges
  <1>2. /\ e.fidx = d.fidx
        /\ e.visible = (d.visible \ F) \cup {f \in F : d.fidx[f] <= index}
        /\ e.curfrag = (d.curfrag \ F) \cup {f \in F : d.fidx[f] = index}
    BY DEF ShowUpTo, IsDeck, Fields
  <1>3. F \subseteq Fragments /\ F = {f \in Fragments : f[1] = l}
    BY FragmentShape
  <1>4. \A f \in Fragments : d.fidx[f] \in Nat
    BY DEF Numbered
  <1> HIDE DEF F
  <1>5. \A f \in F : d.fidx[f] = index => d.fidx[f] <= index
    BY <1>3, <1>4
  <1>6. FragmentsTyped(e)
    BY <1>2, <1>3, <1>5 DEF FragmentsTyped
  <1>7. \A f \in Fragments : f[1] # l => (f \in e.visible <=> f \in d.visible)
    BY <1>2, <1>3
  <1>8. \A f \in Fragments : f[1] = l => (f \in e.visible <=> d.fidx[f] <= index)
    BY <1>2, <1>3
  <1>9. PrefixShown(e)
    <2> SUFFICES ASSUME NEW f \in Fragments, NEW g \in Fragments, f[1] = g[1], f \in e.visible, e.fidx[g] <= e.fidx[f]
                 PROVE  g \in e.visible
      BY DEF PrefixShown
    <2>1. CASE f[1] = l
      <3>1. d.fidx[f] <= index /\ d.fidx[g] <= d.fidx[f] /\ d.fidx[f] \in Int /\ d.fidx[g] \in Int
        BY <1>2, <1>4, <1>8, <2>1
      <3>2. d.fidx[g] <= index
        BY <3>1
      <3> QED
        BY <1>8, <2>1, <3>2
    <2>2. CASE f[1] # l
      BY <1>2, <1>7, <2>2 DEF PrefixShownBut
    <2> QED
      BY <2>1, <2>2
  <1> QED
    BY <1>1, <1>2, <1>4, <1>6, <1>7, <1>9 DEF Sorted, Numbered

LEMMA SortSomeEffect ==
  ASSUME NEW d, IsDeck(d), FragmentsTyped(d), Numbered(d), NEW l \in Leaves, PrefixShownBut(d, l),
         NEW F, F \subseteq FragmentsOf(l), NEW e, e = SortFragments(d, F)
  PROVE  /\ Changes(d, e, {"fidx"}) /\ FragmentsTyped(e) /\ Numbered(e) /\ e.visible = d.visible
         /\ PrefixShownBut(e, l)
  <1>1. F \subseteq Fragments /\ IsFiniteSet(F) /\ FragmentsOf(l) = {f \in Fragments : f[1] = l}
    BY FragmentShape, FS_Subset
  <1>2. Changes(d, e, {"fidx"}) /\ e.visible = d.visible
    BY SortChanges DEF SortFragments, IsDeck, Fields
  <1>3. /\ FragmentsTyped(e)
        /\ \A f \in F : e.fidx[f] \in Nat
        /\ \A f \in Fragments \ F : e.fidx[f] = d.fidx[f]
    BY <1>1, SortEffect
  <1>4. Numbered(e)
    BY <1>1, <1>3 DEF Numbered
  <1>5. PrefixShownBut(e, l)
    BY <1>1, <1>2, <1>3 DEF PrefixShownBut
  <1> QED
    BY <1>2, <1>3, <1>4, <1>5

IndexTyped(index) == index.set => index.to \in Int

\* navigateFragment changes the fragments of the current slide alone, and shows
\* a first part of them.
LEMMA NavigateEffect ==
  ASSUME NEW d, IsDeck(d), FragmentsTyped(d), Sorted(d), d.cur \in Leaves, d.enabled \subseteq Directions,
         NEW index, IndexTyped(index), NEW offset \in Int, NEW e, e = NavigateFragment(d, index, offset)
  PROVE  /\ Changes(d, e, {"fidx", "visible", "curfrag", "enabled", "events"})
         /\ FragmentsTyped(e) /\ Sorted(e) /\ e.enabled \subseteq Directions
         /\ ~d.config.fragments => e = d
         /\ \A f \in Fragments : f[1] # d.cur => (f \in e.visible <=> f \in d.visible)
         /\ ControlsAgree(d) => ControlsAgree(e)
  <1> DEFINE l == d.cur
             F == FragmentsOf(l)
             a == SortFragments(d, F)
             b == SortFragments(a, F \cap a.visible)
             seen == F \cap a.visible
             last == IF F \cap b.visible = {} THEN -1 ELSE Max({b.fidx[f] : f \in F \cap b.visible})
             c == IF index.set THEN ShowUpTo(a, F, index.to + offset) ELSE ShowUpTo(b, F, last + offset)
             g == FragmentEvents(d, c)
  <1>1. CASE ~d.config.fragments \/ F = {}
    <2>1. e = d
      BY <1>1 DEF NavigateFragment
    <2> QED
      BY <2>1, ChangesNothing
  <1>2. CASE d.config.fragments /\ F # {}
    <2>1. e = UpdateControls(g)
      BY <1>2 DEF NavigateFragment, ShowFromLast
    <2>2. PrefixShownBut(d, l) /\ Numbered(d)
      BY DEF Sorted, PrefixShown, PrefixShownBut
    <2>3. F \subseteq Fragments /\ IsFiniteSet(F)
      BY FragmentShape
    <2> HIDE DEF F
    <2>4. /\ Changes(d, a, {"fidx"}) /\ FragmentsTyped(a) /\ Numbered(a) /\ a.visible = d.visible
          /\ PrefixShownBut(a, l)
      BY <2>2, SortSomeEffect DEF F
    <2> HIDE DEF a
    <2>5. IsDeck(a)
      BY <2>4 DEF Changes
    <2>6. /\ Changes(a, b, {"fidx"}) /\ FragmentsTyped(b) /\ Numbered(b) /\ b.visible = a.visible
          /\ PrefixShownBut(b, l)
      <3>1. F \cap a.visible \subseteq FragmentsOf(l)
        BY DEF F
      <3> QED
        BY <2>4, <2>5, <3>1, SortSomeEffect
    <2>7. IsDeck(b)
      BY <2>6 DEF Changes
    <2> HIDE DEF b
    <2>8. last \in Int
      <3> DEFINE T == F \cap b.visible
                 N == {b.fidx[f] : f \in T}
      <3>1. IsFiniteSet(T) /\ T \subseteq Fragments
        BY <2>3, FS_Subset
      <3>2. [f \in T |-> b.fidx[f]] \in Surjection(T, N)
        BY DEF Surjection
      <3>3. IsFiniteSet(N) /\ N \subseteq Int
        BY <2>6, <3>1, <3>2, FS_Surjection DEF Numbered
      <3>4. T # {} => N # {}
        OBVIOUS
      <3>5. last = IF T = {} THEN -1 ELSE Max(N)
        OBVIOUS
      <3> HIDE DEF T, N, last
      <3> QED
        BY <3>3, <3>4, <3>5, MaxExists
    <2> HIDE DEF last
    <2>9. /\ IsDeck(c) /\ FragmentsTyped(c) /\ Sorted(c) /\ Changes(d, c, {"fidx", "visible", "curfrag"})
          /\ \A f \in Fragments : f[1] # l => (f \in c.visible <=> f \in d.visible)
      <3>1. CASE index.set
        <4>1. c = ShowUpTo(a, FragmentsOf(l), index.to + offset) /\ index.to + offset \in Int
          BY <3>1 DEF F, IndexTyped
        <4>2. /\ Changes(a, c, {"visible", "curfrag"}) /\ FragmentsTyped(c) /\ Sorted(c)
              /\ \A f \in Fragments : f[1] # l => (f \in c.visible <=> f \in a.visible)
          BY <2>4, <2>5, <4>1, ShowUpToEffect
        <4> QED
          BY <2>4, <4>2 DEF Changes
      <3>2. CASE ~index.set
        <4>1. c = ShowUpTo(b, FragmentsOf(l), last + offset) /\ last + offset \in Int
          BY <2>8, <3>2 DEF F
        <4>2. /\ Changes(b, c, {"visible", "curfrag"}) /\ FragmentsTyped(c) /\ Sorted(c)
              /\ \A f \in Fragments : f[1] # l => (f \in c.visible <=> f \in b.visible)
          BY <2>6, <2>7, <4>1, ShowUpToEffect
        <4> QED
          BY <2>4, <2>6, <4>2 DEF Changes
      <3> QED
        BY <3>1, <3>2
    <2> HIDE DEF c
    <2>10. Changes(c, g, {"events"})
      <3>1. \A x : IsDeck(x) => \A condition, type : IsDeck(DispatchIf(condition, x, type))
              /\ Changes(x, DispatchIf(condition, x, type), {"events"})
        BY EventChanges DEF Changes
      <3> QED
        BY <2>9, <3>1 DEF FragmentEvents, Changes
    <2>11. IsDeck(g) /\ g.enabled = d.enabled /\ FragmentsTyped(g) /\ Sorted(g) /\ g.visible = c.visible
      <3>1. IsDeck(g) /\ g.enabled = c.enabled /\ g.visible = c.visible
        BY <2>10 DEF Changes, Fields
      <3>2. FragmentsTyped(g) /\ Sorted(g)
        BY <2>9, <2>10, Frames
      <3>3. c.enabled = d.enabled
        BY <2>9 DEF Changes, Fields
      <3> QED
        BY <3>1, <3>2, <3>3
    <2> HIDE DEF g
    <2>12. Changes(g, e, {"enabled"}) /\ e.enabled \subseteq Directions /\ ControlsAgree(e)
      BY <2>1, <2>11, UpdateControlsEffect
    <2>13. FragmentsTyped(e) /\ Sorted(e) /\ e.visible = g.visible
      <3>1. e.visible = g.visible
        BY <2>12 DEF Changes, Fields
      <3> QED
        BY <2>11, <2>12, <3>1, Frames
    <2>14. Changes(d, e, {"fidx", "visible", "curfrag", "enabled", "events"})
      BY <2>9, <2>10, <2>12 DEF Changes
    <2> QED
      BY <1>2, <2>9, <2>11, <2>12, <2>13, <2>14
  <1> QED
    BY <1>1, <1>2

-----------------------------------------------------------------------------
(* Marking the sections *)

LEMMA FirstOfSeq ==
  ASSUME NEW s PROVE SubSeq(s, 1, 1) = <<s[1]>>
  <1> DEFINE t == SubSeq(s, 1, 1)
  <1>1. 1 \in Int /\ \A i \in 1 .. 1 : s[i] \in {s[1]}
    OBVIOUS
  <1>2. t \in Seq({s[1]})
    BY <1>1, SubSeqProperties
  <1>3. Len(t) = 1 /\ t[1] = s[1]
    BY <1>1, SubSeqProperties
  <1>4. <<s[1]>> \in Seq({s[1]}) /\ Len(<<s[1]>>) = 1 /\ <<s[1]>>[1] = s[1]
    OBVIOUS
  <1> HIDE DEF t
  <1>5. t = <<s[1]>>
    BY <1>2, <1>3, <1>4, SeqEqual
  <1> QED
    BY <1>5 DEF t

LEMMA WithinHorizontal ==
  ASSUME NEW S, S \subseteq HorizontalSlides, NEW f \in Fragments
  PROVE  f \in FragmentsWithin(S) <=> <<f[1][1]>> \in S
  <1>1. f[1] \in Leaves
    BY FragmentOfLeaf
  <1>2. f[1] = <<f[1][1]>> \/ f[1] = <<f[1][1], f[1][2]>>
    BY <1>1, LeafShape
  <1>3. SubSeq(f[1], 1, 1) = <<f[1][1]>>
    BY FirstOfSeq
  <1>4. f[1] \in S => f[1] = <<f[1][1]>>
    BY HorizontalShape
  <1> QED
    BY <1>3, <1>4 DEF FragmentsWithin

LEMMA WithinVertical ==
  ASSUME NEW h \in DOMAIN Verticals, NEW S, S \subseteq VerticalSlides(h), NEW f \in Fragments
  PROVE  f \in FragmentsWithin(S) <=> f[1] \in S
  <1>1. f[1] \in Leaves
    BY FragmentOfLeaf
  <1>2. f[1] = <<f[1][1]>> \/ f[1] = <<f[1][1], f[1][2]>>
    BY <1>1, LeafShape
  <1>3. SubSeq(f[1], 1, 1) = <<f[1][1]>>
    BY FirstOfSeq
  <1>4. \A s \in S : Len(s) = 2
    BY VerticalShape
  <1>5. SubSeq(f[1], 1, 1) \notin S
    <2>1. PICK q : q = SubSeq(f[1], 1, 1)
      OBVIOUS
    <2>2. Len(<<f[1][1]>>) = 1
      OBVIOUS
    <2>3. Len(q) = 1
      BY <1>3, <2>1, <2>2
    <2>4. q \notin S
      BY <1>4, <2>3
    <2> QED
      BY <2>1, <2>4
  <1> QED
    BY <1>5 DEF FragmentsWithin

\* Whole slides are shown and hidden, so that of each slide a first part stays visible.
LEMMA ShowHideEffect ==
  ASSUME NEW d, IsDeck(d), FragmentsTyped(d), Sorted(d), NEW A, NEW B,
         \A f, g \in Fragments : f[1] = g[1] => /\ f \in FragmentsWithin(A) <=> g \in FragmentsWithin(A)
                                                /\ f \in FragmentsWithin(B) <=> g \in FragmentsWithin(B),
         NEW e, e = Hide(Show(d, FragmentsWithin(A)), FragmentsWithin(B))
  PROVE  /\ Changes(d, e, {"visible", "curfrag"}) /\ FragmentsTyped(e) /\ Sorted(e)
         /\ e.visible = (d.visible \cup FragmentsWithin(A)) \ FragmentsWithin(B)
  <1>1. Changes(d, e, {"visible", "curfrag"})
    BY DEF Hide, Show, Changes, IsDeck, Fields
  <1>2. /\ e.visible = (d.visible \cup FragmentsWithin(A)) \ FragmentsWithin(B)
        /\ e.curfrag \subseteq d.curfrag \ FragmentsWithin(B)
        /\ e.fidx = d.fidx
    BY DEF Hide, Show, IsDeck, Fields
  <1>3. FragmentsWithin(A) \subseteq Fragments /\ FragmentsWithin(B) \subseteq Fragments
    BY DEF FragmentsWithin
  <1>4. FragmentsTyped(e)
    BY <1>2, <1>3 DEF FragmentsTyped
  <1>5. Sorted(e)
    <2> SUFFICES ASSUME NEW f \in Fragments, NEW g \in Fragments, f[1] = g[1], f \in e.visible, e.fidx[g] <= e.fidx[f]
                 PROVE  g \in e.visible
      BY <1>2 DEF Sorted, Numbered, PrefixShown
    <2> QED
      BY <1>2, <1>3 DEF Sorted, PrefixShown
  <1> QED
    BY <1>1, <1>2, <1>4, <1>5

\* The classes of the horizontal slides tell those before h from the others.
Aside(d, h) ==
  \A k \in DOMAIN Verticals : d.cls[<<k>>] = (IF d.config.rtl THEN "future" ELSE "past") <=> k < h

\* What updateSlides does to the horizontal slides, and to those of one stack
MarkedHorizontally(d, e, h) ==
  /\ Changes(d, e, {"cls", "state", "visible", "curfrag"})
  /\ FragmentsTyped(e) /\ Sorted(e) /\ ClassesTyped(e) /\ e.state = d.state \o DataState[<<h>>]
  /\ \A k \in DOMAIN Verticals : e.cls[<<k>>] = "present" <=> k = h
  /\ Aside(e, h)
  /\ \A s \in Sections \ HorizontalSlides : e.cls[s] = d.cls[s]
  /\ d.config.fragments =>
       \A f \in Fragments : /\ f[1][1] < h => f \in e.visible
                            /\ f[1][1] > h => f \notin e.visible
                            /\ f[1][1] = h => (f \in e.visible <=> f \in d.visible)

MarkedVertically(d, e, h, v) ==
  /\ Changes(d, e, {"cls", "state", "visible", "curfrag"})
  /\ FragmentsTyped(e) /\ Sorted(e) /\ ClassesTyped(e) /\ e.state = d.state \o DataState[<<h, v>>]
  /\ \A s \in VerticalSlides(h) : /\ e.cls[s] = "present" <=> s[2] = v
                                  /\ e.cls[s] = "past" <=> s[2] < v
  /\ \A s \in Sections \ VerticalSlides(h) : e.cls[s] = d.cls[s]
  /\ d.config.fragments =>
       \A f \in Fragments :
         IF f[1] \in VerticalSlides(h)
         THEN /\ f[1][2] < v => f \in e.visible
              /\ f[1][2] > v => f \notin e.visible
              /\ f[1][2] = v => (f \in e.visible <=> f \in d.visible)
         ELSE f \in e.visible <=> f \in d.visible

LEMMA MarkHorizontal ==
  ASSUME NEW d, IsDeck(d), FragmentsTyped(d), Sorted(d), ClassesTyped(d),
         NEW h \in DOMAIN Verticals, NEW e, e = UpdateSlides(d, HorizontalSlides, h)
  PROVE  MarkedHorizontally(d, e, h)
  <1> DEFINE At(s) == s[Len(s)]
             before == {s \in HorizontalSlides : At(s) < h}
             after == {s \in HorizontalSlides : At(s) > h}
             shown == Hide(Show(d, FragmentsWithin(before)), FragmentsWithin(after))
  <1>1. \A k : At(<<k>>) = k
    OBVIOUS
  <1>2. /\ \A k \in DOMAIN Verticals : k \in Int /\ <<k>> \in HorizontalSlides
        /\ HorizontalSlides \subseteq Sections /\ h \in Int
    <2>1. \A k \in DOMAIN Verticals : k \in Int
      BY IndexShape
    <2> QED
      BY <2>1, SectionShape
  <1>3. /\ \A k \in DOMAIN Verticals : /\ <<k>> \in before <=> k < h
                                       /\ <<k>> \in after <=> k > h
        /\ before \subseteq HorizontalSlides /\ after \subseteq HorizontalSlides
    BY <1>1, <1>2
  <1>4. (CHOOSE s \in HorizontalSlides : At(s) = h) = <<h>>
    <2>1. \A s \in HorizontalSlides : At(s) = h <=> s = <<h>>
      BY <1>1, HorizontalShape
    <2> QED
      BY <1>2, <2>1
  <1>5. HorizontalSlides # {}
    BY <1>2
  <1>6. /\ e.state = d.state \o DataState[<<h>>]
        /\ e.cls = [s \in Sections |->
             IF s \in before THEN IF d.config.rtl /\ ~IsVerticalSlide(s) THEN "future" ELSE "past"
             ELSE IF s \in after THEN IF d.config.rtl /\ ~IsVerticalSlide(s) THEN "past" ELSE "future"
             ELSE IF s \in HorizontalSlides THEN "present" ELSE d.cls[s]]
        /\ e.fidx = d.fidx
        /\ d.config.fragments => e.visible = shown.visible /\ e.curfrag = shown.curfrag
        /\ ~d.config.fragments => e.visible = d.visible /\ e.curfrag = d.curfrag
    BY <1>4, <1>5 DEF UpdateSlides, Hide, Show, IsDeck, Fields
  <1> HIDE DEF before, after, At
  <1>7. Changes(d, e, {"cls", "state", "visible", "curfrag"})
    BY SlidesChanges
  <1>8. /\ ClassesTyped(e)
        /\ \A s \in Sections \ HorizontalSlides : e.cls[s] = d.cls[s]
    <2>1. \A s \in Sections : e.cls[s] \in {"past", "present", "future", d.cls[s]}
      BY <1>6
    <2>2. \A s \in Sections : e.cls[s] \in {"", "past", "present", "future"}
      BY <2>1 DEF ClassesTyped
    <2>3. \A s \in Sections \ HorizontalSlides : s \notin before /\ s \notin after
      BY <1>3
    <2>4. DOMAIN e.cls = Sections /\ e.cls = [s \in Sections |-> e.cls[s]]
      BY <1>6
    <2> QED
      BY <1>6, <2>2, <2>3, <2>4 DEF ClassesTyped
  <1>9. ASSUME NEW k \in DOMAIN Verticals PROVE e.cls[<<k>>] = "present" <=> k = h
    <2>1. <<k>> \in Sections /\ <<k>> \in HorizontalSlides /\ k \in Int /\ h \in Int
      BY <1>2
    <2>2. CASE k < h
      BY <1>3, <1>6, <2>1, <2>2
    <2>3. CASE k > h
      <3>1. <<k>> \notin before /\ <<k>> \in after /\ k # h
        BY <1>3, <2>1, <2>3
      <3> QED
        BY <1>6, <2>1, <3>1
    <2>4. CASE k = h
      <3>1. <<k>> \notin before /\ <<k>> \notin after
        BY <1>3, <2>1, <2>4
      <3> QED
        BY <1>6, <2>1, <2>4, <3>1
    <2> QED
      BY <2>1, <2>2, <2>3, <2>4
  <1>17. Aside(e, h)
    <2> SUFFICES ASSUME NEW k \in DOMAIN Verticals
                 PROVE  e.cls[<<k>>] = (IF d.config.rtl THEN "future" ELSE "past") <=> k < h
      <3>1. e.config = d.config
        BY <1>7 DEF Changes, Fields
      <3> QED
        BY <3>1 DEF Aside
    <2>1. <<k>> \in Sections /\ <<k>> \in HorizontalSlides /\ k \in Int /\ h \in Int
      BY <1>2
    <2>2. ~IsVerticalSlide(<<k>>)
      BY <2>1, HorizontalShape
    <2>3. e.cls[<<k>>] = IF k < h THEN IF d.config.rtl THEN "future" ELSE "past"
                         ELSE IF k > h THEN IF d.config.rtl THEN "past" ELSE "future" ELSE "present"
      BY <1>3, <1>6, <2>1, <2>2
    <2> QED
      BY <2>1, <2>3
  <1>10. \A f \in Fragments : f[1][1] \in DOMAIN Verticals
    BY FragmentOfLeaf, LeafShape
  <1>11. \A f \in Fragments : /\ f \in FragmentsWithin(before) <=> f[1][1] < h
                              /\ f \in FragmentsWithin(after) <=> f[1][1] > h
    BY <1>3, <1>10, WithinHorizontal
  <1>12. \A f, g \in Fragments : f[1] = g[1] =>
            /\ f \in FragmentsWithin(before) <=> g \in FragmentsWithin(before)
            /\ f \in FragmentsWithin(after) <=> g \in FragmentsWithin(after)
    BY <1>11
  <1>13. /\ Changes(d, shown, {"visible", "curfrag"}) /\ FragmentsTyped(shown) /\ Sorted(shown)
         /\ shown.visible = (d.visible \cup FragmentsWithin(before)) \ FragmentsWithin(after)
    <2>1. shown = Hide(Show(d, FragmentsWithin(before)), FragmentsWithin(after))
      OBVIOUS
    <2> HIDE DEF shown
    <2> QED
      BY <1>12, <2>1, ShowHideEffect
  <1>14. shown.fidx = d.fidx
    BY <1>13 DEF Changes, Fields
  <1> HIDE DEF shown
  <1>15. CASE d.config.fragments
    <2>1. FragmentsTyped(e) /\ Sorted(e)
      BY <1>6, <1>13, <1>14, <1>15 DEF FragmentsTyped, Sorted, Numbered, PrefixShown
    <2>2. \A f \in Fragments : /\ f[1][1] < h => f \in e.visible
                               /\ f[1][1] > h => f \notin e.visible
                               /\ f[1][1] = h => (f \in e.visible <=> f \in d.visible)
      <3> SUFFICES ASSUME NEW f \in Fragments
                   PROVE  /\ f[1][1] < h => f \in e.visible
                          /\ f[1][1] > h => f \notin e.visible
                          /\ f[1][1] = h => (f \in e.visible <=> f \in d.visible)
        OBVIOUS
      <3>1. f[1][1] \in Int /\ h \in Int
        BY <1>2, <1>10
      <3>2. /\ f \in FragmentsWithin(before) <=> f[1][1] < h
            /\ f \in FragmentsWithin(after) <=> f[1][1] > h
        BY <1>11
      <3>3. f \in e.visible <=> (f \in d.visible \/ f \in FragmentsWithin(before)) /\ f \notin FragmentsWithin(after)
        BY <1>6, <1>13, <1>15
      <3> QED
        BY <3>1, <3>2, <3>3
    <2> QED
      BY <1>6, <1>7, <1>8, <1>9, <1>15, <1>17, <2>1, <2>2 DEF MarkedHorizontally
  <1>16. CASE ~d.config.fragments
    <2>1. FragmentsTyped(e) /\ Sorted(e)
      BY <1>6, <1>16 DEF FragmentsTyped, Sorted, Numbered, PrefixShown
    <2> QED
      BY <1>6, <1>7, <1>8, <1>9, <1>16, <1>17, <2>1 DEF MarkedHorizontally
  <1> QED
    BY <1>15, <1>16

LEMMA MarkVertical ==
  ASSUME NEW d, IsDeck(d), FragmentsTyped(d), Sorted(d), ClassesTyped(d),
         NEW h \in Stacks, NEW v \in 0 .. Verticals[h] - 1, NEW e, e = UpdateSlides(d, VerticalSlides(h), v)
  PROVE  MarkedVertically(d, e, h, v)
  <1> DEFINE At(s) == s[Len(s)]
             S == VerticalSlides(h)
             before == {s \in S : At(s) < v}
             after == {s \in S : At(s) > v}
             shown == Hide(Show(d, FragmentsWithin(before)), FragmentsWithin(after))
  <1>1. /\ h \in DOMAIN Verticals /\ v \in Int
        /\ \A s \in S : At(s) = s[2] /\ s = <<h, s[2]>> /\ s[2] \in Int /\ IsVerticalSlide(s)
    <2>1. h \in DOMAIN Verticals /\ \A w \in IndicesV(h) : w \in Int
      BY IndexShape
    <2> QED
      BY <2>1, VerticalShape DEF IsVerticalSlide
  <1>2. S \subseteq Sections /\ <<h, v>> \in S
    BY <1>1, SectionShape DEF VerticalSlides
  <1>3. \A s \in Sections : /\ s \in before <=> s \in S /\ s[2] < v
                            /\ s \in after <=> s \in S /\ s[2] > v
    BY <1>1
  <1>4. (CHOOSE s \in S : At(s) = v) = <<h, v>>
    <2>1. \A s \in S : At(s) = v <=> s = <<h, v>>
      <3>1. \A s \in S : s[2] = v => s = <<h, v>>
        BY <1>1
      <3>2. At(<<h, v>>) = v
        BY <1>1, <1>2
      <3> QED
        BY <1>1, <3>1, <3>2
    <2> QED
      BY <1>2, <2>1
  <1>5. /\ e.state = d.state \o DataState[<<h, v>>]
        /\ e.cls = [s \in Sections |->
             IF s \in before THEN IF d.config.rtl /\ ~IsVerticalSlide(s) THEN "future" ELSE "past"
             ELSE IF s \in after THEN IF d.config.rtl /\ ~IsVerticalSlide(s) THEN "past" ELSE "future"
             ELSE IF s \in S THEN "present" ELSE d.cls[s]]
        /\ e.fidx = d.fidx
        /\ d.config.fragments => e.visible = shown.visible /\ e.curfrag = shown.curfrag
        /\ ~d.config.fragments => e.visible = d.visible /\ e.curfrag = d.curfrag
    BY <1>2, <1>4 DEF UpdateSlides, Hide, Show, IsDeck, Fields
  <1>6. before \subseteq S /\ after \subseteq S
    OBVIOUS
  <1>7. \A f \in Fragments : /\ f \in FragmentsWithin(before) <=> f[1] \in before
                             /\ f \in FragmentsWithin(after) <=> f[1] \in after
    BY <1>1, <1>6, WithinVertical
  <1> HIDE DEF before, after, At, S
  <1>8. Changes(d, e, {"cls", "state", "visible", "curfrag"})
    BY SlidesChanges
  <1>9. ClassesTyped(e)
    <2>1. \A s \in Sections : e.cls[s] \in {"past", "present", "future", d.cls[s]}
      BY <1>5
    <2>2. \A s \in Sections : e.cls[s] \in {"", "past", "present", "future"}
      BY <2>1 DEF ClassesTyped
    <2>3. DOMAIN e.cls = Sections /\ e.cls = [s \in Sections |-> e.cls[s]]
      BY <1>5
    <2> QED
      BY <2>2, <2>3 DEF ClassesTyped
  <1>10. \A s \in Sections \ S : e.cls[s] = d.cls[s]
    BY <1>5, <1>6
  <1>11. ASSUME NEW s \in S PROVE /\ e.cls[s] = "present" <=> s[2] = v
                                  /\ e.cls[s] = "past" <=> s[2] < v
    <2>1. s \in Sections /\ IsVerticalSlide(s) /\ s[2] \in Int /\ v \in Int
      BY <1>1, <1>2
    <2>2. e.cls[s] = IF s \in before THEN "past" ELSE IF s \in after THEN "future" ELSE "present"
      BY <1>5, <2>1
    <2>3. /\ s \in before <=> s[2] < v
          /\ s \in after <=> s[2] > v
      BY <1>3, <2>1
    <2> QED
      BY <2>1, <2>2, <2>3
  <1>12. /\ Changes(d, shown, {"visible", "curfrag"}) /\ FragmentsTyped(shown) /\ Sorted(shown)
         /\ shown.visible = (d.visible \cup FragmentsWithin(before)) \ FragmentsWithin(after)
    <2>1. shown = Hide(Show(d, FragmentsWithin(before)), FragmentsWithin(after))
      OBVIOUS
    <2>2. \A f, g \in Fragments : f[1] = g[1] =>
            /\ f \in FragmentsWithin(before) <=> g \in FragmentsWithin(before)
            /\ f \in FragmentsWithin(after) <=> g \in FragmentsWithin(after)
      BY <1>7
    <2> HIDE DEF shown
    <2> QED
      BY <2>1, <2>2, ShowHideEffect
  <1>13. shown.fidx = d.fidx
    BY <1>12 DEF Changes, Fields
  <1> HIDE DEF shown
  <1>14. CASE d.config.fragments
    <2>1. FragmentsTyped(e) /\ Sorted(e)
      BY <1>5, <1>12, <1>13, <1>14 DEF FragmentsTyped, Sorted, Numbered, PrefixShown
    <2>2. ASSUME NEW f \in Fragments
          PROVE  IF f[1] \in S
                 THEN /\ f[1][2] < v => f \in e.visible
                      /\ f[1][2] > v => f \notin e.visible
                      /\ f[1][2] = v => (f \in e.visible <=> f \in d.visible)
                 ELSE f \in e.visible <=> f \in d.visible
      <3>1. f[1] \in Sections
        BY FragmentOfLeaf, SectionShape
      <3>2. f \in e.visible <=> (f \in d.visible \/ f[1] \in before) /\ f[1] \notin after
        BY <1>5, <1>7, <1>12, <1>14
      <3>3. /\ f[1] \in before <=> f[1] \in S /\ f[1][2] < v
            /\ f[1] \in after <=> f[1] \in S /\ f[1][2] > v
        BY <1>3, <3>1
      <3>4. f[1] \in S => f[1][2] \in Int /\ v \in Int
        BY <1>1
      <3> QED
        BY <3>2, <3>3, <3>4
    <2> QED
      BY <1>5, <1>8, <1>9, <1>10, <1>11, <2>1, <2>2 DEF S, MarkedVertically
  <1>15. CASE ~d.config.fragments
    <2>1. FragmentsTyped(e) /\ Sorted(e)
      BY <1>5, <1>15 DEF FragmentsTyped, Sorted, Numbered, PrefixShown
    <2> QED
      BY <1>5, <1>8, <1>9, <1>10, <1>11, <1>15, <2>1 DEF S, MarkedVertically
  <1> QED
    BY <1>14, <1>15

LEMMA StateShape ==
  ASSUME NEW l \in Leaves
  PROVE  StateOf(l) \in Seq(STRING) /\ (<<>> \o DataState[<<l[1]>>]) \o DataState[l] =
           DataState[<<l[1]>>] \o DataState[l]
  <1>1. l \in Sections /\ <<l[1]>> \in Sections
    BY LeafShape, SectionShape
  <1>2. DataState[l] \in Seq(STRING) /\ DataState[<<l[1]>>] \in Seq(STRING)
    BY <1>1, DeckShape DEF DeckShape
  <1>3. <<>> \o DataState[<<l[1]>>] = DataState[<<l[1]>>]
    BY <1>2, ConcatEmptySeq
  <1>4. DataState[<<l[1]>>] \o DataState[l] \in Seq(STRING)
    BY <1>2, ConcatProperties
  <1> QED
    BY <1>2, <1>3, <1>4 DEF StateOf

\* Both marks, around the slide at (h, v)
Marked(d, e, h, v) ==
  /\ Changes(d, e, {"cls", "state", "visible", "curfrag"})
  /\ FragmentsTyped(e) /\ Sorted(e) /\ ClassesTyped(e)
  /\ e.state = StateOf(GetSlide(h, v))
  /\ \A k \in DOMAIN Verticals : e.cls[<<k>>] = "present" <=> k = h
  /\ \A s \in VerticalSlides(h) : /\ e.cls[s] = "present" <=> s = GetSlide(h, v)
                                  /\ e.cls[s] = "past" <=> s[2] < v
  /\ \A k \in Stacks \ {h} : \A s \in VerticalSlides(k) : e.cls[s] = d.cls[s]
  /\ Aside(e, h)
  /\ d.config.fragments =>
       \A f \in Fragments : /\ Precedes(f[1], GetSlide(h, v)) => f \in e.visible
                            /\ Precedes(GetSlide(h, v), f[1]) => f \notin e.visible
                            /\ f[1] = GetSlide(h, v) => (f \in e.visible <=> f \in d.visible)

LEMMA MarkEffect ==
  ASSUME NEW d, IsDeck(d), FragmentsTyped(d), Sorted(d), ClassesTyped(d),
         NEW h \in DOMAIN Verticals, NEW v \in IndicesV(h),
         NEW e, e = UpdateSlides(UpdateSlides([d EXCEPT !.state = <<>>], HorizontalSlides, h),
                                 VerticalSlides(h), v)
  PROVE  Marked(d, e, h, v)
  <1> DEFINE l == GetSlide(h, v)
             a == [d EXCEPT !.state = <<>>]
             b == UpdateSlides(a, HorizontalSlides, h)
  <1>1. Changes(d, a, {"state"}) /\ a.state = <<>> /\ IsDeck(a)
    BY DEF Changes, IsDeck, Fields
  <1>2. FragmentsTyped(a) /\ Sorted(a)
    BY <1>1, Frames
  <1>3. a.cls = d.cls /\ a.config = d.config
    BY <1>1 DEF Changes, Fields
  <1>13. a.visible = d.visible
    BY <1>1 DEF Changes, Fields
  <1>4. ClassesTyped(a)
    BY <1>3 DEF ClassesTyped
  <1> HIDE DEF a
  <1>5. /\ Changes(a, b, {"cls", "state", "visible", "curfrag"})
        /\ FragmentsTyped(b) /\ Sorted(b) /\ b.state = <<>> \o DataState[<<h>>]
        /\ ClassesTyped(b)
        /\ \A k \in DOMAIN Verticals : b.cls[<<k>>] = "present" <=> k = h
        /\ \A s \in Sections \ HorizontalSlides : b.cls[s] = d.cls[s]
        /\ Aside(b, h)
        /\ d.config.fragments =>
             \A f \in Fragments : /\ f[1][1] < h => f \in b.visible
                                  /\ f[1][1] > h => f \notin b.visible
                                  /\ f[1][1] = h => (f \in b.visible <=> f \in a.visible)
    <2>1. b = UpdateSlides(a, HorizontalSlides, h)
      OBVIOUS
    <2> HIDE DEF b
    <2>2. MarkedHorizontally(a, b, h)
      BY <1>1, <1>2, <1>4, <2>1, MarkHorizontal
    <2> QED
      BY <1>1, <1>3, <2>2 DEF MarkedHorizontally
  <1>6. IsDeck(b) /\ b.config = d.config
    BY <1>3, <1>5 DEF Changes, Fields
  <1> HIDE DEF b
  <1>7. e = UpdateSlides(b, VerticalSlides(h), v)
    BY DEF a, b
  <1>8. /\ l \in Leaves /\ l[1] = h /\ (IsVerticalSlide(l) <=> h \in Stacks)
        /\ h \in Stacks => l = <<h, v>>
        /\ h \notin Stacks => l = <<h>>
    BY SlideShape DEF GetSlide
  <1>9. /\ \A k \in Stacks : \A s \in VerticalSlides(k) : s \in Sections \ HorizontalSlides
        /\ \A k \in DOMAIN Verticals : <<k>> \in Sections \ VerticalSlides(h)
        /\ \A k \in Stacks \ {h} : \A s \in VerticalSlides(k) : s \notin VerticalSlides(h)
    <2>1. \A k \in DOMAIN Verticals : \A s \in VerticalSlides(k) : Len(s) = 2 /\ s[1] = k /\ s \in Sections
      BY VerticalShape, SectionShape
    <2>2. \A s \in HorizontalSlides : Len(s) = 1
      BY HorizontalShape
    <2>3. \A k \in DOMAIN Verticals : <<k>> \in HorizontalSlides /\ <<k>> \in Sections
      BY SectionShape
    <2>4. Stacks \subseteq DOMAIN Verticals
      BY IndexShape
    <2> QED
      BY <2>1, <2>2, <2>3, <2>4
  <1>10. ASSUME NEW f \in Fragments
         PROVE  /\ Precedes(f[1], l) => f[1][1] < h \/ (f[1] \in VerticalSlides(h) /\ f[1][2] < v /\ h \in Stacks)
                /\ Precedes(l, f[1]) => f[1][1] > h \/ (f[1] \in VerticalSlides(h) /\ f[1][2] > v /\ h \in Stacks)
                /\ f[1][1] # h => f[1] \notin VerticalSlides(h)
                /\ f[1][1] \in Int /\ h \in Int
    <2>1. f[1] \in Leaves
      BY FragmentOfLeaf
    <2>2. /\ f[1][1] \in DOMAIN Verticals
          /\ IsVerticalSlide(f[1]) => f[1] \in VerticalSlides(f[1][1])
      BY <2>1, LeafShape
    <2>3. f[1][1] \in Int /\ h \in Int
      BY <2>2, IndexShape
    <2>4. f[1] \in VerticalSlides(h) => f[1][1] = h
      BY VerticalShape
    <2>5. IsVerticalSlide(l) => l[2] = v
      BY <1>8
    <2>6. Precedes(f[1], l) => f[1][1] < h \/ (f[1] \in VerticalSlides(h) /\ f[1][2] < v /\ h \in Stacks)
      BY <1>8, <2>2, <2>5 DEF Precedes
    <2>7. Precedes(l, f[1]) => f[1][1] > h \/ (f[1] \in VerticalSlides(h) /\ f[1][2] > v /\ h \in Stacks)
      BY <1>8, <2>2, <2>3, <2>5 DEF Precedes
    <2> QED
      BY <2>3, <2>4, <2>6, <2>7
  <1>11. CASE h \notin Stacks
    <2>1. VerticalSlides(h) = {}
      BY <1>11, SectionShape
    <2>2. e = b
      BY <1>7, <2>1 DEF UpdateSlides
    <2>3. e.state = StateOf(l)
      <3>1. <<>> \o DataState[<<h>>] = DataState[<<h>>]
        <4>1. DataState[<<h>>] \in Seq(STRING)
          BY SectionShape, DeckShape DEF DeckShape
        <4> QED
          BY <4>1, ConcatEmptySeq
      <3> QED
        BY <1>5, <1>8, <1>11, <2>2, <3>1 DEF StateOf
    <2>4. Changes(d, e, {"cls", "state", "visible", "curfrag"})
      BY <1>1, <1>5, <2>2 DEF Changes, MarkedVertically
    <2>5. d.config.fragments =>
            \A f \in Fragments : /\ Precedes(f[1], l) => f \in e.visible
                                 /\ Precedes(l, f[1]) => f \notin e.visible
                                 /\ f[1] = l => (f \in e.visible <=> f \in d.visible)
      BY <1>5, <1>8, <1>10, <1>11, <1>13, <2>2
    <2> QED
      BY <1>5, <1>9, <2>1, <2>2, <2>3, <2>4, <2>5 DEF Marked
  <1>12. CASE h \in Stacks
    <2>1. v \in 0 .. Verticals[h] - 1
      BY <1>12 DEF IndicesV
    <2>2. MarkedVertically(b, e, h, v)
      <3>1. FragmentsTyped(b) /\ Sorted(b) /\ ClassesTyped(b) /\ IsDeck(b)
        BY <1>5, <1>6
      <3> QED
        BY <3>1, <1>7, <1>12, <2>1, MarkVertical
    <2>3. e.state = StateOf(l)
      BY <1>5, <1>8, <1>12, <2>2, StateShape DEF StateOf, MarkedVertically
    <2>4. Changes(d, e, {"cls", "state", "visible", "curfrag"})
      BY <1>1, <1>5, <2>2 DEF Changes, MarkedVertically
    <2>7. Aside(e, h)
      <3>1. e.config = b.config /\ \A k \in DOMAIN Verticals : e.cls[<<k>>] = b.cls[<<k>>]
        BY <1>9, <2>2 DEF MarkedVertically, Changes, Fields
      <3> QED
        BY <1>5, <3>1 DEF Aside
    <2>5. d.config.fragments =>
            \A f \in Fragments : /\ Precedes(f[1], l) => f \in e.visible
                                 /\ Precedes(l, f[1]) => f \notin e.visible
                                 /\ f[1] = l => (f \in e.visible <=> f \in d.visible)
      <3> SUFFICES ASSUME d.config.fragments, NEW f \in Fragments
                   PROVE  /\ Precedes(f[1], l) => f \in e.visible
                          /\ Precedes(l, f[1]) => f \notin e.visible
                          /\ f[1] = l => (f \in e.visible <=> f \in d.visible)
        OBVIOUS
      <3>0. b.config.fragments
        BY <1>6
      <3>1. f[1] \notin VerticalSlides(h) => (f \in e.visible <=> f \in b.visible)
        BY <2>2, <3>0 DEF MarkedVertically
      <3>2. f[1] \in VerticalSlides(h) => (f[1][2] < v => f \in e.visible) /\ (f[1][2] > v => f \notin e.visible)
        BY <2>2, <3>0 DEF MarkedVertically
      <3>3. (f[1][1] < h => f \in b.visible) /\ (f[1][1] > h => f \notin b.visible)
        BY <1>5
      <3>4. f[1][1] < h \/ f[1][1] > h => f[1][1] # h
        BY <1>10
      <3>5. f[1] = l => (f \in e.visible <=> f \in d.visible)
        <4>1. l \in VerticalSlides(h) /\ l[2] = v
          BY <1>12, SlideShape
        <4>2. f[1] = l => (f \in b.visible <=> f \in a.visible)
          BY <1>5, <1>8
        <4> QED
          BY <1>13, <2>2, <3>0, <4>1, <4>2 DEF MarkedVertically
      <3> QED
        BY <1>10, <3>1, <3>2, <3>3, <3>4, <3>5
    <2>6. \A s \in VerticalSlides(h) : s[2] = v <=> s = l
      <3>1. \A s \in VerticalSlides(h) : s = <<h, s[2]>>
        BY VerticalShape
      <3>2. l[2] = v
        BY <1>8, <1>12
      <3> QED
        BY <1>8, <1>12, <3>1, <3>2
    <2> QED
      BY <1>5, <1>9, <2>2, <2>3, <2>4, <2>5, <2>6, <2>7 DEF MarkedVertically, Marked
  <1> QED
    BY <1>11, <1>12

-----------------------------------------------------------------------------
(* Display, state, media and address *)

LEMMA VisibilityEffect ==
  ASSUME NEW d, IsDeck(d), DisplayTyped(d), NEW e, e = UpdateSlidesVisibility(d)
  PROVE  /\ Changes(d, e, {"shown", "bgVideo"}) /\ DisplayTyped(e)
         /\ d.indexh = Undef => e = d
  <1>1. Changes(d, e, {"shown", "bgVideo"})
    BY VisibilityChanges
  <1>2. CASE d.indexh = Undef
    BY <1>1, <1>2 DEF UpdateSlidesVisibility
  <1>3. CASE d.indexh # Undef
    <2>1. PICK S : S \subseteq Sections /\ e = ShowSlides(d, S)
      <3> DEFINE distance == IF d.overview THEN 10 ELSE d.config.viewDistance
                 oy(h) == IF h = d.indexh THEN d.indexv ELSE GetPreviousVerticalIndex(d, h)
                 Around(h, x, y) == {s \in VerticalSlides(h) : x + AbsDiff(s[2], y) < distance}
                 Near(h, x) == IF x < distance THEN {<<h>>} \cup Around(h, x, oy(h)) ELSE {}
                 DistanceX(h) ==
                   IF d.config.loop THEN AbsRem(d.indexh, h, Cardinality(HorizontalSlides) - distance)
                   ELSE AbsDiff(d.indexh, h)
                 T == UNION {Near(h, DistanceX(h)) : h \in DOMAIN Verticals}
      <3>1. e = ShowSlides(d, T)
        BY <1>3 DEF UpdateSlidesVisibility
      <3>2. ASSUME NEW h \in DOMAIN Verticals, NEW x PROVE Near(h, x) \subseteq Sections
        <4>1. <<h>> \in Sections /\ VerticalSlides(h) \subseteq Sections
          BY SectionShape
        <4> QED
          BY <4>1
      <3> HIDE DEF Near, DistanceX
      <3>3. T \subseteq Sections
        BY <3>2
      <3> QED
        BY <3>1, <3>3
    <2>2. e.shown = S /\ e.bgVideo \subseteq d.bgVideo \cup VideoBackgrounds
      BY <2>1 DEF ShowSlides, IsDeck, Fields
    <2> QED
      BY <1>1, <1>3, <2>1, <2>2 DEF DisplayTyped
  <1> QED
    BY <1>2, <1>3

LEMMA CountOnce ==
  ASSUME NEW s, \A i, j \in DOMAIN s : s[i] = s[j] => i = j, NEW n
  PROVE  Cardinality({i \in DOMAIN s : s[i] = n}) = IF n \in NamesOf(s) THEN 1 ELSE 0
  <1>1. CASE n \in NamesOf(s)
    <2>1. PICK i \in DOMAIN s : s[i] = n
      BY <1>1 DEF NamesOf
    <2>2. {j \in DOMAIN s : s[j] = n} = {i}
      BY <2>1
    <2> QED
      BY <1>1, <2>2, FS_Singleton
  <1>2. CASE n \notin NamesOf(s)
    <2>1. {j \in DOMAIN s : s[j] = n} = {}
      BY <1>2 DEF NamesOf
    <2> QED
      BY <1>2, <2>1, FS_EmptySet
  <1> QED
    BY <1>1, <1>2

\* The classes of the state before are replaced by those of the new one.
LEMMA ApplyEffect ==
  ASSUME NEW d, IsDeck(d), NEW before, d.root = NamesOf(before),
         \A i, j \in DOMAIN before : before[i] = before[j] => i = j,
         \A i, j \in DOMAIN d.state : d.state[i] = d.state[j] => i = j
  PROVE  ApplyState(d, before).root = NamesOf(d.state)
  <1> DEFINE Count(s, n) == Cardinality({i \in DOMAIN s : s[i] = n})
             names == NamesOf(before) \cup NamesOf(d.state)
  <1>1. ApplyState(d, before).root = (d.root \cup {n \in names : Count(d.state, n) > Count(before, n)})
                                       \ {n \in names : Count(before, n) > Count(d.state, n)}
    BY DEF ApplyState, IsDeck, Fields, NamesOf
  <1>2. \A n : /\ Count(d.state, n) = IF n \in NamesOf(d.state) THEN 1 ELSE 0
               /\ Count(before, n) = IF n \in NamesOf(before) THEN 1 ELSE 0
    BY CountOnce
  <1> HIDE DEF Count
  <1>3. \A n : /\ Count(d.state, n) > Count(before, n) <=> n \in NamesOf(d.state) /\ n \notin NamesOf(before)
               /\ Count(before, n) > Count(d.state, n) <=> n \in NamesOf(before) /\ n \notin NamesOf(d.state)
    BY <1>2
  <1>4. \A n : n \in ApplyState(d, before).root <=> n \in NamesOf(d.state)
    BY <1>1, <1>3
  <1> QED
    BY <1>4

-----------------------------------------------------------------------------
(* Entering a slide *)

EnterFields ==
  {"state", "cls", "visible", "curfrag", "fidx", "indexh", "indexv", "shown", "bgVideo", "root", "cur",
   "enabled", "events"}

\* d has entered (h, v) as e: what there is of the slide and around it agrees.
Entered(d, e, h, v) ==
  /\ Changes(d, e, EnterFields)
  /\ e.indexh = h /\ e.indexv = v /\ e.cur = GetSlide(h, v) /\ Placed(e)
  /\ FragmentsTyped(e) /\ Sorted(e) /\ NeighboursShown(e) /\ e.enabled \subseteq Directions
  /\ DisplayTyped(e) /\ StateAgrees(e)
  /\ ClassesTyped(e)
  /\ \A k \in DOMAIN Verticals : e.cls[<<k>>] = "present" <=> k = h
  /\ \A s \in VerticalSlides(h) : /\ e.cls[s] = "present" <=> s = e.cur
                                  /\ e.cls[s] = "past" <=> s[2] < v
  /\ \A k \in Stacks \ {h} : \A s \in VerticalSlides(k) : e.cls[s] = d.cls[s]
  /\ Aside(e, h)

\* Its own fragments are as they were.
OwnKept(d, e) ==
  d.config.fragments => \A f \in Fragments : f[1] = e.cur => (f \in e.visible <=> f \in d.visible)

LEMMA EnterEffect ==
  ASSUME NEW d, IsDeck(d), FragmentsTyped(d), Sorted(d), ClassesTyped(d), DisplayTyped(d),
         d.enabled \subseteq Directions, StateAgrees(d), d.cur \in Leaves \cup {None},
         NEW h \in DOMAIN Verticals, NEW v \in IndicesV(h), NEW f, IndexTyped(f),
         NEW e, e = Enter(d, h, v, f)
  PROVE  Entered(d, e, h, v) /\ (~f.set => OwnKept(d, e))
  <1> DEFINE l == GetSlide(h, v)
             marked == UpdateSlides(UpdateSlides([d EXCEPT !.state = <<>>], HorizontalSlides, h),
                                    VerticalSlides(h), v)
             there == [marked EXCEPT !.indexh = h, !.indexv = v]
             shown == UpdateSlidesVisibility(there)
             applied == ApplyState(shown, d.state)
             at == [applied EXCEPT !.cur = GetSlide(h, v)]
  <1>1. e = IF f.set THEN NavigateFragment(at, f, 0) ELSE at
    BY DEF Enter
  <1>2. Marked(d, marked, h, v)
    BY MarkEffect
  <1> HIDE DEF marked
  <1>3. IsDeck(marked) /\ marked.config = d.config /\ marked.shown = d.shown /\ marked.bgVideo = d.bgVideo
    BY <1>2 DEF Marked, Changes, Fields
  <1>4. /\ Changes(marked, there, {"indexh", "indexv"}) /\ IsDeck(there)
        /\ there.indexh = h /\ there.indexv = v
    BY <1>3 DEF Changes, IsDeck, Fields
  <1> HIDE DEF there
  <1>5. DisplayTyped(there)
    BY <1>3, <1>4 DEF DisplayTyped, Changes, Fields
  <1>6. Changes(there, shown, {"shown", "bgVideo"}) /\ DisplayTyped(shown)
    BY <1>4, <1>5, VisibilityEffect
  <1>7. IsDeck(shown) /\ shown.root = d.root /\ shown.state = StateOf(l)
    BY <1>2, <1>3, <1>4, <1>6 DEF Marked, Changes, Fields
  <1> HIDE DEF shown
  <1>8. Changes(shown, applied, {"root"}) /\ IsDeck(applied)
    BY <1>7, StateChanges DEF Changes
  <1>9. NamesOnce => applied.root = NamesOf(shown.state)
    <2> SUFFICES ASSUME NamesOnce PROVE applied.root = NamesOf(shown.state)
      OBVIOUS
    <2>1. d.root = NamesOf(d.state)
      BY DEF StateAgrees
    <2>2. \A i, j \in DOMAIN d.state : d.state[i] = d.state[j] => i = j
      BY DEF StateAgrees, NamesOnce, None
    <2>3. \A i, j \in DOMAIN shown.state : shown.state[i] = shown.state[j] => i = j
      BY <1>7, SlideShape DEF NamesOnce
    <2> QED
      BY <1>7, <2>1, <2>2, <2>3, ApplyEffect
  <1> HIDE DEF applied
  <1>10. Changes(applied, at, {"cur"}) /\ IsDeck(at) /\ at.cur = l
    BY <1>8 DEF Changes, IsDeck, Fields
  <1>11. Changes(d, at, EnterFields)
    BY <1>2, <1>4, <1>6, <1>8, <1>10 DEF Marked, Changes, EnterFields
  <1>12. /\ at.indexh = h /\ at.indexv = v /\ at.cls = marked.cls /\ at.visible = marked.visible
         /\ at.config = d.config /\ at.enabled = d.enabled
         /\ at.state = StateOf(l) /\ at.root = applied.root
    BY <1>2, <1>3, <1>4, <1>6, <1>7, <1>8, <1>10 DEF Marked, Changes, Fields
  <1>13. FragmentsTyped(at) /\ Sorted(at)
    <2>1. Changes(marked, at, {"indexh", "indexv", "shown", "bgVideo", "root", "cur"})
      BY <1>4, <1>6, <1>8, <1>10 DEF Changes
    <2> QED
      BY <1>2, <1>3, <2>1, Frames DEF Marked
  <1>14. DisplayTyped(at)
    BY <1>6, <1>8, <1>10 DEF DisplayTyped, Changes, Fields
  <1> HIDE DEF at
  <1>15. l \in Leaves /\ l # None
    BY SlideShape
  <1>16. Placed(at)
    BY <1>10, <1>12, <1>15 DEF Placed
  <1>17. NeighboursShown(at)
    BY <1>2, <1>10, <1>12 DEF Marked, NeighboursShown
  <1>18. StateAgrees(at)
    BY <1>7, <1>9, <1>10, <1>12, <1>15 DEF StateAgrees
  <1>19. Changes(at, e, {"fidx", "visible", "curfrag", "enabled", "events"})
         /\ FragmentsTyped(e) /\ Sorted(e) /\ e.enabled \subseteq Directions /\ NeighboursShown(e)
    <2>1. CASE ~f.set
      <3>1. e = at /\ Changes(at, at, {"fidx", "visible", "curfrag", "enabled", "events"})
        BY <1>1, <1>10, <2>1, ChangesNothing
      <3> QED
        BY <1>12, <1>13, <1>17, <3>1
    <2>2. CASE f.set
      <3>1. e = NavigateFragment(at, f, 0) /\ 0 \in Int /\ at.cur \in Leaves /\ at.enabled \subseteq Directions
        BY <1>1, <1>10, <1>12, <1>15, <2>2
      <3>2. /\ Changes(at, e, {"fidx", "visible", "curfrag", "enabled", "events"})
            /\ FragmentsTyped(e) /\ Sorted(e) /\ e.enabled \subseteq Directions
            /\ \A g \in Fragments : g[1] # at.cur => (g \in e.visible <=> g \in at.visible)
        BY <1>10, <1>13, <3>1, NavigateEffect
      <3>3. e.cur = at.cur /\ e.config = at.config
        BY <3>2 DEF Changes, Fields
      <3>4. \A s \in Leaves : Precedes(s, at.cur) \/ Precedes(at.cur, s) => s # at.cur
        BY <1>10, <1>15, LeafShape, IndexShape DEF Precedes
      <3>5. NeighboursShown(e)
        BY <1>17, <3>2, <3>3, <3>4, FragmentOfLeaf DEF NeighboursShown
      <3> QED
        BY <3>2, <3>5
    <2> QED
      BY <2>1, <2>2
  <1>20. /\ e.indexh = h /\ e.indexv = v /\ e.cur = l /\ e.cls = marked.cls
    BY <1>10, <1>12, <1>19 DEF Changes, Fields
  <1>21. Placed(e) /\ StateAgrees(e)
    BY <1>10, <1>16, <1>18, <1>19, Frames
  <1>22. DisplayTyped(e)
    BY <1>14, <1>19 DEF DisplayTyped, Changes, Fields
  <1>23. Changes(d, e, EnterFields)
    BY <1>11, <1>19 DEF Changes, EnterFields
  <1>24. ClassesTyped(e)
    BY <1>2, <1>20 DEF Marked, ClassesTyped
  <1>25. Aside(e, h)
    <2>1. e.config = marked.config
      BY <1>3, <1>12, <1>19 DEF Changes, Fields
    <2>2. Aside(marked, h)
      BY <1>2 DEF Marked
    <2> QED
      BY <1>20, <2>1, <2>2 DEF Aside
  <1>26. ~f.set => OwnKept(d, e)
    BY <1>1, <1>2, <1>12, <1>20 DEF Marked, OwnKept
  <1> QED
    BY <1>2, <1>19, <1>20, <1>21, <1>22, <1>23, <1>24, <1>25, <1>26 DEF Entered, Marked

-----------------------------------------------------------------------------
(* Leaving the previous slide *)

LEMMA BelowCard ==
  ASSUME NEW h \in Stacks, NEW v \in 0 .. Verticals[h] - 1
  PROVE  Cardinality({s \in VerticalSlides(h) : s[2] < v}) = v
  <1> DEFINE S == {s \in VerticalSlides(h) : s[2] < v}
  <1>1. h \in DOMAIN Verticals /\ Verticals[h] \in Nat /\ v \in Nat
    BY IndexShape
  <1>2. IsFiniteSet(0 .. v - 1) /\ Cardinality(0 .. v - 1) = v
    <2>1. 0 \in Int /\ v - 1 \in Int /\ (0 > v - 1 => v = 0) /\ (v - 1) - 0 + 1 = v
      BY <1>1
    <2> QED
      BY <2>1, FS_Interval
  <1>3. [w \in 0 .. v - 1 |-> <<h, w>>] \in Bijection(0 .. v - 1, S)
    <2>1. \A w \in 0 .. v - 1 : <<h, w>> \in S
      BY <1>1 DEF VerticalSlides
    <2>2. \A s \in S : s[2] \in 0 .. v - 1 /\ s = <<h, s[2]>>
      <3>1. \A s \in S : s[2] \in 0 .. Verticals[h] - 1 /\ s = <<h, s[2]>>
        BY <1>1, VerticalShape DEF IndicesV
      <3> QED
        BY <1>1, <3>1
    <2> HIDE DEF S
    <2> QED
      BY <2>1, <2>2 DEF Bijection, Injection, Surjection, IsInjective
  <1> QED
    BY <1>2, <1>3, FS_Bijection DEF ExistsBijection

LEMMA LeaveEffect ==
  ASSUME NEW d, IsDeck(d), Placed(d), ClassesAgree(d),
         NEW p, Changes(d, p, {"prevV"}),
         p.prevV = IF d.cur # None /\ IsVerticalSlide(d.cur) THEN [d.prevV EXCEPT ![d.cur[1]] = d.indexv]
                   ELSE d.prevV,
         NEW h \in DOMAIN Verticals, NEW v \in IndicesV(h), NEW e, Entered(p, e, h, v),
         NEW t, Changes(e, t, {"events"}),
         NEW prev \in {None, d.cur},
         prev = None => d.cur = None \/ e.cur = d.cur,
         prev # None => e.cur # prev,
         NEW m, m = LeavePrevious(t, prev)
  PROVE  ClassesAgree(m) /\ Changes(t, m, {"cls", "resetStacks"})
         /\ (t.resetStacks \in BOOLEAN => m.resetStacks \in BOOLEAN)
  <1>1. /\ IsDeck(t) /\ t.cls = e.cls /\ t.prevV = p.prevV /\ t.cur = GetSlide(h, v) /\ t.indexh = h
        /\ t.indexv = v /\ p.cls = d.cls
    BY DEF Entered, EnterFields, Changes, Fields
  <1>2. Changes(t, m, {"cls", "resetStacks"}) /\ IsDeck(m)
    BY <1>1, LeaveChanges DEF Changes
  <1>3. /\ m.cur = GetSlide(h, v) /\ m.indexh = h /\ m.indexv = v /\ m.prevV = p.prevV
    BY <1>1, <1>2 DEF Changes, Fields
  <1>4. t.resetStacks \in BOOLEAN => m.resetStacks \in BOOLEAN
    BY <1>1 DEF LeavePrevious, IsDeck, Fields
  <1>5. ClassesTyped(t)
    BY <1>1 DEF Entered, ClassesTyped
  <1>6. \A s \in Sections : m.cls[s] = IF s = prev /\ t.cls[s] = "present" THEN "" ELSE t.cls[s]
    <2>1. CASE prev = None
      <3>1. None \notin Sections
        BY FirstOfSeq DEF Sections, HorizontalSlides, VerticalSlides, None
      <3> QED
        BY <2>1, <3>1 DEF LeavePrevious
    <2>2. CASE prev # None
      <3>1. m.cls = [t.cls EXCEPT ![prev] = IF @ = "present" THEN "" ELSE @]
        BY <1>1, <2>2 DEF LeavePrevious, IsDeck, Fields
      <3> QED
        BY <1>5, <3>1 DEF ClassesTyped
    <2> QED
      BY <2>1, <2>2
  <1>7. ClassesTyped(m)
    <2>1. \A s \in Sections : m.cls[s] \in {"", "past", "present", "future"}
      BY <1>5, <1>6 DEF ClassesTyped
    <2>2. DOMAIN m.cls = Sections /\ m.cls = [s \in DOMAIN m.cls |-> m.cls[s]]
      BY <1>1, <1>5 DEF ClassesTyped, LeavePrevious, IsDeck, Fields
    <2> QED
      BY <2>1, <2>2 DEF ClassesTyped
  <1>8. /\ \A k \in Stacks : \A s \in VerticalSlides(k) : s \in Sections /\ s \notin HorizontalSlides
        /\ \A k \in DOMAIN Verticals : <<k>> \in Sections /\ <<k>> \in HorizontalSlides
        /\ Stacks \subseteq DOMAIN Verticals
    BY IndexShape, SectionShape, VerticalShape, HorizontalShape
  <1>9. /\ \A k \in DOMAIN Verticals : t.cls[<<k>>] = "present" <=> k = h
        /\ \A s \in VerticalSlides(h) : /\ t.cls[s] = "present" <=> s = t.cur
                                        /\ t.cls[s] = "past" <=> s[2] < v
        /\ \A k \in Stacks \ {h} : \A s \in VerticalSlides(k) : t.cls[s] = d.cls[s]
    BY <1>1 DEF Entered
  <1>10. t.cur \in Leaves /\ t.cur # None /\ t.cur = e.cur /\ t.cur[1] = h
         /\ (h \in Stacks => t.cur \in VerticalSlides(h)) /\ (h \notin Stacks => t.cur = <<h>>)
    BY <1>1, SlideShape DEF Entered, GetSlide
  <1>11. d.cur # None => /\ d.cur[1] = d.indexh /\ d.indexh \in DOMAIN Verticals
                         /\ d.indexv \in IndicesV(d.indexh) /\ d.cur \in Leaves
                         /\ IsVerticalSlide(d.cur) <=> d.indexh \in Stacks
                         /\ d.indexh \notin Stacks => d.cur = <<d.indexh>>
                         /\ d.indexh \in Stacks => d.cur \in VerticalSlides(d.indexh)
    BY PlacedShape, SlideShape DEF Placed
  <1>12. m.prevV \in [Stacks -> Nat]
    <2>1. d.prevV \in [Stacks -> Nat]
      BY DEF ClassesAgree
    <2>2. d.cur # None => d.indexv \in Nat
      BY PlacedShape
    <2>3. CASE d.cur # None /\ IsVerticalSlide(d.cur)
      <3>1. m.prevV = [d.prevV EXCEPT ![d.cur[1]] = d.indexv] /\ d.indexv \in Nat
        BY <1>3, <2>2, <2>3
      <3> QED
        BY <2>1, <3>1
    <2>4. CASE ~(d.cur # None /\ IsVerticalSlide(d.cur))
      BY <1>3, <2>1, <2>4
    <2> QED
      BY <2>3, <2>4
  <1>13. ASSUME NEW k \in Stacks, NEW s \in VerticalSlides(k), m.cls[s] = "present" PROVE s = m.cur
    <2>1. t.cls[s] = "present" /\ s # prev
      BY <1>6, <1>8, <1>13
    <2>2. CASE k = h
      BY <1>1, <1>3, <1>9, <2>1, <2>2
    <2>3. CASE k # h
      <3>1. s = d.cur /\ d.cur # None
        <4>1. s = d.cur
          BY <1>9, <2>1, <2>3 DEF ClassesAgree
        <4>2. s # None
          BY VerticalShape, <1>8 DEF None
        <4> QED
          BY <4>1, <4>2
      <3>2. e.cur = d.cur
        BY <2>1, <3>1
      <3> QED
        BY <1>1, <1>3, <1>10, <3>1, <3>2
    <2> QED
      BY <2>2, <2>3
  <1>14. ASSUME NEW k \in DOMAIN Verticals PROVE m.cls[<<k>>] = "present" <=> k = h
    <2>1. k = h => <<k>> # prev
      <3> SUFFICES ASSUME k = h, <<k>> = prev PROVE FALSE
        OBVIOUS
      <3>1. prev = d.cur /\ d.cur # None
        BY DEF None
      <3>2. d.indexh = h
        BY <1>11, <3>1
      <3>3. h \notin Stacks
        BY <1>8, <1>11, <3>1, <3>2
      <3>4. e.cur = prev
        BY <1>10, <3>3
      <3> QED
        BY <3>1, <3>4
    <2> QED
      <3>1. <<k>> \in Sections
        BY <1>8
      <3>2. m.cls[<<k>>] = IF <<k>> = prev /\ t.cls[<<k>>] = "present" THEN "" ELSE t.cls[<<k>>]
        BY Zenon, <1>6, <3>1
      <3> QED
        BY <1>8, <1>9, <2>1, <3>2
  <1>15. h \in Stacks => m.cls[m.cur] = "present"
    <2>1. e.cur # prev \/ prev = None
      OBVIOUS
    <2>2. t.cur # prev
      BY <1>10, <2>1
    <2>3. h \in Stacks => t.cls[t.cur] = "present" /\ t.cur \in Sections
      BY <1>8, <1>9, <1>10
    <2> QED
      BY <1>1, <1>3, <1>6, <2>2, <2>3
  <1>16. \A k \in Stacks : \A s \in VerticalSlides(k) : m.cls[s] = "past" <=> t.cls[s] = "past"
    BY <1>6, <1>8
  <1>17. \A s \in VerticalSlides(h) : m.cls[s] = "past" <=> s[2] < v
    BY <1>9, <1>16, SectionShape
  <1>18. ASSUME NEW k \in Stacks \ {h} PROVE m.prevV[k] \in {0, PastIn(m, k)}
    <2>1. {s \in VerticalSlides(k) : m.cls[s] = "past"} = {s \in VerticalSlides(k) : d.cls[s] = "past"}
      BY <1>9, <1>16
    <2>2. PastIn(m, k) = PastIn(d, k)
      BY <2>1 DEF PastIn
    <2>3. CASE d.cur = None
      <3>1. d.prevV[k] = 0
        BY <2>3 DEF ClassesAgree
      <3> QED
        BY <1>3, <2>3, <3>1
    <2>4. CASE d.cur # None /\ k # d.indexh
      <3>1. d.prevV[k] \in {0, PastIn(d, k)}
        BY <2>4 DEF ClassesAgree
      <3>2. m.prevV[k] = d.prevV[k]
        BY <1>3, <1>11, <2>4 DEF ClassesAgree
      <3> QED
        BY <2>2, <3>1, <3>2
    <2>5. CASE d.cur # None /\ k = d.indexh
      <3>1. IsVerticalSlide(d.cur)
        BY <1>11, <2>5
      <3>2. m.prevV[k] = d.indexv
        BY <1>3, <1>11, <2>5, <3>1 DEF ClassesAgree
      <3>3. {s \in VerticalSlides(k) : d.cls[s] = "past"} = {s \in VerticalSlides(k) : s[2] < d.indexv}
        BY <2>5 DEF ClassesAgree
      <3>4. d.indexv \in 0 .. Verticals[k] - 1
        BY <1>11, <2>5 DEF IndicesV
      <3>5. PastIn(d, k) = d.indexv
        BY <3>3, <3>4, BelowCard DEF PastIn
      <3> QED
        BY <2>2, <3>2, <3>5
    <2> QED
      BY <2>3, <2>4, <2>5
  <1> QED
    BY <1>2, <1>3, <1>4, <1>7, <1>10, <1>1, <1>12, <1>13, <1>14, <1>15, <1>17, <1>18 DEF ClassesAgree

-----------------------------------------------------------------------------
(* Media, backgrounds, the address and the timeout *)

\* What plays belongs to the slide that is left or to the one that is entered.
LEMMA ContentEffect ==
  ASSUME NEW d, IsDeck(d), NEW prev, d.playing \cup d.started \cup d.onload \subseteq {prev, d.cur} \ {None},
         d.iframe \in [IframeSlides -> {"blank", "loading", "loaded"}],
         NEW e, e = StartEmbeddedContent(StopEmbeddedContent(d, prev), d.cur)
  PROVE  Changes(d, e, {"playing", "started", "onload", "iframe"}) /\ MediaAgree(e)
  <1> DEFINE stopped == StopEmbeddedContent(d, prev)
  <1>1. Changes(d, stopped, {"playing", "started", "onload", "iframe"})
    BY ContentChanges
  <1>2. IsDeck(stopped) /\ stopped.cur = d.cur
    BY <1>1 DEF Changes, Fields
  <1>3. /\ stopped.playing \cup stopped.started \cup stopped.onload \subseteq {d.cur} \ {None}
        /\ stopped.iframe \in [IframeSlides -> {"blank", "loading", "loaded"}]
    <2>1. CASE prev = None
      BY <2>1 DEF StopEmbeddedContent
    <2>2. CASE prev # None
      BY <2>2 DEF StopEmbeddedContent, IsDeck, Fields
    <2> QED
      BY <2>1, <2>2
  <1> HIDE DEF stopped
  <1>4. e = StartEmbeddedContent(stopped, d.cur)
    BY DEF stopped
  <1>5. Changes(stopped, e, {"playing", "started", "onload", "iframe"})
    BY <1>2, <1>4, ContentChanges
  <1>6. e.cur = d.cur
    BY <1>2, <1>5 DEF Changes, Fields
  <1>7. /\ e.playing \cup e.started \cup e.onload \subseteq {d.cur} \ {None}
        /\ e.iframe \in [IframeSlides -> {"blank", "loading", "loaded"}]
    <2>1. CASE d.cur = None \/ stopped.config.receiver
      BY <1>2, <1>3, <1>4, <2>1 DEF StartEmbeddedContent
    <2>2. CASE ~(d.cur = None \/ stopped.config.receiver)
      <3> DEFINE lazy == {d.cur} \cap IframeSlides
                 ready == {l \in lazy : stopped.iframe[l] # "blank"}
      <3>0. e = [stopped EXCEPT !.playing = @ \cup ({d.cur} \cap AutoplaySlides),
                                !.started = @ \cup ready,
                                !.onload = @ \cup (lazy \ ready),
                                !.iframe = [l \in IframeSlides |->
                                              IF l \in lazy \ ready THEN "loading" ELSE @[l]]]
        BY <1>4, <2>2 DEF StartEmbeddedContent
      <3> HIDE DEF ready
      <3>1. /\ e.playing \subseteq stopped.playing \cup {d.cur} /\ e.started \subseteq stopped.started \cup ready
            /\ e.onload \subseteq stopped.onload \cup {d.cur}
        BY <1>2, <3>0 DEF IsDeck, Fields
      <3>2. e.iframe = [l \in IframeSlides |-> IF l \in lazy \ ready THEN "loading" ELSE stopped.iframe[l]]
        BY <1>2, <3>0 DEF IsDeck, Fields
      <3>3. e.iframe \in [IframeSlides -> {"blank", "loading", "loaded"}]
        BY <1>3, <3>2
      <3>4. ready \subseteq {d.cur}
        BY DEF ready
      <3> QED
        BY <1>3, <2>2, <3>1, <3>3, <3>4
    <2> QED
      BY <2>1, <2>2
  <1>8. Changes(d, e, {"playing", "started", "onload", "iframe"})
    BY <1>1, <1>5 DEF Changes
  <1> QED
    BY <1>6, <1>7, <1>8 DEF MediaAgree

LEMMA BackgroundEffect ==
  ASSUME NEW d, IsDeck(d), Placed(d), DisplayTyped(d), d.bgPlaying \subseteq {d.prevBg},
         d.cur = None => d.bgVideo = {}, NEW all, NEW e, e = UpdateBackground(d, all)
  PROVE  Changes(d, e, {"bgCls", "bgPlaying", "prevBg"}) /\ BackgroundAgrees(e)
  <1> DEFINE now == IF d.indexh = Undef THEN <<Cardinality(HorizontalSlides) - 1>>
                    ELSE GetSlide(d.indexh, d.indexv)
  <1>1. Changes(d, e, {"bgCls", "bgPlaying", "prevBg"})
    BY BackgroundChanges
  <1>2. e.bgPlaying = (d.bgPlaying \ {d.prevBg}) \cup ({now} \cap d.bgVideo) /\ e.prevBg = now
    BY DEF UpdateBackground, IsDeck, Fields
  <1>3. e.cur = d.cur /\ e.shown = d.shown /\ e.bgVideo = d.bgVideo
    BY <1>1 DEF Changes, Fields
  <1>4. d.cur # None => now = d.cur
    BY PlacedShape DEF Placed
  <1> HIDE DEF now
  <1>5. e.bgPlaying \subseteq {e.prevBg} \cap ({e.cur} \ {None})
    BY <1>2, <1>3, <1>4
  <1> QED
    BY <1>1, <1>3, <1>5 DEF BackgroundAgrees, DisplayTyped

LEMMA TargetOfId ==
  ASSUME NEW url, url.name # "", NEW l, {t \in Sections : SlideId[t] = url.name} = {l}
  PROVE  Target(url) = <<l[1], IF IsVerticalSlide(l) THEN l[2] ELSE 0>>
  <1> DEFINE s == CHOOSE s \in Sections : SlideId[s] = url.name
  <1>1. Target(url) = IF url.name = "" THEN <<url.h, url.v>>
                      ELSE <<s[1], IF IsVerticalSlide(s) THEN s[2] ELSE 0>>
    BY DEF Target
  <1>2. s = l
    <2>1. l \in {t \in Sections : SlideId[t] = url.name}
      OBVIOUS
    <2>2. \E t \in Sections : SlideId[t] = url.name
      BY <2>1
    <2>3. s \in Sections /\ SlideId[s] = url.name
      BY <2>2
    <2>4. s \in {t \in Sections : SlideId[t] = url.name}
      BY Zenon, <2>3
    <2> HIDE DEF s
    <2> QED
      BY <2>4
  <1> HIDE DEF s
  <1> QED
    BY <1>1, <1>2

LEMMA WriteURLEffect ==
  ASSUME NEW d, IsDeck(d), Placed(d), HashTyped(d), d.hashEvent \in BOOLEAN, NEW e, e = WriteURL(d)
  PROVE  /\ Changes(d, e, {"hash", "hashEvent"}) /\ HashTyped(e) /\ e.hashEvent \in BOOLEAN
         /\ AddressAgrees(e)
  <1>1. Changes(d, e, {"hash", "hashEvent"})
    BY URLChanges
  <1>2. e.config = d.config /\ e.cur = d.cur /\ e.indexh = d.indexh /\ e.indexv = d.indexv
    BY <1>1 DEF Changes, Fields
  <1>3. CASE ~d.config.history \/ d.cur = None
    <2>1. e = d
      BY <1>3 DEF WriteURL
    <2> QED
      BY <1>1, <1>3, <2>1 DEF AddressAgrees
  <1>4. CASE d.config.history /\ d.cur # None
    <2> DEFINE id == Slug[SlideId[d.cur]]
               url == IF id # "" THEN Hash(id, 0, 0) ELSE Hash("", d.indexh, d.indexv)
    <2>1. /\ d.cur \in Leaves /\ d.indexh \in Nat /\ d.indexv \in Nat /\ d.cur[1] = d.indexh
          /\ IsVerticalSlide(d.cur) => d.cur[2] = d.indexv
          /\ ~IsVerticalSlide(d.cur) => d.indexv = 0
      BY <1>4, PlacedShape
    <2>2. e = SetHash(d, url)
      BY <1>4 DEF WriteURL
    <2>3. e.hash = url /\ e.hashEvent = (d.hashEvent \/ url # d.hash)
      BY <2>2 DEF SetHash, IsDeck, Fields
    <2>4. e.hashEvent \in BOOLEAN
      BY <2>3
    <2>5. HashTyped(e)
      <3>1. url.h \in {0, d.indexh} /\ url.v \in {0, d.indexv}
        BY DEF Hash
      <3> HIDE DEF url
      <3>2. url.h \in Nat /\ url.v \in Nat
        BY <2>1, <3>1
      <3> QED
        BY <2>3, <3>2 DEF HashTyped, Undef
    <2>6. ASSUME IdsSurvive PROVE Target(url) = <<d.indexh, d.indexv>>
      <3>1. CASE id = ""
        BY <3>1 DEF Target, Hash
      <3>2. CASE id # ""
        <4>1. {t \in Sections : SlideId[t] = id} = {d.cur}
          BY <2>1, <2>6, <3>2 DEF IdsSurvive
        <4>2. url.name = id
          BY <3>2 DEF Hash
        <4> HIDE DEF url, id
        <4>3. {t \in Sections : SlideId[t] = url.name} = {d.cur} /\ url.name # ""
          BY <3>2, <4>1, <4>2
        <4>4. Target(url) = <<d.cur[1], IF IsVerticalSlide(d.cur) THEN d.cur[2] ELSE 0>>
          BY <4>3, TargetOfId
        <4> QED
          BY <2>1, <4>4
      <3> QED
        BY <3>1, <3>2
    <2>7. AddressAgrees(e)
      BY <1>2, <2>3, <2>6 DEF AddressAgrees
    <2> QED
      BY <1>1, <2>4, <2>5, <2>7
  <1> QED
    BY <1>3, <1>4

LEMMA MinExists ==
  ASSUME NEW S, IsFiniteSet(S), S # {}, S \subseteq Int
  PROVE  Min(S) \in S /\ \A x \in S : Min(S) <= x
  <1> DEFINE T == {-x : x \in S}
  <1>1. [x \in S |-> -x] \in Surjection(S, T)
    BY DEF Surjection
  <1>2. IsFiniteSet(T) /\ T # {} /\ T \subseteq Int
    <2>1. IsFiniteSet(T)
      BY <1>1, FS_Surjection
    <2>2. \A x \in S : -x \in Int
      OBVIOUS
    <2> QED
      BY <2>1, <2>2
  <1>3. Max(T) \in T /\ \A y \in T : y <= Max(T)
    BY <1>2, MaxExists
  <1>4. PICK z \in S : Max(T) = -z
    BY <1>3
  <1>5. \A x \in S : -x <= -z
    BY <1>3, <1>4
  <1>6. \A x \in S : z <= x
    BY <1>5
  <1> QED
    BY <1>6 DEF Min

LEMMA SettingShape ==
  ASSUME NEW d, d.cur \in Leaves, FragmentsTyped(d), d.config.autoSlide \in AutoSlides
  PROVE  AutoSlideOf(d) \in AutoSlides
  <1> DEFINE now == d.curfrag \cap FragmentsOf(d.cur)
             N == {f[2] : f \in now}
             ofFragment == IF now = {} THEN "" ELSE FragmentAutoSlide[d.cur][Min(N)]
             ofParent == IF IsVerticalSlide(d.cur) THEN SlideAutoSlide[<<d.cur[1]>>] ELSE ""
  <1>1. ofFragment \in AutoSlideSetting
    <2>1. CASE now = {}
      BY <2>1 DEF AutoSlideSetting
    <2>2. CASE now # {}
      <3>1. IsFiniteSet(now) /\ \A f \in now : f[2] \in Int /\ f[1] = d.cur /\ f \in Fragments
        BY FragmentShape, FS_Subset
      <3>2. [f \in now |-> f[2]] \in Surjection(now, N)
        BY DEF Surjection
      <3>3. IsFiniteSet(N) /\ N # {} /\ N \subseteq Int
        <4> HIDE DEF now
        <4> QED
          BY <2>2, <3>1, <3>2, FS_Surjection
      <3>4. Min(N) \in N
        BY <3>3, MinExists
      <3>5. PICK f \in now : Min(N) = f[2]
        BY <3>4
      <3>6. FragmentAutoSlide[f[1]][f[2]] \in AutoSlideSetting
        BY <3>1, DeckShape DEF DeckShape
      <3> HIDE DEF now, N
      <3> QED
        BY <2>2, <3>1, <3>5, <3>6
    <2> QED
      BY <2>1, <2>2
  <1>2. SlideAutoSlide[d.cur] \in AutoSlideSetting /\ SlideAutoSlide[<<d.cur[1]>>] \in AutoSlideSetting
    BY LeafShape, SectionShape, DeckShape DEF DeckShape
  <1>3. AutoSlideOf(d) \in {ofFragment, SlideAutoSlide[d.cur], ofParent, d.config.autoSlide}
        /\ AutoSlideOf(d) # ""
    BY DEF AutoSlideOf, AutoSlides
  <1> HIDE DEF ofFragment
  <1> QED
    BY <1>1, <1>2, <1>3 DEF AutoSlideSetting, AutoSlides

\* However a deck was, cueAutoSlide leaves its timeout where it plays.
LEMMA CueEffect ==
  ASSUME NEW d, IsDeck(d), d.cur \in Leaves \cup {None}, FragmentsTyped(d),
         d.config.autoSlide \in AutoSlides, CueTyped(d), NEW e, e = CueAutoSlide(d)
  PROVE  Changes(d, e, {"timer", "autoSlide", "player"}) /\ CueTyped(e) /\ Cued(e)
  <1>1. Changes(d, e, {"timer", "autoSlide", "player"})
    BY CueChanges
  <1>2. /\ e.cur = d.cur /\ e.autoSlidePaused = d.autoSlidePaused /\ e.paused = d.paused
        /\ e.overview = d.overview
    BY <1>1 DEF Changes, Fields
  <1>3. CASE d.cur = None
    <2>1. e = CancelAutoSlide(d)
      BY <1>3 DEF CueAutoSlide
    <2>2. e.timer = FALSE /\ e.autoSlide = d.autoSlide /\ e.player = d.player
      BY <2>1 DEF CancelAutoSlide, IsDeck, Fields
    <2> QED
      BY <1>1, <1>2, <1>3, <2>2 DEF CueTyped, Cued
  <1>4. CASE d.cur # None
    <2> DEFINE auto == AutoSlideOf(d)
               due == /\ auto = "on" /\ ~d.autoSlidePaused /\ ~d.paused /\ ~d.overview
                      /\ (~IsLastSlide(d) \/ AvailableFragments(d).next \/ d.config.loop)
    <2>1. e = SetPlaying([d EXCEPT !.autoSlide = auto, !.timer = due], due)
      BY <1>4 DEF CueAutoSlide
    <2>2. auto \in AutoSlides
      BY <1>4, SettingShape
    <2> HIDE DEF auto
    <2>3. due \in BOOLEAN
      OBVIOUS
    <2> DEFINE b == [d EXCEPT !.autoSlide = auto, !.timer = due]
    <2>4. IsDeck(b) /\ b.autoSlide = auto /\ b.timer = due /\ b.player = d.player
      BY DEF IsDeck, Fields
    <2>5. e = [b EXCEPT !.player = IF @ = "none" THEN @ ELSE IF due THEN "playing" ELSE "stopped"]
      BY <2>1 DEF SetPlaying
    <2>6. due <=> /\ auto = "on" /\ ~d.autoSlidePaused /\ ~d.paused /\ ~d.overview
                  /\ (~IsLastSlide(d) \/ AvailableFragments(d).next \/ d.config.loop)
      OBVIOUS
    <2> HIDE DEF b, due
    <2>7. /\ e.autoSlide = auto /\ e.timer = due
          /\ e.player = IF d.player = "none" THEN "none" ELSE IF due THEN "playing" ELSE "stopped"
      BY <2>4, <2>5 DEF IsDeck, Fields
    <2>8. CueTyped(e)
      BY <2>2, <2>3, <2>7 DEF CueTyped
    <2>9. IsLastSlide(e) <=> IsLastSlide(d)
      BY <1>2 DEF IsLastSlide
    <2>10. Cued(e)
      BY <1>2, <1>4, <2>6, <2>7, <2>9 DEF Cued
    <2> QED
      BY <1>1, <2>8, <2>10
  <1> QED
    BY <1>3, <1>4

-----------------------------------------------------------------------------
(* slide *)

\* The place that slide goes to
PlaceH(d, h) == Bounded(d, IF h = Undef THEN d.indexh ELSE h, Cardinality(HorizontalSlides))
PlaceV(d, h, v) ==
  LET v1 == IF v = Undef /\ ~d.overview THEN GetPreviousVerticalIndex(d, h) ELSE v
  IN Bounded(d, IF v1 = Undef THEN d.indexv ELSE v1, Verticals[PlaceH(d, h)])

Landed(d, e, h, v) ==
  /\ e.indexh = PlaceH(d, h) /\ e.indexv = PlaceV(d, h, v)
  /\ Aside(e, e.indexh) /\ e.overview = d.overview /\ e.paused = d.paused

\* Wherever it is sent, a deck ends at a slide, and all its parts agree on it.
LEMMA SlideEffect ==
  ASSUME NEW d, Core(d), Sorted(d), NEW h \in Int, NEW v \in Int, NEW f, IndexTyped(f),
         NEW e, e = SlideTo(d, h, v, f)
  PROVE  Good(e) /\ e.config = d.config /\ Landed(d, e, h, v) /\ (~f.set => OwnKept(d, e))
  <1> DEFINE v1 == IF v = Undef /\ ~d.overview THEN GetPreviousVerticalIndex(d, h) ELSE v
             left == IF d.cur # None /\ IsVerticalSlide(d.cur)
                     THEN SetPreviousVerticalIndex(d, d.cur[1], d.indexv) ELSE d
             newh == Bounded(d, IF h = Undef THEN d.indexh ELSE h, Cardinality(HorizontalSlides))
             newv == Bounded(d, IF v1 = Undef THEN d.indexv ELSE v1, Verticals[newh])
             changed == newh # Max({d.indexh, 0}) \/ newv # Max({d.indexv, 0})
             entered == Enter(left, newh, newv, f)
             told == DispatchIf(changed, entered, "slidechanged")
             prev == IF changed THEN d.cur ELSE None
             apart == LeavePrevious(told, prev)
             moved == StartEmbeddedContent(StopEmbeddedContent(apart, prev), apart.cur)
             shown == UpdateControls(moved)
             behind == UpdateBackground(shown, FALSE)
             written == WriteURL(behind)
  <1>1. /\ IsDeck(d) /\ d.config \in ConfigType /\ SwitchesTyped(d) /\ Placed(d) /\ FragmentsTyped(d)
        /\ NeighboursShown(d) /\ ClassesAgree(d) /\ MediaAgree(d) /\ BackgroundAgrees(d) /\ StateAgrees(d)
    BY DEF Core
  <1>2. newh \in DOMAIN Verticals /\ newv \in IndicesV(newh)
    <2>1. /\ d.indexh \in Int /\ d.indexv \in Int
          /\ v1 \in Int
      BY <1>1, PlacedShape, PreviousShape DEF ClassesAgree
    <2>2. Cardinality(HorizontalSlides) \in Nat \ {0} /\ DOMAIN Verticals = 0 .. Cardinality(HorizontalSlides) - 1
      BY Shape
    <2> HIDE DEF v1
    <2>3. newh \in DOMAIN Verticals
      <3>1. (IF h = Undef THEN d.indexh ELSE h) \in Int
        BY <2>1
      <3> QED
        BY <2>2, <3>1, BoundedEffect
    <2> HIDE DEF newh
    <2>4. newv \in IndicesV(newh)
      <3>1. (IF v1 = Undef THEN d.indexv ELSE v1) \in Int /\ Verticals[newh] \in Nat
        BY <2>1, <2>3, IndexShape
      <3>2. newh \in Stacks <=> Verticals[newh] # 0
        BY <2>3, IndexShape
      <3>3. IF newh \in Stacks THEN newv \in 0 .. Verticals[newh] - 1 ELSE newv = 0
        BY <3>1, <3>2, BoundedEffect
      <3> QED
        BY <3>3 DEF IndicesV
    <2> QED
      BY <2>3, <2>4
  <1>36. newh = PlaceH(d, h) /\ newv = PlaceV(d, h, v)
    BY DEF PlaceH, PlaceV
  <1> HIDE DEF newh, newv
  <1>3. /\ d.cur = None => newh \in Nat /\ newv \in Nat
        /\ d.cur # None => (changed <=> GetSlide(newh, newv) # d.cur)
    <2>1. newh \in Nat /\ newv \in Nat
      BY <1>2, IndexShape
    <2>2. ASSUME d.cur # None PROVE changed <=> GetSlide(newh, newv) # d.cur
      <3>1. /\ d.indexh \in Nat /\ d.indexv \in Nat /\ d.indexh \in DOMAIN Verticals
            /\ d.indexh \in Stacks => d.cur = <<d.indexh, d.indexv>>
            /\ d.indexh \notin Stacks => d.cur = <<d.indexh>> /\ d.indexv = 0
        BY <1>1, <2>2, PlacedShape, IndexShape DEF Placed
      <3>2. 0 \in Int /\ d.indexh \in Int /\ d.indexv \in Int
        BY <3>1
      <3>3. Max({d.indexh, 0}) = d.indexh /\ Max({d.indexv, 0}) = d.indexv
        BY <3>1, <3>2, MaxMin
      <3>4. changed <=> newh # d.indexh \/ newv # d.indexv
        BY <3>3
      <3>5. newh \notin Stacks => newv = 0
        BY <1>2 DEF IndicesV
      <3> QED
        BY <3>1, <3>4, <3>5 DEF GetSlide
    <2> QED
      BY <2>1, <2>2
  <1> HIDE DEF changed
  <1>4. Changes(d, left, {"prevV"}) /\ IsDeck(left)
        /\ left.prevV = IF d.cur # None /\ IsVerticalSlide(d.cur) THEN [d.prevV EXCEPT ![d.cur[1]] = d.indexv]
                        ELSE d.prevV
    BY <1>1 DEF SetPreviousVerticalIndex, Changes, IsDeck, Fields
  <1>5. FragmentsTyped(left) /\ Sorted(left) /\ StateAgrees(left)
    BY <1>1, <1>4, Frames
  <1>6. /\ left.cls = d.cls /\ left.shown = d.shown /\ left.bgVideo = d.bgVideo /\ left.enabled = d.enabled
        /\ left.cur = d.cur
    BY <1>4 DEF Changes, Fields
  <1> HIDE DEF left
  <1>7. Entered(left, entered, newh, newv) /\ (~f.set => OwnKept(left, entered))
    <2>1. ClassesTyped(left) /\ DisplayTyped(left)
      BY <1>1, <1>6 DEF ClassesAgree, ClassesTyped, BackgroundAgrees, DisplayTyped
    <2>2. left.enabled \subseteq Directions /\ left.cur \in Leaves \cup {None}
      BY <1>1, <1>6, PlacedShape DEF SwitchesTyped
    <2> QED
      BY <1>2, <1>4, <1>5, <2>1, <2>2, EnterEffect
  <1>8. IsDeck(entered) /\ entered.cur = GetSlide(newh, newv) /\ entered.cur # None /\ entered.cur \in Leaves
    BY <1>2, <1>7, SlideShape DEF Entered, Changes
  <1> HIDE DEF entered
  <1>9. Changes(entered, told, {"events"}) /\ IsDeck(told)
    BY <1>8, EventChanges DEF Changes
  <1> HIDE DEF told
  <1>10. /\ prev \in {None, d.cur}
         /\ prev = None => d.cur = None \/ entered.cur = d.cur
         /\ prev # None => entered.cur # prev
    BY <1>3, <1>8
  <1> HIDE DEF prev
  <1>11. /\ told.resetStacks = d.resetStacks /\ told.playing = d.playing /\ told.started = d.started
         /\ told.onload = d.onload /\ told.iframe = d.iframe /\ told.config = d.config /\ told.hash = d.hash
         /\ told.hashEvent = d.hashEvent /\ told.bgPlaying = d.bgPlaying /\ told.prevBg = d.prevBg
         /\ told.autoSlide = d.autoSlide /\ told.player = d.player /\ told.timer = d.timer
    BY <1>4, <1>7, <1>9 DEF Entered, EnterFields, Changes, Fields
  <1>12. ClassesAgree(apart) /\ Changes(told, apart, {"cls", "resetStacks"}) /\ apart.resetStacks \in BOOLEAN
    <2>1. d.resetStacks \in BOOLEAN
      BY <1>1 DEF SwitchesTyped
    <2> QED
      BY <1>1, <1>2, <1>4, <1>7, <1>9, <1>10, <1>11, <2>1, LeaveEffect
  <1> HIDE DEF apart
  <1>13. Changes(entered, apart, {"events", "cls", "resetStacks"}) /\ IsDeck(apart) /\ apart.cur = entered.cur
    BY <1>9, <1>12 DEF Changes, Fields
  <1>14. Changes(apart, moved, {"playing", "started", "onload", "iframe"}) /\ MediaAgree(moved)
    <2>1. /\ apart.playing = d.playing /\ apart.started = d.started /\ apart.onload = d.onload
          /\ apart.iframe = d.iframe
      BY <1>11, <1>12 DEF Changes, Fields
    <2>2. apart.playing \cup apart.started \cup apart.onload \subseteq {prev, apart.cur} \ {None}
      BY <1>1, <1>10, <1>13, <2>1 DEF MediaAgree
    <2>3. apart.iframe \in [IframeSlides -> {"blank", "loading", "loaded"}]
      BY <1>1, <2>1 DEF MediaAgree
    <2> QED
      BY <1>13, <2>2, <2>3, ContentEffect
  <1>15. IsDeck(moved) /\ moved.enabled = entered.enabled
    BY <1>13, <1>14 DEF Changes, Fields
  <1>16. e = CueAutoSlide(WriteURL(UpdateBackground(UpdateControls(moved), FALSE)))
    <2>1. ChangeContent(told, prev) = moved
      <3>1. StopEmbeddedContent(apart, prev).cur = apart.cur
        BY <1>13, ContentChanges DEF Changes, Fields
      <3> QED
        BY <3>1 DEF ChangeContent, apart
    <2> HIDE DEF moved
    <2> QED
      BY <2>1 DEF SlideTo, newh, newv, changed, left, entered, told, prev
  <1> HIDE DEF moved
  <1>17. Changes(moved, shown, {"enabled"}) /\ shown.enabled \subseteq Directions /\ ControlsAgree(shown)
    BY <1>7, <1>15, UpdateControlsEffect DEF Entered
  <1>18. Changes(entered, shown, {"events", "cls", "resetStacks", "playing", "started", "onload", "iframe", "enabled"})
         /\ IsDeck(shown)
    BY <1>13, <1>14, <1>17 DEF Changes
  <1> HIDE DEF shown
  <1>19. /\ FragmentsTyped(shown) /\ Sorted(shown) /\ NeighboursShown(shown) /\ Placed(shown) /\ StateAgrees(shown)
    BY <1>7, <1>8, <1>18, Frames DEF Entered
  <1>20. ClassesAgree(shown) /\ MediaAgree(shown)
    <2>1. Changes(apart, shown, {"playing", "started", "onload", "iframe", "enabled"})
      BY <1>14, <1>17 DEF Changes
    <2> QED
      BY <1>12, <1>13, <1>14, <1>15, <1>17, <2>1, Frames
  <1>21. /\ shown.shown = entered.shown /\ shown.bgVideo = entered.bgVideo /\ shown.cur = entered.cur
         /\ shown.config = d.config /\ shown.hash = d.hash /\ shown.hashEvent = d.hashEvent
         /\ shown.bgPlaying = d.bgPlaying /\ shown.prevBg = d.prevBg
         /\ shown.autoSlide = d.autoSlide /\ shown.player = d.player /\ shown.timer = d.timer
         /\ shown.resetStacks \in BOOLEAN
    BY <1>11, <1>12, <1>14, <1>17, <1>18 DEF Changes, Fields
  <1>22. Changes(shown, behind, {"bgCls", "bgPlaying", "prevBg"}) /\ BackgroundAgrees(behind)
    <2>1. DisplayTyped(shown) /\ shown.bgPlaying \subseteq {shown.prevBg} /\ shown.cur # None
      BY <1>1, <1>7, <1>8, <1>21 DEF Entered, DisplayTyped, BackgroundAgrees
    <2> QED
      BY <1>18, <1>19, <2>1, BackgroundEffect DEF behind
  <1> HIDE DEF behind
  <1>23. IsDeck(behind) /\ Placed(behind)
    <2>1. IsDeck(behind)
      BY <1>22 DEF Changes
    <2> QED
      BY <1>18, <1>19, <1>22, <2>1, Frames
  <1>24. /\ behind.hash = d.hash /\ behind.hashEvent = d.hashEvent /\ behind.config = d.config
         /\ behind.enabled = shown.enabled
    BY <1>21, <1>22 DEF Changes, Fields
  <1>25. /\ Changes(behind, written, {"hash", "hashEvent"}) /\ HashTyped(written) /\ written.hashEvent \in BOOLEAN
         /\ AddressAgrees(written)
    <2>1. HashTyped(behind) /\ behind.hashEvent \in BOOLEAN
      BY <1>1, <1>24 DEF SwitchesTyped, HashTyped
    <2> QED
      BY <1>23, <2>1, WriteURLEffect
  <1> HIDE DEF written
  <1>26. IsDeck(written) /\ Changes(shown, written, {"bgCls", "bgPlaying", "prevBg", "hash", "hashEvent"})
    BY <1>22, <1>25 DEF Changes
  <1>27. /\ FragmentsTyped(written) /\ written.cur \in Leaves \cup {None}
         /\ written.config.autoSlide \in AutoSlides /\ CueTyped(written)
    <2>1. FragmentsTyped(written)
      BY <1>18, <1>19, <1>26, Frames
    <2>2. written.cur = entered.cur /\ written.config = d.config /\ written.autoSlide = d.autoSlide
          /\ written.player = d.player /\ written.timer = d.timer
      BY <1>21, <1>26 DEF Changes, Fields
    <2> QED
      BY <1>1, <1>8, <2>1, <2>2 DEF SwitchesTyped, CueTyped, ConfigType, AutoSlides
  <1>28. e = CueAutoSlide(written)
    BY <1>16 DEF written, behind, shown
  <1>29. Changes(written, e, {"timer", "autoSlide", "player"}) /\ CueTyped(e) /\ Cued(e)
    BY <1>26, <1>27, <1>28, CueEffect
  <1>30. IsDeck(e) /\ Changes(shown, e, {"bgCls", "bgPlaying", "prevBg", "hash", "hashEvent", "timer", "autoSlide", "player"})
    BY <1>26, <1>29 DEF Changes
  <1>31. /\ Placed(e) /\ FragmentsTyped(e) /\ NeighboursShown(e) /\ Sorted(e) /\ ClassesAgree(e)
         /\ MediaAgree(e) /\ StateAgrees(e) /\ ControlsAgree(e)
    BY <1>17, <1>18, <1>19, <1>20, <1>30, Frames
  <1>32. BackgroundAgrees(e) /\ AddressAgrees(e)
    <2>1. Changes(behind, e, {"hash", "hashEvent", "timer", "autoSlide", "player"})
      BY <1>25, <1>29 DEF Changes
    <2> QED
      BY <1>22, <1>23, <1>25, <1>26, <1>29, <2>1, Frames
  <1>33. /\ e.config = d.config /\ e.cur # None /\ e.enabled = shown.enabled /\ e.resetStacks \in BOOLEAN
         /\ e.hash = written.hash /\ e.hashEvent = written.hashEvent
    BY <1>8, <1>21, <1>29, <1>30 DEF Changes, Fields
  <1>34. ModesTyped(e)
    <2>1. /\ e.overview = d.overview /\ e.paused = d.paused /\ e.autoSlidePaused = d.autoSlidePaused
          /\ e.overlay = d.overlay /\ e.overviewClicks = d.overviewClicks /\ e.touch = d.touch
      BY <1>4, <1>7, <1>18, <1>30 DEF Entered, EnterFields, Changes, Fields
    <2> QED
      BY <1>1, <2>1 DEF SwitchesTyped, ModesTyped
  <1>35. SwitchesTyped(e)
    BY <1>17, <1>25, <1>29, <1>33, <1>34 DEF SwitchesTyped, HashTyped
  <1>37. Landed(d, e, h, v)
    <2>1. /\ e.indexh = newh /\ e.indexv = newv /\ e.cls = apart.cls /\ e.config = entered.config
          /\ e.overview = d.overview /\ e.paused = d.paused
      BY <1>4, <1>7, <1>9, <1>12, <1>14, <1>17, <1>18, <1>30 DEF Entered, EnterFields, Changes, Fields
    <2>2. ASSUME NEW k \in DOMAIN Verticals
          PROVE  apart.cls[<<k>>] \in {told.cls[<<k>>]} \cup {x \in {""} : told.cls[<<k>>] = "present"}
      <3>1. told.cls \in [Sections -> {"", "past", "present", "future"}]
        BY <1>7, <1>9 DEF Entered, ClassesTyped, Changes, Fields
      <3>2. apart.cls = IF prev = None THEN told.cls
                        ELSE [told.cls EXCEPT ![prev] = IF @ = "present" THEN "" ELSE @]
        BY <1>9 DEF apart, LeavePrevious, IsDeck, Fields
      <3> QED
        BY <3>1, <3>2, SectionShape
    <2>3. told.cls = entered.cls /\ Aside(entered, newh)
      BY <1>7, <1>9 DEF Entered, Changes, Fields
    <2>4. Aside(e, newh)
      <3> SUFFICES ASSUME NEW k \in DOMAIN Verticals
                   PROVE  e.cls[<<k>>] = (IF e.config.rtl THEN "future" ELSE "past") <=> k < newh
        BY DEF Aside
      <3> QED
        BY <2>1, <2>2, <2>3 DEF Aside
    <2> QED
      BY <1>36, <2>1, <2>4 DEF Landed
  <1>38. ASSUME ~f.set PROVE OwnKept(d, e)
    <2>1. e.cur = entered.cur /\ e.visible = entered.visible /\ left.visible = d.visible /\ left.config = d.config
      BY <1>4, <1>18, <1>30 DEF Changes, Fields
    <2> QED
      BY <1>7, <1>38, <2>1 DEF OwnKept
  <1> QED
    BY <1>1, <1>29, <1>30, <1>31, <1>32, <1>33, <1>35, <1>37, <1>38 DEF Good, Steady, Core

-----------------------------------------------------------------------------
(* How the groups of fragments are numbered, and how many navigating shows *)

\* The numbers of integers among a finite set of them have no gaps.
LEMMA Ranks ==
  ASSUME NEW G, IsFiniteSet(G), G \subseteq Int
  PROVE  {Cardinality({g \in G : g < n}) : n \in G} = 0 .. Cardinality(G) - 1
  <1> DEFINE Below(n) == {g \in G : g < n}
             R(n) == Cardinality(Below(n))
             m == Cardinality(G)
             Image == {R(n) : n \in G}
  <1>1. m \in Nat
    BY FS_CardinalityType
  <1>2. ASSUME NEW n \in G PROVE R(n) \in 0 .. m - 1 /\ IsFiniteSet(Below(n))
    <2>1. Below(n) \subseteq G /\ n \notin Below(n)
      OBVIOUS
    <2> HIDE DEF Below
    <2>2. IsFiniteSet(Below(n)) /\ R(n) \in Nat /\ R(n) < m
      BY <2>1, SubsetCard
    <2> QED
      BY <1>1, <2>2
  <1>3. ASSUME NEW n \in G, NEW k \in G, n < k PROVE R(n) < R(k)
    <2>1. n \in Int /\ k \in Int /\ \A g \in G : g \in Int
      OBVIOUS
    <2>2. \A g \in G : g < n => g < k
      BY <1>3, <2>1
    <2>3. Below(n) \subseteq Below(k)
      BY <2>2
    <2>4. n \in Below(k) /\ n \notin Below(n)
      BY <1>3, <2>1
    <2> HIDE DEF Below
    <2> QED
      BY <1>2, <2>3, <2>4, SubsetCard
  <1>4. [n \in G |-> R(n)] \in Bijection(G, Image)
    <2>1. \A n, k \in G : R(n) = R(k) => n = k
      <3>1. \A n, k \in G : n < k \/ k < n \/ n = k
        OBVIOUS
      <3>2. \A n \in G : R(n) \in Int
        BY <1>2
      <3> HIDE DEF R
      <3> QED
        BY <1>3, <3>1, <3>2
    <2> HIDE DEF R
    <2>2. [n \in G |-> R(n)] \in Surjection(G, Image)
      BY DEF Surjection
    <2>3. [n \in G |-> R(n)] \in Injection(G, Image)
      BY <2>1 DEF Injection, IsInjective
    <2> QED
      BY <2>2, <2>3 DEF Bijection
  <1>5. Cardinality(Image) = m
    BY <1>4, FS_Bijection DEF ExistsBijection
  <1>6. Image \subseteq 0 .. m - 1
    <2> HIDE DEF R
    <2> QED
      BY <1>2
  <1>7. IsFiniteSet(0 .. m - 1) /\ Cardinality(0 .. m - 1) = m
    BY <1>1, FS_Interval
  <1> HIDE DEF Image, m
  <1>8. Image = 0 .. m - 1
    <2> DEFINE S == 0 .. m - 1
    <2>1. IsFiniteSet(S) /\ Cardinality(S) = m /\ Image \subseteq S
      BY <1>6, <1>7
    <2> HIDE DEF S
    <2>2. Image # S => Cardinality(Image) < Cardinality(S)
      BY <2>1, SubsetCard
    <2>3. Image = S
      BY <1>1, <1>5, <2>1, <2>2
    <2> QED
      BY <2>3 DEF S
  <1> QED
    BY <1>8 DEF Image, m

LEMMA NumbersBelow ==
  ASSUME NEW m \in Nat, NEW n \in 0 .. m - 1
  PROVE  Cardinality({g \in 0 .. m - 1 : g < n}) = n
  <1>1. {g \in 0 .. m - 1 : g < n} = 0 .. n - 1
    OBVIOUS
  <1>2. Cardinality(0 .. n - 1) = n
    BY FS_Interval
  <1> QED
    BY <1>1, <1>2

\* The numbers of the fragments F have no gaps.
Dense(num, F) == \E m \in Nat : {num[f] : f \in F} = 0 .. m - 1

\* Sorting leaves no gap, and where there is none it changes nothing.
LEMMA SortDense ==
  ASSUME NEW d, IsDeck(d), NEW F, F \subseteq Fragments, IsFiniteSet(F),
         \A f \in F : d.fidx[f] \in Nat,
         NEW e, e = SortFragments(d, F)
  PROVE  Dense(e.fidx, F) /\ (Dense(d.fidx, F) => \A f \in F : e.fidx[f] = d.fidx[f])
  <1> DEFINE G == {d.fidx[f] : f \in F}
             Below(n) == {g \in G : g < n}
  <1>1. ASSUME NEW f \in F PROVE e.fidx[f] = Cardinality(Below(d.fidx[f]))
    <2> DEFINE ordered == {x \in F : d.fidx[x] # Undef}
               groups == {d.fidx[x] : x \in ordered}
    <2>1. ordered = F
      BY DEF Undef
    <2>2. e.fidx[f] = IF f \in ordered THEN Cardinality({g \in groups : g < d.fidx[f]})
                      ELSE Cardinality(groups) + Cardinality({x \in F \ ordered : x[2] < f[2]})
      BY DEF SortFragments, IsDeck, Fields
    <2>3. groups = G
      BY <2>1
    <2> HIDE DEF groups, ordered
    <2> QED
      BY <2>1, <2>2, <2>3
  <1>2. IsFiniteSet(G) /\ G \subseteq Int
    <2>1. [f \in F |-> d.fidx[f]] \in Surjection(F, G)
      BY DEF Surjection
    <2> QED
      BY <2>1, FS_Surjection
  <1>3. Dense(e.fidx, F)
    <2>1. {e.fidx[f] : f \in F} = {Cardinality(Below(n)) : n \in G}
      <3> HIDE DEF Below
      <3> QED
        BY <1>1
    <2>2. {Cardinality(Below(n)) : n \in G} = 0 .. Cardinality(G) - 1
      <3> HIDE DEF G
      <3> QED
        BY <1>2, Ranks
    <2>3. Cardinality(G) \in Nat
      BY <1>2, FS_CardinalityType
    <2> HIDE DEF G, Below
    <2> QED
      BY <2>1, <2>2, <2>3 DEF Dense
  <1>4. ASSUME Dense(d.fidx, F), NEW f \in F PROVE e.fidx[f] = d.fidx[f]
    <2>1. PICK m \in Nat : G = 0 .. m - 1
      BY <1>4 DEF Dense
    <2>2. d.fidx[f] \in G
      OBVIOUS
    <2> HIDE DEF G
    <2> QED
      BY <1>1, <2>1, <2>2, NumbersBelow
  <1> QED
    BY <1>3, <1>4

\* Of the fragments F those in V are the first K groups.
FirstGroups(num, F, V, K) ==
  /\ \A f \in F : f \in V <=> num[f] < K
  /\ \A n \in 0 .. K - 1 : \E f \in F : num[f] = n
  /\ (\E f \in F : num[f] >= K) => \E f \in F : num[f] = K

LEMMA GroupsShown ==
  ASSUME NEW d, IsDeck(d), FragmentsTyped(d), Sorted(d), NEW l \in Leaves,
         NEW num, num = SortFragments(d, FragmentsOf(l)).fidx
  PROVE  /\ Dense(num, FragmentsOf(l)) /\ \A f \in FragmentsOf(l) : num[f] \in Nat
         /\ \E K \in Nat : FirstGroups(num, FragmentsOf(l), d.visible, K)
  <1> DEFINE F == FragmentsOf(l)
             W == {num[f] : f \in F \cap d.visible}
             K == IF W = {} THEN 0 ELSE Max(W) + 1
  <1>1. F \subseteq Fragments /\ IsFiniteSet(F) /\ \A f \in F : f[1] = l
    BY FragmentShape
  <1>2. \A f \in F : d.fidx[f] \in Nat
    BY <1>1 DEF Sorted, Numbered
  <1>3. /\ \A f \in F : num[f] \in Nat
        /\ \A f, g \in F : num[g] <= num[f] => d.fidx[g] <= d.fidx[f]
    <2> HIDE DEF F
    <2> QED
      BY <1>1, <1>2, SortEffect DEF F
  <1>4. Dense(num, F)
    <2> HIDE DEF F
    <2> QED
      BY <1>1, <1>2, SortDense DEF F
  <1>5. \A f, g \in F : f \in d.visible /\ num[g] <= num[f] => g \in d.visible
    BY <1>1, <1>3 DEF Sorted, PrefixShown
  <1>6. IsFiniteSet(W) /\ W \subseteq Nat /\ W \subseteq Int
    <2>1. IsFiniteSet(F \cap d.visible)
      BY <1>1, FS_Subset
    <2>2. [f \in F \cap d.visible |-> num[f]] \in Surjection(F \cap d.visible, W)
      BY DEF Surjection
    <2> HIDE DEF F
    <2> QED
      BY <1>3, <2>1, <2>2, FS_Surjection
  <1>7. K \in Nat /\ \A n \in W : n < K
    <2> DEFINE M == Max(W)
    <2>1. W # {} => M \in W /\ \A n \in W : n <= M
      <3> HIDE DEF W
      <3> QED
        BY <1>6, MaxExists
    <2>2. K = IF W = {} THEN 0 ELSE M + 1
      OBVIOUS
    <2> HIDE DEF K, M, W
    <2>3. CASE W = {}
      BY <2>2, <2>3
    <2>4. CASE W # {}
      <3>1. M \in Nat /\ K = M + 1 /\ \A n \in W : n \in Nat /\ n <= M
        BY <1>6, <2>1, <2>2, <2>4
      <3> QED
        BY <3>1
    <2> QED
      BY <2>3, <2>4
  <1>8. K > 0 => \E f \in F \cap d.visible : num[f] = K - 1
    <2> DEFINE M == Max(W)
    <2>1. W # {} => M \in W
      <3> HIDE DEF W
      <3> QED
        BY <1>6, MaxExists
    <2>2. K = IF W = {} THEN 0 ELSE M + 1
      OBVIOUS
    <2> HIDE DEF K, M
    <2>3. ASSUME K > 0 PROVE W # {} /\ K = M + 1
      <3> HIDE DEF W
      <3> QED
        BY <2>2, <2>3
    <2>4. ASSUME K > 0 PROVE \E f \in F \cap d.visible : num[f] = M /\ M \in Nat
      BY <1>6, <2>1, <2>3, <2>4
    <2>5. M \in Nat => M = (M + 1) - 1
      OBVIOUS
    <2> HIDE DEF W
    <2> QED
      BY <2>3, <2>4, <2>5
  <1>9. \A f \in F : f \in d.visible <=> num[f] < K
    <2>1. ASSUME NEW f \in F, f \in d.visible PROVE num[f] < K
      <3>1. num[f] \in W
        BY <2>1
      <3> HIDE DEF W, K
      <3> QED
        BY <1>7, <3>1
    <2>2. ASSUME NEW f \in F, num[f] < K PROVE f \in d.visible
      <3> HIDE DEF W, K
      <3>1. K > 0 /\ num[f] <= K - 1
        BY <1>3, <1>7, <2>2
      <3> QED
        BY <1>5, <1>8, <3>1
    <2> QED
      BY <2>1, <2>2
  <1>10. FirstGroups(num, F, d.visible, K)
    <2> HIDE DEF K, W
    <2>1. PICK m \in Nat : {num[f] : f \in F} = 0 .. m - 1
      BY <1>4 DEF Dense
    <2>2. \A n \in 0 .. m - 1 : \E f \in F : num[f] = n
      BY <2>1
    <2>3. \A f \in F : num[f] \in 0 .. m - 1
      BY <2>1
    <2>4. \A n \in 0 .. K - 1 : n \in 0 .. m - 1
      BY <1>7, <1>8, <2>3
    <2>5. (\E f \in F : num[f] >= K) => K \in 0 .. m - 1
      BY <1>7, <2>3
    <2> QED
      BY <1>9, <2>2, <2>4, <2>5 DEF FirstGroups
  <1> QED
    BY <1>3, <1>4, <1>7, <1>10

\* Navigating by an offset shows so many groups more.
LEMMA FragmentStep ==
  ASSUME NEW d, IsDeck(d), FragmentsTyped(d), Sorted(d), d.cur \in Leaves, d.enabled \subseteq Directions,
         d.config.fragments, NEW offset \in Int, NEW e, e = NavigateFragment(d, NoIndex, offset),
         NEW num, num = SortFragments(d, FragmentsOf(d.cur)).fidx,
         NEW K \in Nat, FirstGroups(num, FragmentsOf(d.cur), d.visible, K)
  PROVE  \A f \in FragmentsOf(d.cur) : e.fidx[f] = num[f] /\ (f \in e.visible <=> num[f] < K + offset)
  <1> DEFINE l == d.cur
             F == FragmentsOf(l)
             a == SortFragments(d, F)
             b == SortFragments(a, F \cap a.visible)
             seen == F \cap b.visible
             last == IF seen = {} THEN -1 ELSE Max({b.fidx[f] : f \in seen})
             c == ShowUpTo(b, F, last + offset)
             g == FragmentEvents(d, c)
  <1>1. CASE F = {}
    BY <1>1
  <1>2. CASE F # {}
    <2>1. e = UpdateControls(g)
      BY <1>2 DEF NavigateFragment, ShowFromLast, NoIndex
    <2>2. F \subseteq Fragments /\ IsFiniteSet(F) /\ F \subseteq FragmentsOf(l)
      BY FragmentShape
    <2>3. \A f \in F : num[f] \in Nat
      BY GroupsShown
    <2>4. num = a.fidx /\ FirstGroups(num, F, d.visible, K)
      OBVIOUS
    <2> HIDE DEF F
    <2>5. /\ IsDeck(a) /\ a.visible = d.visible
      BY SortChanges DEF Changes, Fields
    <2> HIDE DEF a
    <2>6. /\ IsDeck(b) /\ b.visible = d.visible
      BY <2>5, SortChanges DEF Changes, Fields
    <2>7. \A f \in F : b.fidx[f] = num[f]
      <3> DEFINE V == F \cap a.visible
      <3>1. V \subseteq Fragments /\ IsFiniteSet(V) /\ \A f \in V : a.fidx[f] \in Nat
        BY <2>2, <2>3, <2>4, FS_Subset
      <3>2. {a.fidx[f] : f \in V} = 0 .. K - 1
        <4>1. \A f \in F : f \in V <=> num[f] < K
          BY <2>4, <2>5 DEF FirstGroups
        <4>2. \A n \in 0 .. K - 1 : \E f \in F : num[f] = n
          BY <2>4 DEF FirstGroups
        <4> HIDE DEF V
        <4>3. \A f \in V : f \in F
          BY DEF V
        <4>4. \A n \in 0 .. K - 1 : \E f \in V : num[f] = n
          BY <4>1, <4>2
        <4>5. \A f \in V : num[f] \in 0 .. K - 1
          BY <2>3, <4>1, <4>3
        <4> QED
          BY <2>4, <4>4, <4>5
      <3>3. Dense(a.fidx, V)
        BY <3>2 DEF Dense
      <3>4. b = SortFragments(a, V)
        OBVIOUS
      <3>5. \A f \in V : b.fidx[f] = a.fidx[f]
        <4> HIDE DEF V, b
        <4> QED
          BY <2>5, <3>1, <3>3, <3>4, SortDense
      <3>6. \A f \in Fragments \ V : b.fidx[f] = a.fidx[f]
        <4> HIDE DEF V, b
        <4> QED
          BY <2>5, <3>4 DEF SortFragments, IsDeck, Fields
      <3> HIDE DEF V, b
      <3> QED
        BY <2>2, <2>4, <3>5, <3>6
    <2> HIDE DEF b
    <2>8. last = K - 1
      <3>1. \A f \in F : f \in seen <=> num[f] < K
        BY <2>4, <2>6 DEF FirstGroups
      <3>2. \A n \in 0 .. K - 1 : \E f \in F : num[f] = n
        BY <2>4 DEF FirstGroups
      <3>3. \A f \in seen : f \in F
        OBVIOUS
      <3> HIDE DEF seen
      <3>4. \A n \in 0 .. K - 1 : \E f \in seen : num[f] = n
        BY <3>1, <3>2
      <3>5. \A f \in seen : num[f] \in 0 .. K - 1
        BY <2>3, <3>1, <3>3
      <3>6. {b.fidx[f] : f \in seen} = 0 .. K - 1
        BY <2>7, <3>3, <3>4, <3>5
      <3>7. CASE K = 0
        BY <3>5, <3>7
      <3>8. CASE K > 0
        <4>1. seen # {} /\ IsFiniteSet(0 .. K - 1) /\ 0 .. K - 1 # {} /\ 0 .. K - 1 \subseteq Int
          <5>4. 0 .. K - 1 \subseteq Int
            OBVIOUS
          <5>1. 0 \in 0 .. K - 1 /\ 0 \in Int /\ K - 1 \in Int
            BY <3>8
          <5>2. IsFiniteSet(0 .. K - 1)
            BY <5>1, FS_Interval
          <5>3. seen # {}
            BY <3>4, <5>1
          <5> QED
            BY <5>1, <5>2, <5>3, <5>4
        <4>2. Max(0 .. K - 1) \in 0 .. K - 1 /\ \A x \in 0 .. K - 1 : x <= Max(0 .. K - 1)
          BY <4>1, MaxExists
        <4>3. Max(0 .. K - 1) = K - 1
          BY <3>8, <4>2
        <4> QED
          BY <3>6, <4>1, <4>3
      <3> QED
        BY <3>7, <3>8
    <2> HIDE DEF last
    <2>9. /\ IsDeck(c) /\ c.fidx = b.fidx
          /\ \A f \in F : f \in c.visible <=> b.fidx[f] <= last + offset
      BY <2>6 DEF ShowUpTo, IsDeck, Fields
    <2> HIDE DEF c
    <2>10. IsDeck(g) /\ g.fidx = c.fidx /\ g.visible = c.visible
      <3>1. \A x : IsDeck(x) => \A condition, type : IsDeck(DispatchIf(condition, x, type))
              /\ Changes(x, DispatchIf(condition, x, type), {"events"})
        BY EventChanges DEF Changes
      <3>2. Changes(c, g, {"events"})
        BY <2>9, <3>1 DEF FragmentEvents, Changes
      <3> QED
        BY <3>2 DEF Changes, Fields
    <2> HIDE DEF g
    <2>11. e.fidx = c.fidx /\ e.visible = c.visible
      BY <2>1, <2>10, ControlsChanges DEF Changes, Fields
    <2>12. \A f \in F : b.fidx[f] <= last + offset <=> num[f] < K + offset
      BY <2>3, <2>7, <2>8
    <2> QED
      BY <2>7, <2>9, <2>11, <2>12 DEF F
  <1> QED
    BY <1>1, <1>2
=============================================================================
