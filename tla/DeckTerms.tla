----------------------------- MODULE DeckTerms -----------------------------
(***************************************************************************)
(* What the properties of a deck speak of: the order of its slides, the    *)
(* names in its data-state, the place an address leads to.                 *)
(***************************************************************************)
EXTENDS Reveal

\* The slides in the order of the deck
Precedes(s, t) ==
  s[1] < t[1] \/ (s[1] = t[1] /\ IsVerticalSlide(s) /\ IsVerticalSlide(t) /\ s[2] < t[2])
Rank(s) == Cardinality({t \in Leaves : Precedes(t, s)})

\* The names in the data-state of a slide and of its stack
StateOf(l) == IF IsVerticalSlide(l) THEN DataState[<<l[1]>>] \o DataState[l] ELSE DataState[l]
\* No slide is given a name twice, by itself or with its stack.
NamesOnce == \A l \in Leaves : \A i, j \in DOMAIN StateOf(l) : StateOf(l)[i] = StateOf(l)[j] => i = j

\* The name a slide has in the address is its id, and no other slide has that one.
IdsSurvive ==
  \A s \in Leaves : Slug[SlideId[s]] # "" => {t \in Sections : SlideId[t] = Slug[SlideId[s]]} = {s}

\* Where an address leads
Target(url) ==
  IF url.name = "" THEN <<url.h, url.v>>
  ELSE LET s == CHOOSE s \in Sections : SlideId[s] = url.name
       IN <<s[1], IF IsVerticalSlide(s) THEN s[2] ELSE 0>>

=============================================================================
