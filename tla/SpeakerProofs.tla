--------------------------- MODULE SpeakerProofs ----------------------------
(***************************************************************************)
(* The windows of a speaker, for every deck, every configuration and any   *)
(* number of keys: the notes window is set up once, what the windows keep  *)
(* and send stays in its ranges, the audience of a multiplex ends up where *)
(* the presentation is, the current slide like it, and the upcoming slide  *)
(* one step ahead.                                                         *)
(***************************************************************************)
EXTENDS SpeakerProps, HandlerProofs

-----------------------------------------------------------------------------
(* What is heard of the events of a deck *)

LEMMA HeardLast ==
  ASSUME NEW d, d.events \in Seq(Event), NEW types, NEW s, s = Heard(d, types)
  PROVE  /\ s \in Seq(Event)
         /\ \A i \in DOMAIN s : s[i].type \in types
         /\ \A before, state :
              LastIs(d.events, types, before, state) =>
                (s = <<>> => state = before) /\ (s # <<>> => s[Len(s)].state = state)
  <1> DEFINE events == d.events
             at == {i \in DOMAIN events : events[i].type \in types}
             UpTo(i) == {j \in at : j <= i}
             Below(i) == {j \in at : j < i}
             Nth(k) == CHOOSE i \in at : Cardinality(UpTo(i)) = k
             c == Cardinality(at)
  <1>1. s = [k \in 1 .. c |-> events[Nth(k)]]
    BY DEF Heard
  <1> HIDE DEF UpTo, Below, Nth, c
  <1>2. at \subseteq Int /\ IsFiniteSet(at) /\ c \in Nat
    <2>1. DOMAIN events = 1 .. Len(events) /\ Len(events) \in Nat
      OBVIOUS
    <2>2. IsFiniteSet(1 .. Len(events))
      BY <2>1, FS_Interval
    <2>3. at \subseteq 1 .. Len(events)
      BY <2>1
    <2> HIDE DEF at
    <2>4. IsFiniteSet(at)
      BY <2>2, <2>3, FS_Subset
    <2>5. at \subseteq Int
      BY <2>1, <2>3
    <2> QED
      BY <2>4, <2>5, FS_CardinalityType DEF c
  <1>3. \A i \in at : events[i] \in Event /\ events[i].type \in types /\ i \in DOMAIN events
    OBVIOUS
  <1>4. \A i \in DOMAIN events : i \notin at => events[i].type \notin types
    OBVIOUS
  <1> HIDE DEF at
  <1>5. ASSUME NEW i \in at
        PROVE  Cardinality(UpTo(i)) = Cardinality(Below(i)) + 1
    <2>1. UpTo(i) = Below(i) \cup {i} /\ i \notin Below(i)
      <3>1. /\ \A j \in at : j <= i <=> j < i \/ j = i
            /\ ~(i < i)
        BY <1>2
      <3> QED
        BY <3>1 DEF UpTo, Below
    <2>2. IsFiniteSet(Below(i))
      <3>1. Below(i) \subseteq at
        BY DEF Below
      <3> QED
        BY <1>2, <3>1, FS_Subset
    <2>3. Cardinality(Below(i) \cup {i}) = Cardinality(Below(i)) + 1
      BY <2>1, <2>2, FS_AddElement
    <2> QED
      BY <2>1, <2>3
  <1>6. {Cardinality(Below(i)) : i \in at} = 0 .. c - 1
    BY <1>2, Ranks DEF Below, c
  <1>7. ASSUME NEW k \in 1 .. c PROVE Nth(k) \in at /\ Cardinality(UpTo(Nth(k))) = k
    <2>1. k - 1 \in 0 .. c - 1
      BY <1>2
    <2>2. PICK i \in at : Cardinality(Below(i)) = k - 1
      BY <1>6, <2>1
    <2>3. Cardinality(UpTo(i)) = k
      <3>1. Cardinality(UpTo(i)) = (k - 1) + 1
        BY <1>5, <2>2
      <3> QED
        BY <1>2, <3>1
    <2> QED
      BY <2>3 DEF Nth
  <1>8. s \in Seq(Event) /\ Len(s) = c /\ DOMAIN s = 1 .. c
    <2>1. \A k \in 1 .. c : events[Nth(k)] \in Event
      BY <1>3, <1>7
    <2> HIDE DEF events
    <2> QED
      BY <1>1, <1>2, <2>1
  <1>9. \A i \in DOMAIN s : s[i].type \in types
    BY <1>1, <1>3, <1>7, <1>8
  <1>10. s = <<>> <=> at = {}
    <2>1. s = <<>> <=> Len(s) = 0
      BY <1>8, EmptySeq
    <2>2. c = 0 <=> at = {}
      BY <1>2, FS_EmptySet DEF c
    <2> QED
      BY <1>8, <2>1, <2>2
  <1>11. ASSUME s # <<>> PROVE Nth(c) \in at /\ (\A j \in at : j <= Nth(c)) /\ s[Len(s)] = events[Nth(c)]
    <2>1. c # 0
      BY <1>2, <1>10, <1>11, FS_EmptySet DEF c
    <2>2. c \in 1 .. c
      BY <1>2, <2>1
    <2>3. Nth(c) \in at /\ Cardinality(UpTo(Nth(c))) = c
      BY <1>7, <2>2
    <2>4. UpTo(Nth(c)) \subseteq at
      BY DEF UpTo
    <2>5. UpTo(Nth(c)) = at
      BY <1>2, <2>3, <2>4, FS_Subset DEF c
    <2> QED
      BY <1>1, <1>8, <2>2, <2>3, <2>5 DEF UpTo
  <1>12. ASSUME NEW before, NEW state, LastIs(events, types, before, state)
         PROVE  (s = <<>> => state = before) /\ (s # <<>> => s[Len(s)].state = state)
    <2> HIDE DEF events
    <2>1. CASE s = <<>>
      <3>1. \A i \in DOMAIN events : events[i].type \notin types
        BY <1>4, <1>10, <2>1
      <3> QED
        BY <1>12, <2>1, <3>1 DEF LastIs
    <2>2. CASE s # <<>>
      <3>1. /\ Nth(c) \in at /\ (\A j \in at : j <= Nth(c)) /\ s[Len(s)] = events[Nth(c)]
        BY <1>11, <2>2
      <3>2. PICK i \in DOMAIN events :
              /\ events[i].type \in types /\ events[i].state = state
              /\ \A j \in DOMAIN events : j > i => events[j].type \notin types
        BY <1>3, <1>12, <3>1 DEF LastIs
      <3>3. i \in at
        BY <1>4, <3>2 DEF events
      <3>4. ~(Nth(c) > i)
        BY <1>3, <3>1, <3>2
      <3>5. i = Nth(c)
        <4>1. i \in Int /\ Nth(c) \in Int /\ i <= Nth(c)
          BY <1>2, <3>1, <3>3
        <4> QED
          BY <3>4, <4>1
      <3> QED
        BY <2>2, <3>1, <3>2, <3>5
    <2> QED
      BY <2>1, <2>2
  <1> QED
    BY <1>8, <1>9, <1>12

\* In particular, of what is heard last:
LEMMA LastHeard ==
  ASSUME NEW d, d.events \in Seq(Event), NEW types, NEW before, NEW state, LastIs(d.events, types, before, state)
  PROVE  /\ Heard(d, types) = <<>> => state = before
         /\ Heard(d, types) # <<>> => Heard(d, types)[Len(Heard(d, types))].state = state
  BY HeardLast

\* One who knows the deck before a handler knows it after, by the last event that is
\* heard of it, or by none.
LEMMA HeardTells ==
  ASSUME NEW types, NEW all \in BOOLEAN, NEW c, Tellable(c), Faithful(c), c.events = <<>>,
         NEW d, Follows(types, all, c, d), NEW s, s = Heard(d, types)
  PROVE  /\ s # <<>> => s[Len(s)].state \in State /\ Tells(s[Len(s)].state, d, all)
         /\ s = <<>> => \A before \in State : Tells(before, c, all) => Tells(before, d, all)
  <1>1. ASSUME NEW before \in State, Tells(before, c, all)
        PROVE  \E state \in State : LastIs(d.events, types, before, state) /\ Tells(state, d, all)
    <2>1. LastIs(c.events, types, before, before)
      BY DEF LastIs
    <2>2. Told(types, all, before, c)
      BY <1>1, <2>1 DEF Told
    <2> QED
      BY <2>2 DEF Follows, Told
  <1>2. ASSUME NEW before, NEW state, LastIs(d.events, types, before, state)
        PROVE  (s = <<>> => state = before) /\ (s # <<>> => s[Len(s)].state = state)
    <2>1. Faithful(d)
      BY DEF Follows
    <2>2. d.events \in Seq(Event)
      BY Zenon, <2>1 DEF Faithful
    <2> QED
      BY <1>2, <2>2, LastHeard
  <1>3. GetState(c) \in State /\ Tells(GetState(c), c, all)
    BY StateTells DEF Faithful, Tells
  <1> QED
    BY <1>1, <1>2, <1>3

-----------------------------------------------------------------------------
(* The notes window is set up once *)

\* The iframes are there from the first connect message on.
SetUpInv ==
  /\ DOMAIN notes = {"phase", "connected", "currentState", "pending", "recent", "reached"}
  /\ ~notes.connected => current.phase = "none" /\ upcoming.phase = "none"

LEMMA SetUpInit == Init => SetUpInv
  <1> SUFFICES ASSUME Init PROVE SetUpInv
    OBVIOUS
  <1>1. /\ notes = [phase |-> "closed", connected |-> FALSE, currentState |-> {},
                    pending |-> {}, recent |-> FALSE, reached |-> FALSE]
        /\ current = Iframe("none", 0, 0) /\ upcoming = Iframe("none", 0, 0)
    BY Zenon DEF Init
  <1>2. current.phase = "none" /\ upcoming.phase = "none"
    BY <1>1 DEF Iframe
  <1> QED
    BY <1>1, <1>2 DEF SetUpInv

\* Only the connect message sets the iframes up; whatever else they do, they load
\* before they start, and do not go back.
LEMMA SetUpNext ==
  ASSUME SetUpInv, [Next]_vars
  PROVE  /\ SetUpInv'
         /\ Loaded(current) => Loaded(current')
         /\ Loaded(upcoming) => Loaded(upcoming')
  <1>1. CASE notes' = notes /\ current' = current /\ upcoming' = upcoming
    BY <1>1 DEF SetUpInv, Loaded
  <1>2. CASE HandleConnectMessage
    <2>1. CASE notes.connected
      BY <1>1, <1>2, <2>1 DEF HandleConnectMessage
    <2>2. CASE ~notes.connected
      <3>1. /\ notes' = [notes EXCEPT !.connected = TRUE]
            /\ current.phase = "none" /\ upcoming.phase = "none"
        BY <1>2, <2>2 DEF HandleConnectMessage, SetUpInv
      <3>2. notes'.connected /\ DOMAIN notes' = DOMAIN notes
        BY <3>1 DEF SetUpInv
      <3> QED
        BY <3>1, <3>2 DEF SetUpInv, Loaded
    <2> QED
      BY <2>1, <2>2
  <1>3. ASSUME NEW s, NEW m, ApplyStateMessage(s, m), current' = current, upcoming' = upcoming
        PROVE  SetUpInv' /\ notes'.connected = notes.connected
    BY <1>3 DEF ApplyStateMessage, SetUpInv
  <1>4. CASE HandleStateMessage
    <2>1. current' = current /\ upcoming' = upcoming
      BY <1>4 DEF HandleStateMessage
    <2>2. SetUpInv'
      <3>1. CASE notes.recent
        BY <1>4, <2>1, <3>1 DEF HandleStateMessage, SetUpInv
      <3>2. CASE ~notes.recent
        BY <1>3, <1>4, <2>1, <3>2 DEF HandleStateMessage
      <3> QED
        BY <3>1, <3>2
    <2> QED
      BY <2>1, <2>2 DEF Loaded
  <1>5. CASE DebounceTimeout
    <2>1. current' = current /\ upcoming' = upcoming
      BY <1>5 DEF DebounceTimeout
    <2>2. SetUpInv'
      <3>1. CASE notes.pending = {}
        BY <1>5, <2>1, <3>1 DEF DebounceTimeout, SetUpInv
      <3>2. CASE notes.pending # {}
        BY <1>3, <1>5, <2>1, <3>2 DEF DebounceTimeout
      <3> QED
        BY <3>1, <3>2
    <2> QED
      BY <2>1, <2>2 DEF Loaded
  <1>6. CASE NotesLoad
    BY <1>6 DEF NotesLoad, SetUpInv, Loaded
  <1>7. CASE OpenNotes
    BY <1>7 DEF OpenNotes, SetUpInv, Loaded
  <1>8. ASSUME NEW d, NEW phase, NEW m, Show1(d, phase, m),
               current.phase # "none" => phase # "none", current.phase = "none" => phase = "none",
               Loaded(current) => phase \in {"started", "ready"}
        PROVE  SetUpInv' /\ (Loaded(current) => Loaded(current')) /\ upcoming' = upcoming
    BY <1>8 DEF Show1, SetUpInv, Loaded
  <1>9. CASE CurrentLoad \/ CurrentReady \/ CurrentReceives
    <2>1. CASE CurrentLoad
      BY <1>8, <2>1 DEF CurrentLoad, Loaded
    <2>2. CASE CurrentReady
      BY <1>8, <2>2 DEF CurrentReady, Loaded
    <2>3. CASE CurrentReceives
      BY <1>8, <2>3 DEF CurrentReceives, Loaded
    <2> QED
      BY <1>9, <2>1, <2>2, <2>3
  <1>10. CASE UpcomingLoad
    BY <1>10 DEF UpcomingLoad, SetUpInv, Loaded
  <1>11. CASE UpcomingReceives
    <2>1. upcoming'.phase = upcoming.phase /\ notes' = notes /\ current' = current
      <3>1. PICK d : upcoming' = [upcoming EXCEPT !.deck = [d EXCEPT !.events = <<>>]]
        BY <1>11 DEF UpcomingReceives
      <3> QED
        BY <1>11, <3>1 DEF UpcomingReceives
    <2> QED
      BY <2>1 DEF SetUpInv, Loaded
  <1>12. CASE \/ ConnectInterval \/ PresenterReceives \/ HandleRevealEvent \/ ServerBroadcasts
              \/ AudienceReceives \/ AudienceJoins
              \/ \E key \in Keys : SpeakerKey(key) \/ NotesKey(key)
    BY <1>1, <1>12 DEF ConnectInterval, PresenterReceives, HandleRevealEvent, ServerBroadcasts,
         AudienceReceives, AudienceJoins, SpeakerKey, NotesKey
  <1>13. CASE UNCHANGED vars
    BY <1>1, <1>13 DEF vars
  <1> QED
    BY <1>2, <1>4, <1>5, <1>6, <1>7, <1>9, <1>10, <1>11, <1>12, <1>13 DEF Next, Machine

\* A connect message that comes while the iframes load, or after, leaves them alone.
THEOREM SetUpOnly == Spec => SetUpOnce
  <1>1. SetUpInv /\ [Next]_vars => SetUpInv'
    BY SetUpNext
  <1>2. SetUpInv /\ [Next]_vars => [/\ Loaded(current) => Loaded(current')
                                    /\ Loaded(upcoming) => Loaded(upcoming')]_vars
    BY SetUpNext
  <1> QED
    BY <1>1, <1>2, SetUpInit, PTL DEF Spec, SetUpOnce

-----------------------------------------------------------------------------
(* The messages under way *)

Ways == {"toNotes", "toPresenter", "fromCurrent", "toCurrent", "toUpcoming", "toServer", "toAudience"}

\* From m to n the mail changes on these ways at most.
OnWays(m, n, ways) == DOMAIN n = Ways /\ \A way \in Ways \ ways : n[way] = m[way]

LEMMA OnWaysExcept ==
  ASSUME NEW m, DOMAIN m = Ways
  PROVE  /\ OnWays(m, m, {})
         /\ \A x : /\ OnWays(m, [m EXCEPT !.toNotes = x], {"toNotes"})
                   /\ OnWays(m, [m EXCEPT !.toPresenter = x], {"toPresenter"})
                   /\ OnWays(m, [m EXCEPT !.fromCurrent = x], {"fromCurrent"})
                   /\ OnWays(m, [m EXCEPT !.toCurrent = x], {"toCurrent"})
                   /\ OnWays(m, [m EXCEPT !.toUpcoming = x], {"toUpcoming"})
                   /\ OnWays(m, [m EXCEPT !.toAudience = x], {"toAudience"})
                   /\ [m EXCEPT !.toNotes = x].toNotes = x
                   /\ [m EXCEPT !.toPresenter = x].toPresenter = x
                   /\ [m EXCEPT !.fromCurrent = x].fromCurrent = x
                   /\ [m EXCEPT !.toCurrent = x].toCurrent = x
                   /\ [m EXCEPT !.toUpcoming = x].toUpcoming = x
                   /\ [m EXCEPT !.toAudience = x].toAudience = x
  BY DEF OnWays, Ways

LEMMA OnWaysTrans ==
  ASSUME NEW m, NEW n, NEW o, NEW A, NEW B, OnWays(m, n, A), OnWays(n, o, B)
  PROVE  OnWays(m, o, A \cup B)
  BY DEF OnWays

LEMMA LastOfTail ==
  ASSUME NEW S, NEW s \in Seq(S), s # <<>>
  PROVE  /\ Tail(s) \in Seq(S) /\ Head(s) \in S /\ s[Len(s)] \in S /\ Head(s) = s[1] /\ Len(s) \in Nat \ {0}
         /\ Len(Tail(s)) = Len(s) - 1
         /\ \A i \in 1 .. Len(s) - 1 : Tail(s)[i] = s[i + 1]
         /\ Tail(s) = <<>> <=> Len(s) = 1
         /\ Tail(s) = <<>> => Head(s) = s[Len(s)]
         /\ Tail(s) # <<>> => Tail(s)[Len(Tail(s))] = s[Len(s)]
  <1>1. Len(s) \in Nat \ {0} /\ Tail(s) \in Seq(S) /\ Head(s) \in S /\ Head(s) = s[1] /\ s[Len(s)] \in S
    <2>1. Len(s) \in Nat /\ Len(s) # 0
      BY EmptySeq
    <2>2. Len(s) \in 1 .. Len(s)
      BY <2>1
    <2> QED
      BY <2>1, <2>2, HeadTailProperties, ElementOfSeq
  <1>2. Len(Tail(s)) = Len(s) - 1 /\ \A i \in 1 .. Len(s) - 1 : Tail(s)[i] = s[i + 1]
    BY HeadTailProperties
  <1>3. Tail(s) = <<>> <=> Len(Tail(s)) = 0
    BY <1>1, EmptySeq
  <1>4. Tail(s) = <<>> <=> Len(s) = 1
    BY <1>1, <1>2, <1>3
  <1>5. Tail(s) # <<>> => Len(s) - 1 \in 1 .. Len(s) - 1
    BY <1>1, <1>4
  <1>6. (Len(s) - 1) + 1 = Len(s)
    BY <1>1
  <1> QED
    BY <1>1, <1>2, <1>4, <1>5, <1>6

LEMMA LastOfConcat ==
  ASSUME NEW S, NEW s \in Seq(S), NEW t \in Seq(S)
  PROVE  /\ s \o t \in Seq(S)
         /\ t = <<>> => s \o t = s
         /\ t # <<>> => /\ s \o t # <<>> /\ (s \o t)[Len(s \o t)] = t[Len(t)]
                        /\ Len(s \o t) = Len(s) + Len(t)
                        /\ \A i \in 1 .. Len(t) : (s \o t)[Len(s) + i] = t[i]
  <1>1. /\ s \o t \in Seq(S) /\ Len(s \o t) = Len(s) + Len(t)
        /\ \A i \in 1 .. Len(s) + Len(t) : (s \o t)[i] = IF i <= Len(s) THEN s[i] ELSE t[i - Len(s)]
    BY ConcatProperties
  <1>2. Len(s) \in Nat /\ Len(t) \in Nat
    OBVIOUS
  <1>3. t = <<>> => s \o t = s
    OBVIOUS
  <1>4. t # <<>> => Len(t) # 0
    BY EmptySeq
  <1>5. \A i \in 1 .. Len(t) : (s \o t)[Len(s) + i] = t[i]
    <2>1. \A i \in 1 .. Len(t) : /\ Len(s) + i \in 1 .. Len(s) + Len(t) /\ ~(Len(s) + i <= Len(s))
                                 /\ (Len(s) + i) - Len(s) = i
      BY <1>2
    <2> QED
      BY <1>1, <2>1
  <1>6. t # <<>> => Len(t) \in 1 .. Len(t)
    BY <1>2, <1>4
  <1>7. t # <<>> => s \o t # <<>>
    BY <1>1, <1>2, <1>4, EmptySeq
  <1> QED
    BY <1>1, <1>3, <1>5, <1>6, <1>7

\* The ways that each action uses
LEMMA StepWays ==
  ASSUME DOMAIN mail = Ways
  PROVE  /\ OpenNotes \/ NotesLoad \/ AudienceJoins \/ UpcomingLoad \/ UNCHANGED vars => mail' = mail
         /\ ConnectInterval \/ HandleConnectMessage => OnWays(mail, mail', {"toNotes"})
         /\ PresenterReceives => OnWays(mail, mail', {"toPresenter", "toNotes", "toServer"})
         /\ HandleStateMessage => OnWays(mail, mail', {"toNotes", "toCurrent", "toUpcoming"})
         /\ DebounceTimeout => OnWays(mail, mail', {"toCurrent", "toUpcoming"})
         /\ HandleRevealEvent => OnWays(mail, mail', {"fromCurrent", "toPresenter"})
         /\ CurrentLoad \/ CurrentReady => OnWays(mail, mail', {"fromCurrent"})
         /\ CurrentReceives => OnWays(mail, mail', {"fromCurrent", "toCurrent"})
         /\ UpcomingReceives => OnWays(mail, mail', {"toUpcoming"})
         /\ ServerBroadcasts => OnWays(mail, mail', {"toServer", "toAudience"})
         /\ AudienceReceives => OnWays(mail, mail', {"toAudience"})
         /\ \A key : /\ SpeakerKey(key) => OnWays(mail, mail', {"toNotes", "toServer"})
                     /\ NotesKey(key) => OnWays(mail, mail', {"toCurrent"})
  <1>1. OpenNotes \/ NotesLoad \/ AudienceJoins \/ UpcomingLoad \/ UNCHANGED vars => mail' = mail
    BY Zenon DEF OpenNotes, NotesLoad, AudienceJoins, UpcomingLoad, vars
  <1>2. \A x, y : OnWays(mail, [mail EXCEPT !.toNotes = x, !.toServer = y], {"toNotes", "toServer"})
    BY DEF OnWays, Ways
  <1>3. ASSUME NEW d, NEW m, NEW A, OnWays(mail, m, A), Present(d, m)
        PROVE  OnWays(mail, mail', A \cup {"toNotes", "toServer"})
    <2>1. OnWays(m, mail', {"toNotes", "toServer"})
      BY <1>3 DEF OnWays, Ways, Present
    <2> QED
      BY <1>3, <2>1, OnWaysTrans
  <1>4. ASSUME NEW s, NEW m, NEW A, OnWays(mail, m, A), ApplyStateMessage(s, m)
        PROVE  OnWays(mail, mail', A \cup {"toCurrent", "toUpcoming"})
    <2>1. OnWays(m, mail', {"toCurrent", "toUpcoming"})
      BY <1>4 DEF OnWays, Ways, ApplyStateMessage
    <2> QED
      BY <1>4, <2>1, OnWaysTrans
  <1>5. ASSUME NEW d, NEW phase, NEW m, NEW A, OnWays(mail, m, A), Show1(d, phase, m)
        PROVE  OnWays(mail, mail', A \cup {"fromCurrent"})
    <2>1. OnWays(m, mail', {"fromCurrent"})
      BY <1>5 DEF OnWays, Ways, Show1
    <2> QED
      BY <1>5, <2>1, OnWaysTrans
  <1>6. ConnectInterval \/ HandleConnectMessage => OnWays(mail, mail', {"toNotes"})
    <2>1. ConnectInterval \/ HandleConnectMessage => \E x : mail' = [mail EXCEPT !.toNotes = x]
      BY Zenon DEF ConnectInterval, HandleConnectMessage
    <2> QED
      BY <2>1 DEF OnWays, Ways
  <1>7. PresenterReceives => OnWays(mail, mail', {"toPresenter", "toNotes", "toServer"})
    <2> SUFFICES ASSUME PresenterReceives PROVE OnWays(mail, mail', {"toPresenter", "toNotes", "toServer"})
      OBVIOUS
    <2> DEFINE rest == [mail EXCEPT !.toPresenter = Tail(@)]
    <2>1. OnWays(mail, rest, {"toPresenter"})
      BY OnWaysExcept
    <2>2. \/ mail' = [rest EXCEPT !.toNotes = Append(@, StateMessage(GetState(presenter)))]
          \/ Present(SetState(presenter, Head(mail.toPresenter).state), rest)
      BY DEF PresenterReceives
    <2> HIDE DEF rest
    <2>3. OnWays(mail, mail', {"toPresenter"} \cup {"toNotes", "toServer"})
      <3>1. CASE mail' = [rest EXCEPT !.toNotes = Append(@, StateMessage(GetState(presenter)))]
        <4>1. OnWays(rest, mail', {"toNotes"})
          BY <2>1, <3>1, OnWaysExcept DEF OnWays
        <4>2. OnWays(mail, mail', {"toPresenter"} \cup {"toNotes"})
          BY <2>1, <4>1, OnWaysTrans
        <4> QED
          BY <4>2 DEF OnWays
      <3>2. CASE Present(SetState(presenter, Head(mail.toPresenter).state), rest)
        BY <1>3, <2>1, <3>2
      <3> QED
        BY <2>2, <3>1, <3>2
    <2> QED
      BY <2>3 DEF OnWays
  <1>8. HandleStateMessage => OnWays(mail, mail', {"toNotes", "toCurrent", "toUpcoming"})
    <2> SUFFICES ASSUME HandleStateMessage PROVE OnWays(mail, mail', {"toNotes", "toCurrent", "toUpcoming"})
      OBVIOUS
    <2> DEFINE rest == [mail EXCEPT !.toNotes = Tail(@)]
    <2>1. OnWays(mail, rest, {"toNotes"})
      BY OnWaysExcept
    <2>2. mail' = rest \/ ApplyStateMessage(Head(mail.toNotes).state, rest)
      BY DEF HandleStateMessage
    <2> HIDE DEF rest
    <2>3. ApplyStateMessage(Head(mail.toNotes).state, rest) =>
            OnWays(mail, mail', {"toNotes"} \cup {"toCurrent", "toUpcoming"})
      BY <1>4, <2>1
    <2> QED
      BY <2>1, <2>2, <2>3 DEF OnWays
  <1>9. DebounceTimeout => OnWays(mail, mail', {"toCurrent", "toUpcoming"})
    <2> SUFFICES ASSUME DebounceTimeout PROVE OnWays(mail, mail', {"toCurrent", "toUpcoming"})
      OBVIOUS
    <2>1. mail' = mail \/ \E s : ApplyStateMessage(s, mail)
      BY DEF DebounceTimeout
    <2>2. ASSUME NEW s, ApplyStateMessage(s, mail)
          PROVE  OnWays(mail, mail', {} \cup {"toCurrent", "toUpcoming"})
      BY <1>4, <2>2, OnWaysExcept
    <2> QED
      BY <2>1, <2>2 DEF OnWays
  <1>10. HandleRevealEvent => OnWays(mail, mail', {"fromCurrent", "toPresenter"})
    <2> SUFFICES ASSUME HandleRevealEvent PROVE OnWays(mail, mail', {"fromCurrent", "toPresenter"})
      OBVIOUS
    <2>1. \E sent : mail' = [mail EXCEPT !.fromCurrent = Tail(@), !.toPresenter = @ \o sent]
      BY Zenon DEF HandleRevealEvent
    <2> QED
      BY <2>1 DEF OnWays, Ways
  <1>11. CurrentLoad \/ CurrentReady => OnWays(mail, mail', {"fromCurrent"})
    <2>1. CurrentLoad \/ CurrentReady => \E d, phase : Show1(d, phase, mail)
      BY DEF CurrentLoad, CurrentReady
    <2>2. (\E d, phase : Show1(d, phase, mail)) => OnWays(mail, mail', {} \cup {"fromCurrent"})
      BY <1>5, OnWaysExcept
    <2> QED
      BY <2>1, <2>2 DEF OnWays
  <1>12. CurrentReceives => OnWays(mail, mail', {"fromCurrent", "toCurrent"})
    <2> SUFFICES ASSUME CurrentReceives PROVE OnWays(mail, mail', {"fromCurrent", "toCurrent"})
      OBVIOUS
    <2> DEFINE rest == [mail EXCEPT !.toCurrent = Tail(@)]
    <2>1. OnWays(mail, rest, {"toCurrent"})
      BY OnWaysExcept
    <2>2. \E d, phase : Show1(d, phase, rest)
      BY DEF CurrentReceives
    <2> HIDE DEF rest
    <2>3. OnWays(mail, mail', {"toCurrent"} \cup {"fromCurrent"})
      BY <1>5, <2>1, <2>2
    <2> QED
      BY <2>3 DEF OnWays
  <1>13. UpcomingReceives => OnWays(mail, mail', {"toUpcoming"})
    <2>1. UpcomingReceives => \E x : mail' = [mail EXCEPT !.toUpcoming = x]
      BY Zenon DEF UpcomingReceives
    <2> QED
      BY <2>1 DEF OnWays, Ways
  <1>14. AudienceReceives => OnWays(mail, mail', {"toAudience"})
    <2>1. AudienceReceives => \E x : mail' = [mail EXCEPT !.toAudience = x]
      BY Zenon DEF AudienceReceives
    <2> QED
      BY <2>1 DEF OnWays, Ways
  <1>15. ServerBroadcasts => OnWays(mail, mail', {"toServer", "toAudience"})
    BY DEF ServerBroadcasts, OnWays, Ways
  <1>16. ASSUME NEW key
         PROVE  /\ SpeakerKey(key) => OnWays(mail, mail', {"toNotes", "toServer"})
                /\ NotesKey(key) => OnWays(mail, mail', {"toCurrent"})
    <2>1. NotesKey(key) => OnWays(mail, mail', {"toCurrent"})
      <3>1. NotesKey(key) => \E x : mail' = [mail EXCEPT !.toCurrent = x]
        BY Zenon DEF NotesKey
      <3> QED
        BY <3>1 DEF OnWays, Ways
    <2>2. SpeakerKey(key) => OnWays(mail, mail', {} \cup {"toNotes", "toServer"})
      BY <1>3, OnWaysExcept DEF SpeakerKey
    <2> QED
      BY <2>1, <2>2 DEF OnWays
  <1> HIDE DEF OnWays
  <1> QED
    BY <1>1, <1>6, <1>7, <1>8, <1>9, <1>10, <1>11, <1>12, <1>13, <1>14, <1>15, <1>16

-----------------------------------------------------------------------------
(* The decks of the windows *)

\* A deck between two handlers, and one that a handler has just left
Done(e, config) == Good(e) /\ Faithful(e) /\ Allowed(e) /\ e.config = config
Sound(d, config) == Done(d, config) /\ d.events = <<>>
\* A page before its scripts have run
Fresh(d, config) == \E name : \E h, v \in Int \ {Undef} : d = NewDeck(config, Hash(name, h, v))

\* The window takes the events of its deck away, and nothing else.
LEMMA Cleared ==
  ASSUME NEW config, NEW e, Done(e, config), NEW c, c = [e EXCEPT !.events = <<>>]
  PROVE  /\ Sound(c, config)
         /\ c.cur = e.cur /\ c.visible = e.visible /\ c.indexh = e.indexh /\ c.indexv = e.indexv
         /\ c.overview = e.overview /\ c.paused = e.paused
         /\ \A state, all : Tells(state, e, all) <=> Tells(state, c, all)
  <1>1. Steady(e) /\ IsDeck(e)
    BY SteadyShape DEF Done, Good
  <1>2. Good(c) /\ c.config = e.config
    BY <1>1, EventKept DEF Kept, Done, Good
  <1>3. Changes(e, c, {"events"}) /\ c.events = <<>>
    BY <1>1 DEF Changes, IsDeck, Fields
  <1>4. /\ c.cur = e.cur /\ c.visible = e.visible /\ c.indexh = e.indexh /\ c.indexv = e.indexv
        /\ c.overview = e.overview /\ c.fidx = e.fidx /\ c.curfrag = e.curfrag /\ c.paused = e.paused
    BY <1>3 DEF Changes, Fields
  <1>5. Faithful(c)
    BY <1>2, <1>3, <1>4 DEF Done, Faithful, Numbering, CurrentShown
  <1>6. Allowed(c)
    BY <1>2, <1>4 DEF Done, Allowed
  <1>7. \A state, all : Tells(state, e, all) <=> Tells(state, c, all)
    BY <1>2, <1>4 DEF Tells
  <1> QED
    BY <1>2, <1>3, <1>4, <1>5, <1>6, <1>7 DEF Sound, Done

\* Whatever handler a window runs
LEMMA Handled ==
  ASSUME NEW config, NEW d, Done(d, config)
  PROVE  /\ \A key : Done(OnDocumentKeyDown(d, key), config)
         /\ \A state \in State : Done(SetState(d, state), config)
         /\ Done(Navigate(d, "next"), config)
         /\ Done(DispatchEvent(d, "ready"), config)
         /\ \A h, v \in Int : \A f : IndexTyped(f) => Done(SlideTo(d, h, v, f), config)
  <1> DEFINE types == {"slidechanged", "fragmentshown", "fragmenthidden"}
  <1>1. Good(d) /\ Steady(d) /\ Faithful(d) /\ Allowed(d) /\ d.config = config /\ Core(d) /\ Sorted(d)
        /\ d.cur # None
    BY DEF Done, Good, Steady
  <1>2. Watching(types, FALSE) /\ Followers(types) /\ FALSE \in BOOLEAN
    BY DEF Watching, Followers
  <1> HIDE DEF types
  <1>3. ASSUME NEW e, Modest(d, e), Good(e), Faithful(e) PROVE Done(e, config)
    BY <1>1, <1>3 DEF Modest, Done
  <1>4. ASSUME NEW key PROVE Done(OnDocumentKeyDown(d, key), config)
    <2> DEFINE e == OnDocumentKeyDown(d, key)
    <2>1. Modest(d, e)
      BY <1>1, KeyDownModest
    <2>2. Good(e) /\ Follows(types, FALSE, d, e)
      BY <1>1, <1>2, KeyDownTells
    <2> HIDE DEF e
    <2>3. Done(e, config)
      BY <1>3, <2>1, <2>2 DEF Follows
    <2> QED
      BY <2>3 DEF e
  <1>5. ASSUME NEW state \in State PROVE Done(SetState(d, state), config)
    <2> DEFINE e == SetState(d, state)
    <2>1. Modest(d, e)
      BY <1>1, SetModest
    <2>2. Good(e) /\ Follows(types, FALSE, d, e)
      BY <1>1, <1>2, SetTells
    <2> HIDE DEF e
    <2>3. Done(e, config)
      BY <1>3, <2>1, <2>2 DEF Follows
    <2> QED
      BY <2>3 DEF e
  <1>6. Done(Navigate(d, "next"), config)
    <2>1. "next" \in Directions
      BY DEF Directions
    <2>2. Good(Navigate(d, "next"))
      BY <1>1, <2>1, NavigateKept
    <2>3. Modest(d, Navigate(d, "next"))
      BY <1>1, <2>1, NavigateModest
    <2>4. Follows(types, FALSE, d, Navigate(d, "next"))
      BY <1>1, <1>2, <2>1, NavigateFollows
    <2> QED
      BY <1>3, <2>2, <2>3, <2>4 DEF Follows
  <1>7. Done(DispatchEvent(d, "ready"), config)
    <2>1. IsDeck(d) /\ Tellable(d) /\ "ready" \in Announcements
      BY <1>1, SteadyShape, SteadyTellable DEF Announcements
    <2>2. Good(DispatchEvent(d, "ready"))
      BY <1>1, EventKept DEF Kept, Good
    <2>3. Modest(d, DispatchEvent(d, "ready"))
      BY <2>1, EventChanges, ModestFrame
    <2>4. Follows(types, FALSE, d, DispatchEvent(d, "ready"))
      BY <1>1, <1>2, <2>1, DispatchTells
    <2> QED
      BY <1>3, <2>2, <2>3, <2>4 DEF Follows
  <1>8. ASSUME NEW h \in Int, NEW v \in Int, NEW f, IndexTyped(f)
        PROVE  Done(SlideTo(d, h, v, f), config)
    <2> DEFINE e == SlideTo(d, h, v, f)
    <2>1. Good(e) /\ e.config = d.config /\ Landed(d, e, h, v)
      BY <1>1, <1>8, SlideEffect
    <2>2. Follows(types, FALSE, d, e)
      BY <1>1, <1>2, <1>8, SlideTells
    <2> HIDE DEF e
    <2>3. Modest(d, e)
      BY <2>1 DEF Landed, Modest, Allowed
    <2>4. Done(e, config)
      BY <1>3, <2>1, <2>2, <2>3 DEF Follows
    <2> QED
      BY <2>4 DEF e
  <1> QED
    BY <1>4, <1>5, <1>6, <1>7, <1>8

LEMMA Begun ==
  ASSUME NEW config \in ConfigType, NEW d, Fresh(d, config)
  PROVE  Done(Start(d), config)
  <1>1. PICK name : \E h, v \in Int \ {Undef} : d = NewDeck(config, Hash(name, h, v))
    BY DEF Fresh
  <1>2. PICK h \in Int \ {Undef}, v \in Int \ {Undef} : d = NewDeck(config, Hash(name, h, v))
    BY <1>1
  <1>3. Hash(name, h, v).h \in Int \ {Undef} /\ Hash(name, h, v).v \in Int \ {Undef}
    BY <1>2 DEF Hash
  <1>4. Good(Start(d)) /\ Start(d).config = config /\ Faithful(Start(d))
        /\ ~Start(d).overview /\ ~Start(d).paused
    BY <1>2, <1>3, StartTells
  <1> QED
    BY <1>4 DEF Done, Allowed

\* Two decks that one state tells of show the same.
LEMMA SameTold ==
  ASSUME NEW p, Good(p), Faithful(p), NEW u, Good(u), Faithful(u),
         p.config.fragments \in BOOLEAN, u.config.fragments = p.config.fragments,
         NEW s, Tells(s, p, FALSE), Tells(s, u, FALSE)
  PROVE  u.indexh = p.indexh /\ u.indexv = p.indexv /\ u.cur = p.cur /\ u.visible = p.visible
  <1>1. Steady(p) /\ Steady(u) /\ u.indexh = p.indexh /\ u.indexv = p.indexv
    BY DEF Good, Tells
  <1>2. u.cur = p.cur
    BY <1>1, SteadyShape DEF Placed
  <1>3. u.visible = p.visible
    <2>1. CASE p.config.fragments
      <3>1. \A f \in Fragments : f[1] = p.cur => (f \in u.visible <=> f \in p.visible)
        BY <1>2, <2>1 DEF Tells
      <3> QED
        BY <1>1, <1>2, <2>1, <3>1, SameVisible
    <2>2. CASE ~p.config.fragments
      BY <2>2 DEF Faithful, Numbering
    <2> QED
      BY <2>1, <2>2
  <1> QED
    BY <1>1, <1>2, <1>3

-----------------------------------------------------------------------------
(* What may be on its way *)

Connect == {m \in [type : {"connect"}, state : State] : m.state.indexh # Undef /\ m.state.indexv # Undef}
States == [type : {"state"}, state : State]
SetStates == [type : {"setState"}, state : State]
Answers == [type : {"connected"}]
KeyPresses == [type : {"key"}, key : Keys]
Steps == [type : {"next"}]
Move == [h : Int, v : Int, f : Int]

MessagesOn ==
  [toNotes |-> Connect \cup States, toPresenter |-> Answers \cup SetStates, fromCurrent |-> Event,
   toCurrent |-> KeyPresses \cup SetStates, toUpcoming |-> Steps \cup SetStates,
   toServer |-> Move, toAudience |-> Move]

MailTyped(m) == DOMAIN m = Ways /\ \A way \in Ways : m[way] \in Seq(MessagesOn[way])

LEMMA MessageShape ==
  /\ \A m \in Connect \cup States : m.type \in {"connect", "state"} /\ m.state \in State
  /\ \A m \in Connect \cup States :
       m.type = "connect" => m.state.indexh \in Int \ {Undef} /\ m.state.indexv \in Int \ {Undef}
  /\ \A m \in Answers \cup SetStates : m.type \in {"connected", "setState"}
  /\ \A m \in Answers \cup SetStates : m.type = "setState" => m.state \in State
  /\ \A m \in KeyPresses \cup SetStates : m.type # "key" => m.state \in State
  /\ \A m \in Steps \cup SetStates : m.type # "next" => m.state \in State
  /\ \A state \in State :
       /\ StateMessage(state) \in States /\ StateMessage(state).type = "state"
       /\ StateMessage(state).state = state
       /\ [type |-> "setState", state |-> state] \in SetStates
       /\ SlideData(state) \in Move
  /\ [type |-> "connected"] \in Answers /\ [type |-> "next"] \in Steps
  /\ \A key \in Keys : [type |-> "key", key |-> key] \in KeyPresses
  <1>1. \A m \in Connect \cup States : m.type \in {"connect", "state"} /\ m.state \in State
    BY DEF Connect, States
  <1>2. \A m \in Connect \cup States :
          m.type = "connect" => m.state.indexh \in Int \ {Undef} /\ m.state.indexv \in Int \ {Undef}
    BY DEF Connect, States, State
  <1>3. /\ \A m \in Answers \cup SetStates : m.type \in {"connected", "setState"}
        /\ \A m \in Answers \cup SetStates : m.type = "setState" => m.state \in State
    BY DEF Answers, SetStates
  <1>4. \A m \in KeyPresses \cup SetStates : m.type # "key" => m.state \in State
    BY DEF KeyPresses, SetStates
  <1>5. \A m \in Steps \cup SetStates : m.type # "next" => m.state \in State
    BY DEF Steps, SetStates
  <1>6. ASSUME NEW state \in State
        PROVE  /\ StateMessage(state) \in States /\ StateMessage(state).type = "state"
               /\ StateMessage(state).state = state
               /\ [type |-> "setState", state |-> state] \in SetStates
    BY DEF StateMessage, States, SetStates
  <1>7. ASSUME NEW state \in State PROVE SlideData(state) \in Move
    BY DEF SlideData, Move, State
  <1>8. /\ [type |-> "connected"] \in Answers /\ [type |-> "next"] \in Steps
        /\ \A key \in Keys : [type |-> "key", key |-> key] \in KeyPresses
    BY DEF Answers, Steps, KeyPresses
  <1> QED
    BY <1>1, <1>2, <1>3, <1>4, <1>5, <1>6, <1>7, <1>8

LEMMA MailTypes ==
  ASSUME NEW m, MailTyped(m)
  PROVE  /\ DOMAIN m = Ways
         /\ m.toNotes \in Seq(Connect \cup States) /\ m.toPresenter \in Seq(Answers \cup SetStates)
         /\ m.fromCurrent \in Seq(Event) /\ m.toCurrent \in Seq(KeyPresses \cup SetStates)
         /\ m.toUpcoming \in Seq(Steps \cup SetStates)
         /\ m.toServer \in Seq(Move) /\ m.toAudience \in Seq(Move)
  BY DEF MailTyped, MessagesOn, Ways

LEMMA MailFrame ==
  ASSUME NEW m, MailTyped(m), NEW ways, NEW n, OnWays(m, n, ways),
         \A way \in ways : n[way] \in Seq(MessagesOn[way])
  PROVE  MailTyped(n)
  BY DEF MailTyped, OnWays

LEMMA MessagesAre ==
  /\ MessagesOn["toNotes"] = Connect \cup States /\ MessagesOn["toPresenter"] = Answers \cup SetStates
  /\ MessagesOn["fromCurrent"] = Event /\ MessagesOn["toCurrent"] = KeyPresses \cup SetStates
  /\ MessagesOn["toUpcoming"] = Steps \cup SetStates
  /\ MessagesOn["toServer"] = Move /\ MessagesOn["toAudience"] = Move
  BY DEF MessagesOn

LEMMA OneWay ==
  ASSUME NEW m, MailTyped(m), NEW n
  PROVE  /\ OnWays(m, n, {"toNotes"}) /\ n.toNotes \in Seq(Connect \cup States) => MailTyped(n)
         /\ OnWays(m, n, {"toPresenter"}) /\ n.toPresenter \in Seq(Answers \cup SetStates) => MailTyped(n)
         /\ OnWays(m, n, {"fromCurrent"}) /\ n.fromCurrent \in Seq(Event) => MailTyped(n)
         /\ OnWays(m, n, {"toCurrent"}) /\ n.toCurrent \in Seq(KeyPresses \cup SetStates) => MailTyped(n)
         /\ OnWays(m, n, {"toUpcoming"}) /\ n.toUpcoming \in Seq(Steps \cup SetStates) => MailTyped(n)
         /\ OnWays(m, n, {"toServer"}) /\ n.toServer \in Seq(Move) => MailTyped(n)
         /\ OnWays(m, n, {"toAudience"}) /\ n.toAudience \in Seq(Move) => MailTyped(n)
  <1>2. ASSUME NEW way, OnWays(m, n, {way}), n[way] \in Seq(MessagesOn[way]) PROVE MailTyped(n)
    BY <1>2, MailFrame
  <1> QED
    BY <1>2, MessagesAre

\* What the presentation posts of a handler, and tells the server
LEMMA Posted ==
  ASSUME NEW d, d.events \in Seq(Event)
  PROVE  /\ Post(d) \in Seq(States) /\ Post(d) \in Seq(Connect \cup States) /\ Notify(d) \in Seq(Move)
         /\ ~plugin.listening => Post(d) = <<>>
         /\ plugin.name # "multiplex" => Notify(d) = <<>>
         /\ plugin.listening =>
              LET s == Heard(d, Watched)
              IN IF s = <<>> THEN Post(d) = <<>>
                 ELSE Post(d) # <<>> /\ Post(d)[Len(Post(d))] = StateMessage(s[Len(s)].state)
         /\ plugin.name = "multiplex" =>
              LET s == Heard(d, Followed)
              IN IF s = <<>> THEN Notify(d) = <<>>
                 ELSE Notify(d) # <<>> /\ Notify(d)[Len(Notify(d))] = SlideData(s[Len(s)].state)
  <1> DEFINE w == Heard(d, Watched)
             f == Heard(d, Followed)
             Message(i) == StateMessage(w[i].state)
             Data(i) == SlideData(f[i].state)
  <1>1. w \in Seq(Event) /\ f \in Seq(Event)
    BY HeardLast
  <1>2. /\ Post(d) = IF plugin.listening THEN [i \in DOMAIN w |-> Message(i)] ELSE <<>>
        /\ Notify(d) = IF plugin.name = "multiplex" THEN [i \in DOMAIN f |-> Data(i)] ELSE <<>>
    BY DEF Post, Notify
  <1> HIDE DEF w, f
  <1>3. /\ \A i \in DOMAIN w : Message(i) \in States
        /\ \A i \in DOMAIN f : Data(i) \in Move
    <2>1. /\ \A i \in DOMAIN w : w[i].state \in State
          /\ \A i \in DOMAIN f : f[i].state \in State
      <3>1. \A e \in Event : e.state \in State
        BY DEF Event
      <3>2. (\A i \in DOMAIN w : w[i] \in Event) /\ (\A i \in DOMAIN f : f[i] \in Event)
        BY <1>1
      <3> QED
        BY <3>1, <3>2
    <2>2. \A state \in State : StateMessage(state) \in States /\ SlideData(state) \in Move
      BY MessageShape
    <2> QED
      BY <2>1, <2>2
  <1> HIDE DEF Message, Data
  <1>5. /\ [i \in DOMAIN w |-> Message(i)] \in Seq(States)
        /\ Len([i \in DOMAIN w |-> Message(i)]) = Len(w) /\ Len(w) \in Nat /\ DOMAIN w = 1 .. Len(w)
    BY <1>1, <1>3
  <1>6. /\ [i \in DOMAIN f |-> Data(i)] \in Seq(Move)
        /\ Len([i \in DOMAIN f |-> Data(i)]) = Len(f) /\ Len(f) \in Nat /\ DOMAIN f = 1 .. Len(f)
    BY <1>1, <1>3
  <1>7. Post(d) \in Seq(States) /\ Notify(d) \in Seq(Move)
    BY <1>2, <1>5, <1>6
  <1>8. Post(d) \in Seq(Connect \cup States)
    BY <1>7
  <1>9. ASSUME plugin.listening
        PROVE  IF w = <<>> THEN Post(d) = <<>>
               ELSE Post(d) # <<>> /\ Post(d)[Len(Post(d))] = StateMessage(w[Len(w)].state)
    <2>1. Len(Post(d)) = Len(w) /\ Post(d) = [i \in DOMAIN w |-> Message(i)]
      BY <1>2, <1>5, <1>9
    <2>2. w # <<>> => Len(w) \in DOMAIN w
      BY <1>1, <1>5, EmptySeq
    <2>3. Post(d) = <<>> <=> Len(Post(d)) = 0
      BY <1>7, EmptySeq
    <2>4. w = <<>> <=> Len(w) = 0
      BY <1>1, EmptySeq
    <2> QED
      BY <2>1, <2>2, <2>3, <2>4 DEF Message
  <1>10. ASSUME plugin.name = "multiplex"
         PROVE  IF f = <<>> THEN Notify(d) = <<>>
                ELSE Notify(d) # <<>> /\ Notify(d)[Len(Notify(d))] = SlideData(f[Len(f)].state)
    <2>1. Len(Notify(d)) = Len(f) /\ Notify(d) = [i \in DOMAIN f |-> Data(i)]
      BY <1>2, <1>6, <1>10
    <2>2. f # <<>> => Len(f) \in DOMAIN f
      BY <1>1, <1>6, EmptySeq
    <2>3. Notify(d) = <<>> <=> Len(Notify(d)) = 0
      BY <1>7, EmptySeq
    <2>4. f = <<>> <=> Len(f) = 0
      BY <1>1, EmptySeq
    <2> QED
      BY <2>1, <2>2, <2>3, <2>4 DEF Data
  <1> QED
    BY <1>2, <1>7, <1>8, <1>9, <1>10 DEF w, f

-----------------------------------------------------------------------------
(* Types *)

AtMostOne(S) == S = {} \/ \E x : S = {x}

NotesTyped ==
  /\ notes.phase \in {"closed", "loading", "open"}
  /\ notes.connected \in BOOLEAN /\ notes.recent \in BOOLEAN /\ notes.reached \in BOOLEAN
  /\ AtMostOne(notes.pending) /\ AtMostOne(notes.currentState)
  /\ notes.pending \subseteq State /\ notes.currentState \subseteq State

PluginTyped == plugin \in [name : Plugins, connecting : BOOLEAN, listening : BOOLEAN]

Phases == {"none", "loading", "started", "ready"}

\* The deck of an iframe has begun when its scripts have run.
IframeTyped(iframe) ==
  /\ DOMAIN iframe = {"phase", "deck"} /\ iframe.phase \in Phases
  /\ IF Loaded(iframe) THEN Sound(iframe.deck, Receiver) ELSE Fresh(iframe.deck, Receiver)

AudienceTyped ==
  /\ DOMAIN audience = {"joined", "told", "deck"}
  /\ audience.joined \in BOOLEAN /\ audience.told \in BOOLEAN
  /\ IF audience.joined THEN Sound(audience.deck, Config) ELSE Fresh(audience.deck, Config)

MovesTyped == moves \in [presenter : 0 .. MaxMoves, notes : 0 .. MaxRemote]

\* Nothing is on its way to a window that has not loaded.
Lost ==
  /\ mail.toCurrent # <<>> => Loaded(current)
  /\ mail.toUpcoming # <<>> => Loaded(upcoming)
  /\ mail.toAudience # <<>> => audience.joined

TInv ==
  /\ SetUpInv /\ NotesTyped /\ PluginTyped /\ MovesTyped /\ MailTyped(mail) /\ Lost
  /\ Sound(presenter, Config) /\ IframeTyped(current) /\ IframeTyped(upcoming) /\ AudienceTyped

LEMMA Configured == Config \in ConfigType /\ Receiver \in ConfigType
  BY SpeakerInputs DEF SpeakerInputs, Receiver, ConfigType

LEMMA IframeFresh ==
  ASSUME NEW h \in Int \ {Undef}, NEW v \in Int \ {Undef}, NEW phase \in {"none", "loading"}
  PROVE  IframeTyped(Iframe(phase, h, v)) /\ Iframe(phase, h, v).phase = phase
  <1>1. Iframe(phase, h, v) = [phase |-> phase, deck |-> NewDeck(Receiver, Hash("", h, v))]
    BY DEF Iframe
  <1>2. Fresh(NewDeck(Receiver, Hash("", h, v)), Receiver)
    BY DEF Fresh
  <1> DEFINE deck == NewDeck(Receiver, Hash("", h, v))
  <1> HIDE DEF deck
  <1>3. ASSUME NEW i, i = [phase |-> phase, deck |-> deck]
        PROVE  DOMAIN i = {"phase", "deck"} /\ i.phase = phase /\ i.deck = deck
    BY <1>3
  <1>4. ASSUME NEW i, i = [phase |-> phase, deck |-> deck]
        PROVE  IframeTyped(i) /\ i.phase = phase
    <2>1. DOMAIN i = {"phase", "deck"} /\ i.phase = phase /\ i.deck = deck
      BY <1>3, <1>4
    <2>2. Fresh(deck, Receiver)
      BY <1>2 DEF deck
    <2> QED
      BY <2>1, <2>2 DEF IframeTyped, Loaded, Phases
  <1> QED
    BY Zenon, <1>1, <1>4 DEF deck

LEMMA TypeInit == Init => TInv
  <1> SUFFICES ASSUME Init PROVE TInv
    OBVIOUS
  <1>1. SetUpInv
    BY SetUpInit
  <1>2. NotesTyped
    <2>1. notes = [phase |-> "closed", connected |-> FALSE, currentState |-> {},
                   pending |-> {}, recent |-> FALSE, reached |-> FALSE]
      BY Zenon DEF Init
    <2> QED
      BY <2>1 DEF NotesTyped, AtMostOne
  <1>3. PluginTyped
    <2>1. PICK name \in Plugins : plugin = [name |-> name, connecting |-> FALSE, listening |-> FALSE]
      BY Zenon DEF Init
    <2> QED
      BY <2>1 DEF PluginTyped
  <1>4. 0 \in Int \ {Undef}
    BY DEF Undef
  <1>5. Fresh(NewDeck(Config, Hash("", 0, 0)), Config)
    BY <1>4 DEF Fresh
  <1>6. IframeTyped(current) /\ IframeTyped(upcoming)
    <2>1. current = Iframe("none", 0, 0) /\ upcoming = Iframe("none", 0, 0)
      BY Zenon DEF Init
    <2> QED
      BY <1>4, <2>1, IframeFresh
  <1>7. AudienceTyped
    <2> DEFINE deck == NewDeck(Config, Hash("", 0, 0))
    <2>1. audience = [joined |-> FALSE, told |-> FALSE, deck |-> deck] /\ Fresh(deck, Config)
      BY Zenon, <1>5 DEF Init
    <2> HIDE DEF deck
    <2> QED
      BY <2>1 DEF AudienceTyped
  <1>8. MovesTyped
    <2>1. moves = [presenter |-> 0, notes |-> 0]
      BY Zenon DEF Init
    <2> QED
      BY <2>1, SpeakerInputs DEF SpeakerInputs, MovesTyped
  <1>9. MailTyped(mail) /\ Lost
    <2>1. mail = [toNotes |-> <<>>, toPresenter |-> <<>>, fromCurrent |-> <<>>, toCurrent |-> <<>>,
                  toUpcoming |-> <<>>, toServer |-> <<>>, toAudience |-> <<>>]
      BY Zenon DEF Init
    <2>2. DOMAIN mail = Ways /\ \A way \in Ways : mail[way] = <<>>
      BY <2>1 DEF Ways
    <2>3. MailTyped(mail)
      <3>1. \A S : <<>> \in Seq(S)
        OBVIOUS
      <3> QED
        BY Zenon, <2>2, <3>1 DEF MailTyped
    <2>4. mail.toCurrent = <<>> /\ mail.toUpcoming = <<>> /\ mail.toAudience = <<>>
      BY <2>2 DEF Ways
    <2> QED
      BY <2>3, <2>4 DEF Lost
  <1>10. Sound(presenter, Config)
    <2> DEFINE begun == Start(NewDeck(Config, Hash("", 0, 0)))
    <2>1. PICK s \in Places :
            presenter = [Slide(begun, s[1], IF IsVerticalSlide(s) THEN s[2] ELSE 0) EXCEPT !.events = <<>>]
      BY Zenon DEF Init
    <2>2. Done(begun, Config)
      BY <1>5, Configured, Begun
    <2>3. s \in Sections
      BY SpeakerInputs DEF SpeakerInputs, Leaves
    <2>4. s[1] \in Int /\ (IF IsVerticalSlide(s) THEN s[2] ELSE 0) \in Int
      BY <2>3, SectionIndices
    <2> DEFINE v == IF IsVerticalSlide(s) THEN s[2] ELSE 0
    <2> HIDE DEF begun, v
    <2>5. IndexTyped(NoIndex)
      BY DEF IndexTyped, NoIndex
    <2>6. v \in Int
      BY <2>4 DEF v
    <2>7. Done(Slide(begun, s[1], v), Config)
      BY <2>2, <2>4, <2>5, <2>6, Handled DEF Slide
    <2>8. presenter = [Slide(begun, s[1], v) EXCEPT !.events = <<>>]
      BY <2>1 DEF v
    <2> QED
      BY <2>7, <2>8, Cleared
  <1> QED
    BY <1>1, <1>2, <1>3, <1>6, <1>7, <1>8, <1>9, <1>10 DEF TInv


\* A state message that is applied leaves at most one state current and none waiting.
LEMMA ApplyTyped ==
  ASSUME SetUpInv, NotesTyped, NEW s \in State, NEW m, ApplyStateMessage(s, m)
  PROVE  NotesTyped'
  <1>1. PICK reached \in BOOLEAN :
          notes' = [notes EXCEPT !.currentState = {s}, !.pending = {}, !.recent = TRUE,
                                 !.reached = reached]
    <2> DEFINE reached == Loaded(upcoming)
    <2>1. reached \in BOOLEAN
      BY DEF Loaded
    <2>2. notes' = [notes EXCEPT !.currentState = {s}, !.pending = {}, !.recent = TRUE,
                                 !.reached = reached]
      BY Zenon DEF ApplyStateMessage
    <2> HIDE DEF reached
    <2> QED
      BY Zenon, <2>1, <2>2
  <1>2. /\ notes'.phase = notes.phase /\ notes'.connected = notes.connected /\ notes'.recent = TRUE
        /\ notes'.pending = {} /\ notes'.currentState = {s} /\ notes'.reached = reached
    BY <1>1 DEF SetUpInv
  <1> QED
    BY <1>1, <1>2 DEF NotesTyped, AtMostOne

\* What arrives is what may be on its way.
LEMMA Arriving ==
  ASSUME TInv
  PROVE  /\ mail.toNotes # <<>> =>
              /\ Head(mail.toNotes).state \in State
              /\ Head(mail.toNotes).type = "connect" =>
                   /\ Head(mail.toNotes).state.indexh \in Int \ {Undef}
                   /\ Head(mail.toNotes).state.indexv \in Int \ {Undef}
         /\ mail.toPresenter # <<>> /\ Head(mail.toPresenter).type = "setState" =>
              Head(mail.toPresenter).state \in State
         /\ mail.fromCurrent # <<>> => Head(mail.fromCurrent).state \in State
         /\ mail.toCurrent # <<>> /\ Head(mail.toCurrent).type # "key" => Head(mail.toCurrent).state \in State
         /\ mail.toUpcoming # <<>> /\ Head(mail.toUpcoming).type # "next" =>
              Head(mail.toUpcoming).state \in State
         /\ mail.toAudience # <<>> => Head(mail.toAudience) \in Move
  <1>1. /\ mail.toNotes \in Seq(Connect \cup States) /\ mail.toPresenter \in Seq(Answers \cup SetStates)
        /\ mail.fromCurrent \in Seq(Event) /\ mail.toCurrent \in Seq(KeyPresses \cup SetStates)
        /\ mail.toUpcoming \in Seq(Steps \cup SetStates) /\ mail.toAudience \in Seq(Move)
    BY MailTypes DEF TInv
  <1>2. /\ mail.toNotes # <<>> => Head(mail.toNotes) \in Connect \cup States
        /\ mail.toPresenter # <<>> => Head(mail.toPresenter) \in Answers \cup SetStates
        /\ mail.fromCurrent # <<>> => Head(mail.fromCurrent) \in Event
        /\ mail.toCurrent # <<>> => Head(mail.toCurrent) \in KeyPresses \cup SetStates
        /\ mail.toUpcoming # <<>> => Head(mail.toUpcoming) \in Steps \cup SetStates
        /\ mail.toAudience # <<>> => Head(mail.toAudience) \in Move
    BY <1>1, LastOfTail
  <1>3. \A e \in Event : e.state \in State
    BY DEF Event
  <1> QED
    BY <1>2, <1>3, MessageShape

LEMMA NotesStep ==
  ASSUME TInv, [Next]_vars
  PROVE  NotesTyped'
  <1>1. CASE notes' = notes
    BY <1>1 DEF TInv, NotesTyped
  <1>2. CASE OpenNotes \/ NotesLoad \/ HandleConnectMessage
    <2>1. CASE OpenNotes \/ NotesLoad
      BY <2>1 DEF OpenNotes, NotesLoad, TInv, SetUpInv, NotesTyped
    <2>2. CASE HandleConnectMessage
      <3>1. notes' = notes \/ notes' = [notes EXCEPT !.connected = TRUE]
        BY <2>2 DEF HandleConnectMessage
      <3> QED
        BY <1>1, <3>1 DEF TInv, SetUpInv, NotesTyped
    <2> QED
      BY <1>2, <2>1, <2>2
  <1>3. CASE HandleStateMessage
    <2> DEFINE s == Head(mail.toNotes).state
    <2>1. s \in State
      BY <1>3, Arriving DEF HandleStateMessage
    <2>2. CASE notes.recent
      <3>1. notes' = [notes EXCEPT !.pending = {s}]
        BY <1>3, <2>2 DEF HandleStateMessage
      <3> HIDE DEF s
      <3> QED
        BY <2>1, <3>1 DEF TInv, SetUpInv, NotesTyped, AtMostOne
    <2>3. CASE ~notes.recent
      <3>1. ApplyStateMessage(s, [mail EXCEPT !.toNotes = Tail(@)])
        BY <1>3, <2>3 DEF HandleStateMessage
      <3> QED
        BY <2>1, <3>1, ApplyTyped DEF TInv
    <2> QED
      BY <2>2, <2>3
  <1>4. CASE DebounceTimeout
    <2>1. CASE notes.pending = {}
      <3>1. notes' = [notes EXCEPT !.recent = FALSE]
        BY <1>4, <2>1 DEF DebounceTimeout
      <3> QED
        BY <3>1 DEF TInv, SetUpInv, NotesTyped
    <2>2. CASE notes.pending # {}
      <3>1. PICK s \in notes.pending : ApplyStateMessage(s, mail)
        BY <1>4, <2>2 DEF DebounceTimeout
      <3>2. s \in State
        BY <3>1 DEF TInv, NotesTyped
      <3> QED
        BY <3>1, <3>2, ApplyTyped DEF TInv
    <2> QED
      BY <2>1, <2>2
  <1>5. CASE \/ ConnectInterval \/ PresenterReceives \/ HandleRevealEvent \/ ServerBroadcasts
             \/ AudienceReceives \/ AudienceJoins \/ UpcomingLoad \/ UpcomingReceives
             \/ \E key \in Keys : SpeakerKey(key) \/ NotesKey(key)
    BY <1>1, <1>5 DEF ConnectInterval, PresenterReceives, HandleRevealEvent, ServerBroadcasts,
         AudienceReceives, AudienceJoins, SpeakerKey, NotesKey, UpcomingLoad, UpcomingReceives
  <1>6. CASE CurrentLoad \/ CurrentReady \/ CurrentReceives
    BY <1>1, <1>6 DEF CurrentLoad, CurrentReady, CurrentReceives, Show1
  <1>7. CASE UNCHANGED vars
    BY <1>1, <1>7 DEF vars
  <1> QED
    BY <1>2, <1>3, <1>4, <1>5, <1>6, <1>7 DEF Next, Machine

LEMMA PluginStep ==
  ASSUME TInv, [Next]_vars
  PROVE  PluginTyped' /\ MovesTyped'
  <1>1. CASE plugin' = plugin /\ moves' = moves
    BY <1>1 DEF TInv, PluginTyped, MovesTyped
  <1>2. ASSUME \/ plugin' = [plugin EXCEPT !.connecting = TRUE]
               \/ plugin' = [plugin EXCEPT !.connecting = FALSE, !.listening = TRUE]
        PROVE  PluginTyped'
    BY <1>2 DEF TInv, PluginTyped
  <1>3. ASSUME \/ moves.presenter < MaxMoves /\ moves' = [moves EXCEPT !.presenter = @ + 1]
               \/ moves.notes < MaxRemote /\ moves' = [moves EXCEPT !.notes = @ + 1]
        PROVE  MovesTyped'
    BY <1>3, SpeakerInputs DEF SpeakerInputs, TInv, MovesTyped
  <1>4. CASE OpenNotes \/ PresenterReceives
    <2>1. moves' = moves
      BY <1>4 DEF OpenNotes, PresenterReceives
    <2>2. CASE OpenNotes
      BY <1>2, <2>1, <2>2 DEF OpenNotes, TInv, MovesTyped
    <2>3. CASE PresenterReceives
      <3>1. \/ plugin' = [plugin EXCEPT !.connecting = FALSE, !.listening = TRUE]
            \/ plugin' = plugin
        BY <2>3 DEF PresenterReceives
      <3> QED
        BY <1>1, <1>2, <2>1, <3>1 DEF TInv, MovesTyped
    <2> QED
      BY <1>4, <2>2, <2>3
  <1>5. CASE \E key \in Keys : SpeakerKey(key) \/ NotesKey(key)
    <2>1. plugin' = plugin
      BY <1>5 DEF SpeakerKey, NotesKey
    <2>2. MovesTyped'
      BY <1>3, <1>5 DEF SpeakerKey, NotesKey
    <2> QED
      BY <2>1, <2>2 DEF TInv, PluginTyped
  <1>6. CASE \/ ConnectInterval \/ HandleRevealEvent \/ ServerBroadcasts \/ AudienceReceives
             \/ AudienceJoins \/ UpcomingLoad \/ UpcomingReceives
    BY <1>1, <1>6 DEF ConnectInterval, HandleRevealEvent, ServerBroadcasts, AudienceReceives,
         AudienceJoins, UpcomingLoad, UpcomingReceives
  <1>7. CASE NotesLoad \/ HandleConnectMessage \/ HandleStateMessage \/ DebounceTimeout
    BY <1>1, <1>7 DEF NotesLoad, HandleConnectMessage, HandleStateMessage, DebounceTimeout
  <1>8. CASE CurrentLoad \/ CurrentReady \/ CurrentReceives
    BY <1>1, <1>8 DEF CurrentLoad, CurrentReady, CurrentReceives, Show1
  <1>9. CASE UNCHANGED vars
    BY <1>1, <1>9 DEF vars
  <1> QED
    BY <1>4, <1>5, <1>6, <1>7, <1>8, <1>9 DEF Next, Machine

LEMMA IframeMade ==
  ASSUME NEW d, Done(d, Receiver), NEW phase \in {"started", "ready"},
         NEW i, i = [phase |-> phase, deck |-> [d EXCEPT !.events = <<>>]]
  PROVE  IframeTyped(i) /\ Loaded(i) /\ i.phase = phase /\ i.deck = [d EXCEPT !.events = <<>>]
  <1> DEFINE c == [d EXCEPT !.events = <<>>]
  <1>1. Sound(c, Receiver)
    BY Cleared
  <1>2. i = [phase |-> phase, deck |-> c]
    OBVIOUS
  <1> HIDE DEF c
  <1>3. DOMAIN i = {"phase", "deck"} /\ i.phase = phase /\ i.deck = c
    BY <1>2
  <1> QED
    BY <1>1, <1>3 DEF IframeTyped, Loaded, Phases, c

\* The presentation runs handlers of the deck, and so do the windows once they have loaded.
LEMMA PresenterStep ==
  ASSUME TInv, [Next]_vars
  PROVE  Sound(presenter', Config)
  <1>0. Sound(presenter, Config) /\ Done(presenter, Config)
    BY DEF TInv, Sound
  <1>1. CASE presenter' = presenter
    BY <1>0, <1>1
  <1>2. ASSUME NEW d, NEW m, Done(d, Config), Present(d, m) PROVE Sound(presenter', Config)
    BY <1>2, Cleared DEF Present
  <1>3. CASE PresenterReceives
    <2>1. CASE Head(mail.toPresenter).type = "setState" /\ presenter' # presenter
      <3>1. Present(SetState(presenter, Head(mail.toPresenter).state), [mail EXCEPT !.toPresenter = Tail(@)])
        BY <1>3, <2>1 DEF PresenterReceives
      <3>2. Head(mail.toPresenter).state \in State
        BY <1>3, <2>1, Arriving DEF PresenterReceives
      <3> QED
        BY <1>0, <1>2, <3>1, <3>2, Handled
    <2>2. CASE Head(mail.toPresenter).type # "setState"
      BY <1>1, <1>3, <2>2 DEF PresenterReceives
    <2> QED
      BY <1>1, <2>1, <2>2
  <1>4. ASSUME NEW key \in Keys, SpeakerKey(key) PROVE Sound(presenter', Config)
    <2>1. Present(OnDocumentKeyDown(presenter, key), mail)
      BY <1>4 DEF SpeakerKey
    <2> QED
      BY <1>0, <1>2, <2>1, Handled
  <1>5. CASE \/ ConnectInterval \/ HandleRevealEvent \/ ServerBroadcasts \/ AudienceReceives
             \/ AudienceJoins \/ UpcomingLoad \/ UpcomingReceives \/ OpenNotes
             \/ \E key \in Keys : NotesKey(key)
    BY <1>1, <1>5 DEF ConnectInterval, HandleRevealEvent, ServerBroadcasts, AudienceReceives,
         AudienceJoins, UpcomingLoad, UpcomingReceives, OpenNotes, NotesKey
  <1>6. CASE NotesLoad \/ HandleConnectMessage \/ HandleStateMessage \/ DebounceTimeout
    BY <1>1, <1>6 DEF NotesLoad, HandleConnectMessage, HandleStateMessage, DebounceTimeout
  <1>7. CASE CurrentLoad \/ CurrentReady \/ CurrentReceives
    BY <1>1, <1>7 DEF CurrentLoad, CurrentReady, CurrentReceives, Show1
  <1>8. CASE UNCHANGED vars
    BY <1>1, <1>8 DEF vars
  <1> QED
    BY <1>3, <1>4, <1>5, <1>6, <1>7, <1>8 DEF Next, Machine

LEMMA AudienceStep ==
  ASSUME TInv, [Next]_vars
  PROVE  AudienceTyped'
  <1>1. CASE audience' = audience
    BY <1>1 DEF TInv, AudienceTyped
  <1>2. CASE AudienceJoins
    <2>1. /\ audience' = [audience EXCEPT !.joined = TRUE, !.deck = [Start(@) EXCEPT !.events = <<>>]]
          /\ Fresh(audience.deck, Config)
      BY <1>2 DEF AudienceJoins, TInv, AudienceTyped
    <2> DEFINE c == [Start(audience.deck) EXCEPT !.events = <<>>]
    <2>2. Sound(c, Config)
      BY <2>1, Configured, Begun, Cleared
    <2>3. audience' = [audience EXCEPT !.joined = TRUE, !.deck = c]
      BY <2>1
    <2> HIDE DEF c
    <2>4. /\ DOMAIN audience' = DOMAIN audience /\ audience'.joined = TRUE /\ audience'.deck = c
          /\ audience'.told = audience.told
      BY <2>3 DEF TInv, AudienceTyped
    <2> QED
      BY <2>2, <2>4 DEF TInv, AudienceTyped
  <1>3. CASE AudienceReceives
    <2> DEFINE m == Head(mail.toAudience)
               d == SlideTo(audience.deck, m.h, m.v, [set |-> TRUE, to |-> m.f])
               c == [d EXCEPT !.events = <<>>]
    <2>1. audience' = [audience EXCEPT !.told = TRUE, !.deck = c]
      BY <1>3 DEF AudienceReceives
    <2>2. m \in Move /\ Sound(audience.deck, Config) /\ audience.joined
      BY <1>3, Arriving DEF AudienceReceives, TInv, Lost, AudienceTyped
    <2>3. IndexTyped([set |-> TRUE, to |-> m.f]) /\ m.h \in Int /\ m.v \in Int
      BY <2>2 DEF IndexTyped, Move
    <2>4. Done(d, Config)
      BY <2>2, <2>3, Handled DEF Sound
    <2>5. Sound(c, Config)
      BY <2>4, Cleared
    <2> HIDE DEF c
    <2>6. /\ DOMAIN audience' = DOMAIN audience /\ audience'.told = TRUE /\ audience'.deck = c
          /\ audience'.joined = audience.joined
      BY <2>1 DEF TInv, AudienceTyped
    <2> QED
      BY <2>2, <2>5, <2>6 DEF TInv, AudienceTyped
  <1>4. CASE \/ ConnectInterval \/ HandleRevealEvent \/ ServerBroadcasts \/ PresenterReceives
             \/ UpcomingLoad \/ UpcomingReceives \/ OpenNotes
             \/ \E key \in Keys : NotesKey(key) \/ SpeakerKey(key)
    BY <1>1, <1>4 DEF ConnectInterval, HandleRevealEvent, ServerBroadcasts, PresenterReceives,
         UpcomingLoad, UpcomingReceives, OpenNotes, NotesKey, SpeakerKey
  <1>5. CASE NotesLoad \/ HandleConnectMessage \/ HandleStateMessage \/ DebounceTimeout
    BY <1>1, <1>5 DEF NotesLoad, HandleConnectMessage, HandleStateMessage, DebounceTimeout
  <1>6. CASE CurrentLoad \/ CurrentReady \/ CurrentReceives
    BY <1>1, <1>6 DEF CurrentLoad, CurrentReady, CurrentReceives, Show1
  <1>7. CASE UNCHANGED vars
    BY <1>1, <1>7 DEF vars
  <1> QED
    BY <1>2, <1>3, <1>4, <1>5, <1>6, <1>7 DEF Next, Machine

LEMMA IframesStep ==
  ASSUME TInv, [Next]_vars
  PROVE  IframeTyped(current') /\ IframeTyped(upcoming')
  <1>0. IframeTyped(current) /\ IframeTyped(upcoming)
    BY DEF TInv
  <1>1. CASE current' = current /\ upcoming' = upcoming
    BY <1>0, <1>1
  <1>2. CASE HandleConnectMessage
    <2> DEFINE s == Head(mail.toNotes).state
               i == Iframe("loading", s.indexh, s.indexv)
    <2>1. IframeTyped(i)
      <3>1. s.indexh \in Int \ {Undef} /\ s.indexv \in Int \ {Undef}
        BY <1>2, Arriving DEF HandleConnectMessage
      <3> QED
        BY <3>1, IframeFresh
    <2>2. (current' = i /\ upcoming' = i) \/ (current' = current /\ upcoming' = upcoming)
      BY <1>2 DEF HandleConnectMessage
    <2> HIDE DEF i
    <2> QED
      BY <1>1, <2>1, <2>2
  <1>3. ASSUME NEW d, NEW phase \in {"started", "ready"}, NEW m, Done(d, Receiver), Show1(d, phase, m)
        PROVE  IframeTyped(current') /\ IframeTyped(upcoming')
    BY <1>0, <1>3, IframeMade DEF Show1
  <1>4. Loaded(current) =>
          Sound(current.deck, Receiver) /\ Done(current.deck, Receiver) /\ current.phase \in {"started", "ready"}
    BY <1>0 DEF IframeTyped, Loaded, Sound
  <1>5. CASE CurrentLoad
    <2>1. Show1(Start(current.deck), "started", mail) /\ Fresh(current.deck, Receiver)
      BY <1>0, <1>5 DEF CurrentLoad, IframeTyped, Loaded
    <2>2. Done(Start(current.deck), Receiver)
      BY <2>1, Configured, Begun
    <2> QED
      BY <1>3, <2>1, <2>2
  <1>6. CASE CurrentReady
    <2>1. Show1(DispatchEvent(current.deck, "ready"), "ready", mail) /\ Loaded(current)
      BY <1>6 DEF CurrentReady, Loaded
    <2>2. Done(DispatchEvent(current.deck, "ready"), Receiver)
      BY <1>4, <2>1, Handled
    <2> QED
      BY <1>3, <2>1, <2>2
  <1>7. CASE CurrentReceives
    <2> DEFINE m == Head(mail.toCurrent)
               d == IF m.type = "key" THEN OnDocumentKeyDown(current.deck, m.key)
                    ELSE SetState(current.deck, m.state)
    <2>1. Loaded(current)
      BY <1>7 DEF CurrentReceives, TInv, Lost
    <2>2. Done(d, Receiver)
      <3>1. m.type # "key" => m.state \in State
        BY <1>7, Arriving DEF CurrentReceives
      <3> QED
        BY <1>4, <2>1, <3>1, Handled
    <2>3. Show1(d, current.phase, [mail EXCEPT !.toCurrent = Tail(@)])
      BY <1>7 DEF CurrentReceives
    <2> HIDE DEF d
    <2> QED
      BY <1>3, <1>4, <2>1, <2>2, <2>3
  <1>8. CASE UpcomingLoad
    <2>1. /\ upcoming' = [phase |-> "ready", deck |-> [Start(upcoming.deck) EXCEPT !.events = <<>>]]
          /\ current' = current /\ Fresh(upcoming.deck, Receiver)
      BY <1>0, <1>8 DEF UpcomingLoad, IframeTyped, Loaded
    <2>2. Done(Start(upcoming.deck), Receiver)
      BY <2>1, Configured, Begun
    <2> QED
      BY <1>0, <2>1, <2>2, IframeMade
  <1>9. CASE UpcomingReceives
    <2> DEFINE m == Head(mail.toUpcoming)
               d == IF m.type = "next" THEN Navigate(upcoming.deck, "next")
                    ELSE SetState(upcoming.deck, m.state)
               c == [d EXCEPT !.events = <<>>]
    <2>1. upcoming' = [upcoming EXCEPT !.deck = c] /\ current' = current
      BY <1>9 DEF UpcomingReceives
    <2>2. Loaded(upcoming)
      BY <1>9 DEF UpcomingReceives, TInv, Lost
    <2>3. Done(upcoming.deck, Receiver)
      BY <1>0, <2>2 DEF IframeTyped, Sound
    <2>4. Done(d, Receiver)
      <3>1. m.type # "next" => m.state \in State
        BY <1>9, Arriving DEF UpcomingReceives
      <3> QED
        BY <2>3, <3>1, Handled
    <2> HIDE DEF d
    <2>5. Sound(c, Receiver)
      BY <2>4, Cleared
    <2> HIDE DEF c
    <2>6. DOMAIN upcoming' = DOMAIN upcoming /\ upcoming'.phase = upcoming.phase /\ upcoming'.deck = c
      BY <1>0, <2>1 DEF IframeTyped
    <2> QED
      BY <1>0, <2>1, <2>2, <2>5, <2>6 DEF IframeTyped, Loaded
  <1>10. CASE \/ ConnectInterval \/ HandleRevealEvent \/ ServerBroadcasts \/ PresenterReceives
              \/ AudienceJoins \/ AudienceReceives \/ OpenNotes
              \/ \E key \in Keys : NotesKey(key) \/ SpeakerKey(key)
    BY <1>1, <1>10 DEF ConnectInterval, HandleRevealEvent, ServerBroadcasts, PresenterReceives,
         AudienceJoins, AudienceReceives, OpenNotes, NotesKey, SpeakerKey
  <1>11. CASE NotesLoad \/ HandleStateMessage \/ DebounceTimeout
    BY <1>1, <1>11 DEF NotesLoad, HandleStateMessage, DebounceTimeout
  <1>12. CASE UNCHANGED vars
    BY <1>1, <1>12 DEF vars
  <1> QED
    BY <1>2, <1>5, <1>6, <1>7, <1>8, <1>9, <1>10, <1>11, <1>12 DEF Next, Machine

\* The presentation can tell where it is.
LEMMA PresenterTells ==
  ASSUME TInv
  PROVE  /\ GetState(presenter) \in State /\ Tells(GetState(presenter), presenter, TRUE)
         /\ Good(presenter) /\ Steady(presenter) /\ Faithful(presenter) /\ Allowed(presenter)
         /\ Tellable(presenter) /\ presenter.events = <<>> /\ presenter.config = Config
         /\ GetState(presenter).indexh # Undef /\ GetState(presenter).indexv # Undef
  <1>1. /\ Good(presenter) /\ Steady(presenter) /\ Faithful(presenter) /\ Allowed(presenter)
        /\ presenter.events = <<>> /\ presenter.config = Config
    BY DEF TInv, Sound, Done, Good
  <1>2. Tellable(presenter)
    BY <1>1, SteadyTellable
  <1>3. GetState(presenter) \in State /\ Tells(GetState(presenter), presenter, TRUE)
    BY <1>1, <1>2, StateTells DEF Faithful
  <1> QED
    BY <1>1, <1>2, <1>3, SteadyShape DEF Tells

LEMMA TailTyped ==
  ASSUME NEW m, MailTyped(m), NEW way \in Ways, m[way] # <<>>
  PROVE  MailTyped([m EXCEPT ![way] = Tail(@)])
  <1>1. m[way] \in Seq(MessagesOn[way]) /\ way \in DOMAIN m
    BY DEF MailTyped
  <1>2. Tail(m[way]) \in Seq(MessagesOn[way])
    BY <1>1, LastOfTail
  <1> QED
    BY <1>1, <1>2 DEF MailTyped

LEMMA PresentTyped ==
  ASSUME NEW d, Done(d, Config), NEW m, MailTyped(m), Present(d, m)
  PROVE  MailTyped(mail')
  <1>1. DOMAIN m = Ways /\ m.toNotes \in Seq(Connect \cup States) /\ m.toServer \in Seq(Move)
    BY MailTypes
  <1>2. d.events \in Seq(Event)
    BY DEF Done, Faithful
  <1>3. Post(d) \in Seq(Connect \cup States) /\ Notify(d) \in Seq(Move)
    BY <1>2, Posted
  <1>4. /\ mail'.toNotes = m.toNotes \o Post(d) /\ mail'.toServer = m.toServer \o Notify(d)
        /\ OnWays(m, mail', {"toNotes", "toServer"})
    BY <1>1 DEF Present, OnWays, Ways
  <1>5. mail'.toNotes \in Seq(Connect \cup States) /\ mail'.toServer \in Seq(Move)
    BY <1>1, <1>3, <1>4
  <1> QED
    BY <1>4, <1>5, MessagesAre, MailFrame

\* What the notes window sends on to the iframes
LEMMA AppliedTyped ==
  ASSUME NEW s \in State, NEW m, MailTyped(m), ApplyStateMessage(s, m)
  PROVE  MailTyped(mail')
  <1> DEFINE set == [type |-> "setState", state |-> s]
             next == [type |-> "next"]
             a == IF Loaded(current) THEN <<set>> ELSE <<>>
             b == IF Loaded(upcoming) THEN <<set, next>> ELSE <<>>
  <1>1. /\ DOMAIN m = Ways /\ m.toCurrent \in Seq(KeyPresses \cup SetStates)
        /\ m.toUpcoming \in Seq(Steps \cup SetStates)
    BY MailTypes
  <1>2. set \in SetStates /\ next \in Steps
    BY MessageShape
  <1>3. mail' = [m EXCEPT !.toCurrent = @ \o a, !.toUpcoming = @ \o b]
    BY Zenon DEF ApplyStateMessage
  <1> HIDE DEF set, next
  <1>4. a \in Seq(KeyPresses \cup SetStates) /\ b \in Seq(Steps \cup SetStates)
    <2>1. /\ <<set>> \in Seq(KeyPresses \cup SetStates) /\ <<>> \in Seq(KeyPresses \cup SetStates)
          /\ <<set, next>> \in Seq(Steps \cup SetStates) /\ <<>> \in Seq(Steps \cup SetStates)
      BY <1>2
    <2> QED
      BY Zenon, <2>1
  <1> HIDE DEF a, b
  <1>5. /\ mail'.toCurrent = m.toCurrent \o a /\ mail'.toUpcoming = m.toUpcoming \o b
        /\ OnWays(m, mail', {"toCurrent", "toUpcoming"})
    BY <1>1, <1>3 DEF OnWays, Ways
  <1>6. mail'.toCurrent \in Seq(KeyPresses \cup SetStates) /\ mail'.toUpcoming \in Seq(Steps \cup SetStates)
    BY <1>1, <1>4, <1>5
  <1> QED
    BY <1>5, <1>6, MessagesAre, MailFrame

LEMMA ShownTyped ==
  ASSUME NEW d, Done(d, Receiver), NEW phase, NEW m, MailTyped(m), Show1(d, phase, m)
  PROVE  MailTyped(mail')
  <1>1. DOMAIN m = Ways /\ m.fromCurrent \in Seq(Event) /\ d.events \in Seq(Event)
    BY MailTypes DEF Done, Faithful
  <1>2. mail'.fromCurrent = m.fromCurrent \o d.events /\ OnWays(m, mail', {"fromCurrent"})
    BY <1>1 DEF Show1, OnWays, Ways
  <1>3. mail'.fromCurrent \in Seq(Event)
    BY <1>1, <1>2
  <1> QED
    BY <1>2, <1>3, OneWay

\* What the deck of an iframe is after the handler that it runs
LEMMA CurrentHandled ==
  ASSUME TInv
  PROVE  /\ current.phase = "loading" => Done(Start(current.deck), Receiver)
         /\ Loaded(current) =>
              /\ Done(DispatchEvent(current.deck, "ready"), Receiver)
              /\ \A key : Done(OnDocumentKeyDown(current.deck, key), Receiver)
              /\ \A state \in State : Done(SetState(current.deck, state), Receiver)
  <1>1. IF Loaded(current) THEN Sound(current.deck, Receiver) ELSE Fresh(current.deck, Receiver)
    BY DEF TInv, IframeTyped
  <1>2. current.phase = "loading" => ~Loaded(current)
    BY DEF Loaded
  <1> QED
    BY <1>1, <1>2, Begun, Configured, Handled DEF Sound

LEMMA MailStep ==
  ASSUME TInv, [Next]_vars
  PROVE  MailTyped(mail')
  <1>0. MailTyped(mail) /\ DOMAIN mail = Ways
    BY DEF TInv, MailTyped
  <1>1. CASE mail' = mail
    BY <1>0, <1>1
  <1>2. /\ mail.toNotes # <<>> => MailTyped([mail EXCEPT !.toNotes = Tail(@)])
        /\ mail.toPresenter # <<>> => MailTyped([mail EXCEPT !.toPresenter = Tail(@)])
        /\ mail.toCurrent # <<>> => MailTyped([mail EXCEPT !.toCurrent = Tail(@)])
        /\ mail.toUpcoming # <<>> => MailTyped([mail EXCEPT !.toUpcoming = Tail(@)])
        /\ mail.toAudience # <<>> => MailTyped([mail EXCEPT !.toAudience = Tail(@)])
        /\ mail.fromCurrent # <<>> => MailTyped([mail EXCEPT !.fromCurrent = Tail(@)])
        /\ mail.toServer # <<>> => MailTyped([mail EXCEPT !.toServer = Tail(@)])
    BY <1>0, TailTyped DEF Ways
  <1>3. CASE ConnectInterval
    <2> DEFINE message == [type |-> "connect", state |-> GetState(presenter)]
    <2>1. mail' = [mail EXCEPT !.toNotes = <<message>>]
      BY <1>3 DEF ConnectInterval
    <2>2. message \in Connect
      <3> HIDE DEF message
      <3>1. \A state \in State :
              state.indexh # Undef /\ state.indexv # Undef => [type |-> "connect", state |-> state] \in Connect
        BY DEF Connect
      <3> QED
        BY <3>1, PresenterTells DEF message
    <2> HIDE DEF message
    <2>3. mail'.toNotes = <<message>> /\ OnWays(mail, mail', {"toNotes"})
      BY <1>0, <2>1 DEF OnWays, Ways
    <2>4. <<message>> \in Seq(Connect \cup States)
      BY <2>2
    <2> QED
      BY <1>0, <2>3, <2>4, OneWay
  <1>4. CASE PresenterReceives
    <2> DEFINE rest == [mail EXCEPT !.toPresenter = Tail(@)]
    <2>1. MailTyped(rest)
      BY <1>2, <1>4 DEF PresenterReceives
    <2>2. \/ mail' = [rest EXCEPT !.toNotes = Append(@, StateMessage(GetState(presenter)))]
          \/ /\ Head(mail.toPresenter).type = "setState"
             /\ Present(SetState(presenter, Head(mail.toPresenter).state), rest)
      BY <1>4 DEF PresenterReceives
    <2> HIDE DEF rest
    <2>3. CASE mail' = [rest EXCEPT !.toNotes = Append(@, StateMessage(GetState(presenter)))]
      <3> DEFINE message == StateMessage(GetState(presenter))
      <3>1. message \in Connect \cup States
        BY MessageShape, PresenterTells
      <3> HIDE DEF message
      <3>2. DOMAIN rest = Ways /\ rest.toNotes \in Seq(Connect \cup States)
        BY <2>1, MailTypes
      <3>3. mail'.toNotes = Append(rest.toNotes, message) /\ OnWays(rest, mail', {"toNotes"})
        BY <2>3, <3>2 DEF message, OnWays, Ways
      <3>4. Append(rest.toNotes, message) \in Seq(Connect \cup States)
        BY <3>1, <3>2
      <3> QED
        BY <2>1, <3>3, <3>4, OneWay
    <2>4. CASE /\ Head(mail.toPresenter).type = "setState"
               /\ Present(SetState(presenter, Head(mail.toPresenter).state), rest)
      <3>1. Done(SetState(presenter, Head(mail.toPresenter).state), Config)
        <4>1. Head(mail.toPresenter).state \in State
          BY <1>4, <2>4, Arriving DEF PresenterReceives
        <4> QED
          BY <4>1, Handled DEF TInv, Sound
      <3> QED
        BY <2>1, <2>4, <3>1, PresentTyped
    <2> QED
      BY <2>2, <2>3, <2>4
  <1>5. ASSUME NEW key \in Keys, SpeakerKey(key) PROVE MailTyped(mail')
    <2>1. Done(OnDocumentKeyDown(presenter, key), Config)
      BY Handled DEF TInv, Sound
    <2>2. Present(OnDocumentKeyDown(presenter, key), mail)
      BY <1>5 DEF SpeakerKey
    <2> QED
      BY <1>0, <2>1, <2>2, PresentTyped
  <1>6. ASSUME NEW key \in Keys, NotesKey(key) PROVE MailTyped(mail')
    <2> DEFINE message == [type |-> "key", key |-> key]
               sent == IF Loaded(current) THEN <<message>> ELSE <<>>
    <2>1. mail' = [mail EXCEPT !.toCurrent = @ \o sent]
      BY <1>6 DEF NotesKey
    <2>2. sent \in Seq(KeyPresses \cup SetStates)
      <3>1. message \in KeyPresses
        BY MessageShape
      <3> HIDE DEF message
      <3>2. <<message>> \in Seq(KeyPresses \cup SetStates) /\ <<>> \in Seq(KeyPresses \cup SetStates)
        BY <3>1
      <3> QED
        BY Zenon, <3>2 DEF message
    <2> HIDE DEF sent
    <2>3. mail'.toCurrent = mail.toCurrent \o sent /\ OnWays(mail, mail', {"toCurrent"})
      BY <1>0, <2>1 DEF OnWays, Ways
    <2>4. mail.toCurrent \in Seq(KeyPresses \cup SetStates)
      BY <1>0, MailTypes
    <2>5. mail'.toCurrent \in Seq(KeyPresses \cup SetStates)
      BY <2>2, <2>3, <2>4
    <2> QED
      BY <1>0, <2>3, <2>5, OneWay
  <1>7. CASE HandleConnectMessage
    BY <1>2, <1>7 DEF HandleConnectMessage
  <1>8. CASE HandleStateMessage
    <2> DEFINE rest == [mail EXCEPT !.toNotes = Tail(@)]
               s == Head(mail.toNotes).state
    <2>1. MailTyped(rest) /\ s \in State
      BY <1>2, <1>8, Arriving DEF HandleStateMessage
    <2>2. mail' = rest \/ ApplyStateMessage(s, rest)
      BY <1>8 DEF HandleStateMessage
    <2> HIDE DEF rest, s
    <2> QED
      BY <2>1, <2>2, AppliedTyped
  <1>9. CASE DebounceTimeout
    <2>1. CASE notes.pending = {}
      BY <1>1, <1>9, <2>1 DEF DebounceTimeout
    <2>2. CASE notes.pending # {}
      <3>1. PICK s \in notes.pending : ApplyStateMessage(s, mail)
        BY <1>9, <2>2 DEF DebounceTimeout
      <3>2. s \in State
        BY <3>1 DEF TInv, NotesTyped
      <3> QED
        BY <1>0, <3>1, <3>2, AppliedTyped
    <2> QED
      BY <2>1, <2>2
  <1>10. CASE HandleRevealEvent
    <2> DEFINE e == Head(mail.fromCurrent)
               sent == IF e.type = "ready" THEN <<[type |-> "connected"]>>
                       ELSE IF e.type \in Forwarded /\ notes.currentState # {e.state}
                       THEN <<[type |-> "setState", state |-> e.state]>> ELSE <<>>
               n == [mail EXCEPT !.fromCurrent = Tail(@)]
    <2>1. mail' = [mail EXCEPT !.fromCurrent = Tail(@), !.toPresenter = @ \o sent]
      BY <1>10 DEF HandleRevealEvent
    <2>2. sent \in Seq(Answers \cup SetStates)
      <3>1. [type |-> "connected"] \in Answers
        BY MessageShape
      <3>2. [type |-> "setState", state |-> e.state] \in SetStates
        <4>1. e.state \in State
          BY <1>10, Arriving DEF HandleRevealEvent
        <4> QED
          BY <4>1, MessageShape
      <3>3. \A a \in Answers, b \in SetStates : <<a>> \in Seq(Answers \cup SetStates) /\ <<b>> \in Seq(Answers \cup SetStates)
        OBVIOUS
      <3>4. <<>> \in Seq(Answers \cup SetStates)
        OBVIOUS
      <3> QED
        BY Zenon, <3>1, <3>2, <3>3, <3>4
    <2> HIDE DEF sent
    <2>3. MailTyped(n)
      BY <1>2, <1>10 DEF HandleRevealEvent
    <2>4. mail' = [n EXCEPT !.toPresenter = @ \o sent]
      BY <1>0, <2>1 DEF Ways
    <2> HIDE DEF n
    <2>5. DOMAIN n = Ways /\ n.toPresenter \in Seq(Answers \cup SetStates)
      BY <2>3, MailTypes
    <2>6. mail'.toPresenter = n.toPresenter \o sent /\ OnWays(n, mail', {"toPresenter"})
      BY <2>4, <2>5 DEF OnWays, Ways
    <2>7. mail'.toPresenter \in Seq(Answers \cup SetStates)
      BY <2>2, <2>5, <2>6
    <2> QED
      BY <2>3, <2>6, <2>7, OneWay
  <1>11. CASE CurrentLoad \/ CurrentReady \/ CurrentReceives
    <2>1. CASE CurrentLoad
      BY <1>0, <2>1, CurrentHandled, ShownTyped DEF CurrentLoad
    <2>2. CASE CurrentReady
      BY <1>0, <2>2, CurrentHandled, ShownTyped DEF CurrentReady, Loaded
    <2>3. CASE CurrentReceives
      <3> DEFINE m == Head(mail.toCurrent)
                 d == IF m.type = "key" THEN OnDocumentKeyDown(current.deck, m.key)
                      ELSE SetState(current.deck, m.state)
      <3>1. Show1(d, current.phase, [mail EXCEPT !.toCurrent = Tail(@)])
        BY <2>3 DEF CurrentReceives
      <3>2. Done(d, Receiver)
        <4>1. m.type # "key" => m.state \in State
          BY <2>3, Arriving DEF CurrentReceives
        <4>2. Loaded(current)
          BY <2>3 DEF CurrentReceives, TInv, Lost
        <4> QED
          BY <4>1, <4>2, CurrentHandled
      <3>3. MailTyped([mail EXCEPT !.toCurrent = Tail(@)])
        BY <1>2, <2>3 DEF CurrentReceives
      <3> HIDE DEF d
      <3> QED
        BY <3>1, <3>2, <3>3, ShownTyped
    <2> QED
      BY <1>11, <2>1, <2>2, <2>3
  <1>12. CASE UpcomingReceives
    BY <1>2, <1>12 DEF UpcomingReceives
  <1>13. CASE AudienceReceives
    BY <1>2, <1>13 DEF AudienceReceives
  <1>14. CASE ServerBroadcasts
    <2> DEFINE n == [mail EXCEPT !.toServer = Tail(@)]
               message == Head(mail.toServer)
    <2>1. mail.toServer # <<>> /\ MailTyped(n)
      BY <1>2, <1>14 DEF ServerBroadcasts
    <2>2. mail' = n \/ mail' = [n EXCEPT !.toAudience = Append(@, message)]
      BY <1>0, <1>14 DEF ServerBroadcasts, Ways
    <2>3. message \in Move
      BY <1>0, <2>1, MailTypes, LastOfTail
    <2> HIDE DEF n, message
    <2>4. CASE mail' = [n EXCEPT !.toAudience = Append(@, message)]
      <3>1. DOMAIN n = Ways /\ n.toAudience \in Seq(Move)
        BY <2>1, MailTypes
      <3>2. mail'.toAudience = Append(n.toAudience, message) /\ OnWays(n, mail', {"toAudience"})
        BY <2>4, <3>1 DEF OnWays, Ways
      <3>3. Append(n.toAudience, message) \in Seq(Move)
        BY <2>3, <3>1
      <3> QED
        BY <2>1, <3>2, <3>3, OneWay
    <2> QED
      BY <2>1, <2>2, <2>4
  <1>15. CASE OpenNotes \/ NotesLoad \/ AudienceJoins \/ UpcomingLoad \/ UNCHANGED vars
    BY <1>0, <1>1, <1>15, StepWays
  <1> QED
    BY <1>3, <1>4, <1>5, <1>6, <1>7, <1>8, <1>9, <1>10, <1>11, <1>12, <1>13, <1>14, <1>15 DEF Next, Machine

\* A state is applied: to the notes, and to the iframes that have loaded.
LEMMA Applied ==
  ASSUME SetUpInv, NEW s \in State, NEW m, MailTyped(m), ApplyStateMessage(s, m)
  PROVE  /\ notes'.currentState = {s} /\ notes'.pending = {} /\ notes'.recent = TRUE
         /\ notes'.reached = Loaded(upcoming)
         /\ notes'.phase = notes.phase /\ notes'.connected = notes.connected
         /\ OnWays(m, mail', {"toCurrent", "toUpcoming"})
         /\ ~Loaded(current) => mail'.toCurrent = m.toCurrent
         /\ Loaded(current) => mail'.toCurrent = m.toCurrent \o <<[type |-> "setState", state |-> s]>>
         /\ ~Loaded(upcoming) => mail'.toUpcoming = m.toUpcoming
         /\ Loaded(upcoming) =>
              /\ mail'.toUpcoming # <<>> /\ Len(mail'.toUpcoming) # 1
              /\ mail'.toUpcoming[Len(mail'.toUpcoming)].type = "next"
              /\ mail'.toUpcoming[Len(mail'.toUpcoming) - 1] = [type |-> "setState", state |-> s]
  <1> DEFINE set == [type |-> "setState", state |-> s]
             next == [type |-> "next"]
             a == IF Loaded(current) THEN <<set>> ELSE <<>>
             b == IF Loaded(upcoming) THEN <<set, next>> ELSE <<>>
  <1>1. /\ notes' = [notes EXCEPT !.currentState = {s}, !.pending = {}, !.recent = TRUE,
                                  !.reached = Loaded(upcoming)]
        /\ mail' = [m EXCEPT !.toCurrent = @ \o a, !.toUpcoming = @ \o b]
    BY Zenon DEF ApplyStateMessage
  <1>2. /\ DOMAIN m = Ways /\ m.toCurrent \in Seq(KeyPresses \cup SetStates)
        /\ m.toUpcoming \in Seq(Steps \cup SetStates)
    BY MailTypes
  <1>3. set \in SetStates /\ next \in Steps /\ next.type = "next"
    BY MessageShape
  <1> HIDE DEF set, next
  <1>4. /\ notes'.currentState = {s} /\ notes'.pending = {} /\ notes'.recent = TRUE
        /\ notes'.reached = Loaded(upcoming)
        /\ notes'.phase = notes.phase /\ notes'.connected = notes.connected
    <2> DEFINE reached == Loaded(upcoming)
    <2>1. notes' = [notes EXCEPT !.currentState = {s}, !.pending = {}, !.recent = TRUE, !.reached = reached]
      BY <1>1
    <2> HIDE DEF reached
    <2>2. /\ notes'.currentState = {s} /\ notes'.pending = {} /\ notes'.recent = TRUE
          /\ notes'.reached = reached
          /\ notes'.phase = notes.phase /\ notes'.connected = notes.connected
      BY <2>1 DEF SetUpInv
    <2> QED
      BY Zenon, <2>2 DEF reached
  <1>5. /\ ~Loaded(current) => a = <<>>
        /\ Loaded(current) => a = <<set>>
        /\ Loaded(upcoming) => b = <<set, next>>
        /\ ~Loaded(upcoming) => b = <<>>
    BY Zenon
  <1> HIDE DEF a, b
  <1>6. /\ mail'.toCurrent = m.toCurrent \o a /\ mail'.toUpcoming = m.toUpcoming \o b
        /\ OnWays(m, mail', {"toCurrent", "toUpcoming"})
    BY <1>1, <1>2 DEF OnWays, Ways
  <1>7. ~Loaded(current) => mail'.toCurrent = m.toCurrent
    BY <1>2, <1>5, <1>6
  <1>8. ~Loaded(upcoming) => mail'.toUpcoming = m.toUpcoming
    BY <1>2, <1>5, <1>6
  <1>9. ASSUME Loaded(upcoming)
        PROVE  /\ mail'.toUpcoming # <<>> /\ Len(mail'.toUpcoming) # 1
               /\ mail'.toUpcoming[Len(mail'.toUpcoming)] = next
               /\ mail'.toUpcoming[Len(mail'.toUpcoming) - 1] = set
    <2> DEFINE u == m.toUpcoming
    <2>1. u \in Seq(Steps \cup SetStates) /\ <<set, next>> \in Seq(Steps \cup SetStates)
          /\ mail'.toUpcoming = u \o <<set, next>>
      <3>1. <<set, next>> \in Seq(Steps \cup SetStates)
        BY <1>3
      <3> QED
        BY <1>2, <1>5, <1>6, <1>9, <3>1
    <2> HIDE DEF u
    <2>2. Len(u) \in Nat /\ Len(<<set, next>>) = 2
      BY <2>1
    <2>3. /\ Len(mail'.toUpcoming) = Len(u) + 2
          /\ mail'.toUpcoming[Len(u) + 1] = set /\ mail'.toUpcoming[Len(u) + 2] = next
      <3>1. /\ Len(u \o <<set, next>>) = Len(u) + 2
            /\ \A i \in 1 .. 2 : (u \o <<set, next>>)[Len(u) + i] = <<set, next>>[i]
        <4>1. <<set, next>> # <<>>
          OBVIOUS
        <4> QED
          BY <2>1, <2>2, <4>1, LastOfConcat
      <3> QED
        BY <2>1, <3>1
    <2>4. (Len(u) + 2) - 1 = Len(u) + 1 /\ Len(u) + 2 # 1 /\ Len(u) + 2 # 0
      BY <2>2
    <2>5. mail'.toUpcoming # <<>>
      BY <2>3, <2>4, EmptySeq
    <2> QED
      BY <2>3, <2>4, <2>5
  <1> QED
    BY <1>3, <1>4, <1>5, <1>6, <1>7, <1>8, <1>9 DEF set

LEMMA LostStep ==
  ASSUME TInv, [Next]_vars
  PROVE  Lost'
  <1>0. MailTyped(mail) /\ DOMAIN mail = Ways /\ SetUpInv
    BY DEF TInv, MailTyped
  <1>1. (Loaded(current) => Loaded(current')) /\ (Loaded(upcoming) => Loaded(upcoming'))
    BY SetUpNext DEF TInv
  <1>2. audience.joined => audience'.joined
    <2>1. CASE audience' = audience
      BY <2>1
    <2>2. CASE AudienceJoins
      BY <2>2 DEF AudienceJoins
    <2>3. CASE AudienceReceives
      <3>1. \E deck : audience' = [audience EXCEPT !.told = TRUE, !.deck = deck]
        BY Zenon, <2>3 DEF AudienceReceives
      <3> QED
        BY <3>1 DEF TInv, AudienceTyped
    <2>4. CASE \/ ConnectInterval \/ HandleRevealEvent \/ ServerBroadcasts \/ PresenterReceives
               \/ UpcomingLoad \/ UpcomingReceives \/ OpenNotes
               \/ \E key \in Keys : NotesKey(key) \/ SpeakerKey(key)
      BY <2>1, <2>4 DEF ConnectInterval, HandleRevealEvent, ServerBroadcasts, PresenterReceives,
           UpcomingLoad, UpcomingReceives, OpenNotes, NotesKey, SpeakerKey
    <2>5. CASE NotesLoad \/ HandleConnectMessage \/ HandleStateMessage \/ DebounceTimeout
      BY <2>1, <2>5 DEF NotesLoad, HandleConnectMessage, HandleStateMessage, DebounceTimeout
    <2>6. CASE CurrentLoad \/ CurrentReady \/ CurrentReceives
      BY <2>1, <2>6 DEF CurrentLoad, CurrentReady, CurrentReceives, Show1
    <2>7. CASE UNCHANGED vars
      BY <2>1, <2>7 DEF vars
    <2> QED
      BY <2>2, <2>3, <2>4, <2>5, <2>6, <2>7 DEF Next, Machine
  <1> DEFINE Fine == /\ mail'.toCurrent # <<>> => mail.toCurrent # <<>> \/ Loaded(current)
                     /\ mail'.toUpcoming # <<>> => mail.toUpcoming # <<>> \/ Loaded(upcoming)
                     /\ mail'.toAudience # <<>> => mail.toAudience # <<>> \/ audience.joined
  <1>3. ASSUME Fine PROVE Lost'
    BY <1>1, <1>2, <1>3 DEF TInv, Lost
  <1>4. ASSUME NEW ways, OnWays(mail, mail', ways), {"toCurrent", "toUpcoming", "toAudience"} \cap ways = {}
        PROVE  Fine
    BY <1>4 DEF OnWays, Ways
  <1>5. ASSUME NEW s \in State, NEW m, MailTyped(m), OnWays(mail, m, {"toNotes"}), ApplyStateMessage(s, m)
        PROVE  Fine
    <2>1. /\ OnWays(m, mail', {"toCurrent", "toUpcoming"})
          /\ ~Loaded(current) => mail'.toCurrent = m.toCurrent
          /\ ~Loaded(upcoming) => mail'.toUpcoming = m.toUpcoming
      BY <1>0, <1>5, Applied
    <2> QED
      BY <1>5, <2>1 DEF OnWays, Ways
  <1>6. CASE HandleStateMessage
    <2> DEFINE rest == [mail EXCEPT !.toNotes = Tail(@)]
               s == Head(mail.toNotes).state
    <2>1. OnWays(mail, rest, {"toNotes"})
      BY <1>0 DEF OnWays, Ways
    <2>2. MailTyped(rest) /\ s \in State
      BY <1>0, <1>6, TailTyped, Arriving DEF HandleStateMessage, Ways
    <2>3. mail' = rest \/ ApplyStateMessage(s, rest)
      BY <1>6 DEF HandleStateMessage
    <2> HIDE DEF rest, s
    <2>4. mail' = rest => Fine
      BY <1>4, <2>1
    <2> QED
      BY <1>3, <1>5, <2>1, <2>2, <2>3, <2>4
  <1>7. CASE DebounceTimeout
    <2>1. CASE notes.pending = {}
      <3>1. mail' = mail
        BY <1>7, <2>1 DEF DebounceTimeout
      <3> QED
        BY <1>3, <3>1
    <2>2. CASE notes.pending # {}
      <3>1. PICK s \in notes.pending : ApplyStateMessage(s, mail)
        BY <1>7, <2>2 DEF DebounceTimeout
      <3>2. s \in State /\ OnWays(mail, mail, {"toNotes"})
        BY <1>0, <3>1 DEF TInv, NotesTyped, OnWays
      <3> QED
        BY <1>0, <1>3, <1>5, <3>1, <3>2
    <2> QED
      BY <2>1, <2>2
  <1>8. CASE CurrentReceives
    <2>1. mail.toCurrent # <<>> /\ OnWays(mail, mail', {"fromCurrent", "toCurrent"})
      BY <1>0, <1>8, StepWays DEF CurrentReceives
    <2> QED
      BY <1>3, <2>1 DEF OnWays, Ways
  <1>9. CASE UpcomingReceives
    <2>1. mail.toUpcoming # <<>> /\ OnWays(mail, mail', {"toUpcoming"})
      BY <1>0, <1>9, StepWays DEF UpcomingReceives
    <2> QED
      BY <1>3, <2>1 DEF OnWays, Ways
  <1>10. CASE AudienceReceives
    <2>1. mail.toAudience # <<>> /\ OnWays(mail, mail', {"toAudience"})
      BY <1>0, <1>10, StepWays DEF AudienceReceives
    <2> QED
      BY <1>3, <2>1 DEF OnWays, Ways
  <1>11. CASE ServerBroadcasts
    <2>1. OnWays(mail, mail', {"toServer", "toAudience"})
      BY <1>0, <1>11, StepWays
    <2>2. ~audience.joined => mail'.toAudience = mail.toAudience
      BY <1>0, <1>11 DEF ServerBroadcasts, Ways
    <2> QED
      BY <1>3, <2>1, <2>2 DEF OnWays, Ways
  <1>12. ASSUME NEW key \in Keys, NotesKey(key) PROVE Lost'
    <2>1. OnWays(mail, mail', {"toCurrent"})
      BY <1>0, <1>12, StepWays
    <2>2. ~Loaded(current) => mail'.toCurrent = mail.toCurrent
      <3>1. ASSUME ~Loaded(current) PROVE mail' = [mail EXCEPT !.toCurrent = @ \o <<>>]
        BY <1>12, <3>1 DEF NotesKey
      <3>2. mail.toCurrent \in Seq(KeyPresses \cup SetStates)
        BY <1>0, MailTypes
      <3>3. mail.toCurrent \o <<>> = mail.toCurrent
        BY <3>2
      <3> QED
        BY <1>0, <3>1, <3>3 DEF Ways
    <2> QED
      BY <1>3, <2>1, <2>2 DEF OnWays, Ways
  <1>13. ASSUME NEW key \in Keys, SpeakerKey(key) PROVE Lost'
    BY <1>0, <1>3, <1>4, <1>13, StepWays
  <1>14. CASE OpenNotes \/ NotesLoad \/ AudienceJoins \/ UpcomingLoad \/ UNCHANGED vars
    BY <1>0, <1>3, <1>14, StepWays
  <1>15. CASE ConnectInterval \/ HandleConnectMessage \/ PresenterReceives
    <2>1. \E ways : OnWays(mail, mail', ways) /\ {"toCurrent", "toUpcoming", "toAudience"} \cap ways = {}
      <3>1. {"toCurrent", "toUpcoming", "toAudience"} \cap {"toNotes"} = {}
        OBVIOUS
      <3>2. {"toCurrent", "toUpcoming", "toAudience"} \cap {"toPresenter", "toNotes", "toServer"} = {}
        OBVIOUS
      <3> QED
        BY <1>0, <1>15, <3>1, <3>2, StepWays
    <2> QED
      BY <1>3, <1>4, <2>1
  <1>16. CASE HandleRevealEvent \/ CurrentLoad \/ CurrentReady
    <2>1. \E ways : OnWays(mail, mail', ways) /\ {"toCurrent", "toUpcoming", "toAudience"} \cap ways = {}
      <3>1. {"toCurrent", "toUpcoming", "toAudience"} \cap {"fromCurrent"} = {}
        OBVIOUS
      <3>2. {"toCurrent", "toUpcoming", "toAudience"} \cap {"fromCurrent", "toPresenter"} = {}
        OBVIOUS
      <3> QED
        BY <1>0, <1>16, <3>1, <3>2, StepWays
    <2> QED
      BY <1>3, <1>4, <2>1
  <1> QED
    BY <1>6, <1>7, <1>8, <1>9, <1>10, <1>11, <1>12, <1>13, <1>14, <1>15, <1>16 DEF Next, Machine

\* Types are kept by every step.
LEMMA TypeNext == ASSUME TInv, [Next]_vars PROVE TInv'
  <1>1. SetUpInv'
    BY SetUpNext DEF TInv
  <1>2. NotesTyped' /\ PluginTyped' /\ MovesTyped'
    BY NotesStep, PluginStep
  <1>3. Sound(presenter', Config) /\ AudienceTyped'
    BY PresenterStep, AudienceStep
  <1>4. IframeTyped(current') /\ IframeTyped(upcoming')
    BY IframesStep
  <1>5. MailTyped(mail') /\ Lost'
    BY MailStep, LostStep
  <1> QED
    BY Zenon, <1>1, <1>2, <1>3, <1>4, <1>5 DEF TInv

\* Whoever sends and whatever is lost, the windows keep their types, only the messages
\* a window knows are on their way to it, and one state at most waits for the debounce.
THEOREM TypeCorrect == Spec => []TypeOK
  <1>1. TInv /\ [Next]_vars => TInv'
    BY TypeNext
  <1>2. TInv => TypeOK
    <2> SUFFICES ASSUME TInv PROVE TypeOK
      OBVIOUS
    <2>1. ASSUME NEW S, AtMostOne(S) PROVE Cardinality(S) <= 1
      <3>1. Cardinality(S) \in {0, 1}
        BY <2>1, FS_EmptySet, FS_Singleton DEF AtMostOne
      <3> QED
        BY <3>1
    <2>2. /\ Cardinality(notes.pending) <= 1 /\ Cardinality(notes.currentState) <= 1
          /\ {notes.connected, notes.recent, notes.reached} \subseteq BOOLEAN
          /\ notes.phase \in {"closed", "loading", "open"}
      BY <2>1 DEF TInv, NotesTyped
    <2>3. /\ {current.phase, upcoming.phase} \subseteq {"none", "loading", "started", "ready"}
          /\ {audience.joined, audience.told} \subseteq BOOLEAN
      BY DEF TInv, IframeTyped, AudienceTyped, Phases
    <2>4. /\ \A i \in DOMAIN mail.toNotes : mail.toNotes[i].type \in {"connect", "state"}
          /\ \A i \in DOMAIN mail.toPresenter : mail.toPresenter[i].type \in {"connected", "setState"}
      <3>1. mail.toNotes \in Seq(Connect \cup States) /\ mail.toPresenter \in Seq(Answers \cup SetStates)
        BY MailTypes DEF TInv
      <3>2. /\ \A i \in DOMAIN mail.toNotes : mail.toNotes[i] \in Connect \cup States
            /\ \A i \in DOMAIN mail.toPresenter : mail.toPresenter[i] \in Answers \cup SetStates
        BY <3>1
      <3> QED
        BY <3>2, MessageShape
    <2> QED
      BY Zenon, <2>2, <2>3, <2>4 DEF TypeOK, TInv, PluginTyped, MovesTyped
  <1> QED
    BY <1>1, <1>2, TypeInit, PTL DEF Spec

-----------------------------------------------------------------------------
(* The audience follows *)

\* The last of these moves is where the presentation is.
LastMove(moved) ==
  \E state \in State : moved[Len(moved)] = SlideData(state) /\ Tells(state, presenter, FALSE)

\* Some state tells of the presentation and of the client both.
Together == \E state \in State : Tells(state, presenter, FALSE) /\ Tells(state, audience.deck, FALSE)

\* Who is told last is told where the presentation is: the server, or the client that
\* the server has told, or that has no more to come.
Relayed ==
  IF mail.toServer # <<>> THEN LastMove(mail.toServer)
  ELSE IF mail.toAudience # <<>> THEN LastMove(mail.toAudience)
  ELSE audience.told => Together

Multiplexed ==
  /\ plugin.name # "multiplex" => ~audience.joined /\ mail.toServer = <<>>
  /\ ~audience.joined => mail.toAudience = <<>> /\ ~audience.told

AudienceInv == Multiplexed /\ Relayed

LEMMA AudienceInit == Init => AudienceInv
  <1> SUFFICES ASSUME Init PROVE AudienceInv
    OBVIOUS
  <1>1. mail = [toNotes |-> <<>>, toPresenter |-> <<>>, fromCurrent |-> <<>>, toCurrent |-> <<>>,
                toUpcoming |-> <<>>, toServer |-> <<>>, toAudience |-> <<>>]
    BY Zenon DEF Init
  <1>2. mail.toServer = <<>> /\ mail.toAudience = <<>>
    BY <1>1
  <1> DEFINE deck == NewDeck(Config, Hash("", 0, 0))
  <1>3. audience = [joined |-> FALSE, told |-> FALSE, deck |-> deck]
    BY Zenon DEF Init
  <1> HIDE DEF deck
  <1>4. ~audience.joined /\ ~audience.told
    BY <1>3
  <1> QED
    BY <1>2, <1>4 DEF AudienceInv, Multiplexed, Relayed

\* The presentation takes a new state: its followers hear of it, or need not.
LEMMA RelayPresent ==
  ASSUME TInv, AudienceInv, NEW d, Done(d, Config), Follows(Followed, FALSE, presenter, d),
         NEW m, MailTyped(m), m.toServer = mail.toServer, m.toAudience = mail.toAudience, Present(d, m),
         plugin'.name = plugin.name, audience' = audience
  PROVE  AudienceInv'
  <1> DEFINE s == Heard(d, Followed)
  <1>1. /\ s # <<>> => s[Len(s)].state \in State /\ Tells(s[Len(s)].state, d, FALSE)
        /\ s = <<>> => \A before \in State : Tells(before, presenter, FALSE) => Tells(before, d, FALSE)
    <2>1. Tellable(presenter) /\ Faithful(presenter) /\ presenter.events = <<>> /\ FALSE \in BOOLEAN
      BY PresenterTells
    <2> QED
      BY <2>1, HeardTells
  <1>2. \A state : Tells(state, d, FALSE) => Tells(state, presenter', FALSE)
    <2>1. presenter' = [d EXCEPT !.events = <<>>]
      BY DEF Present
    <2> QED
      BY <2>1, Cleared
  <1>3. /\ mail'.toServer = mail.toServer \o Notify(d) /\ mail'.toAudience = mail.toAudience
        /\ mail.toServer \in Seq(Move)
    <2>1. DOMAIN m = Ways /\ m.toServer \in Seq(Move)
      BY MailTypes
    <2>2. mail'.toServer = m.toServer \o Notify(d) /\ mail'.toAudience = m.toAudience
      BY <2>1 DEF Present, Ways
    <2> QED
      BY <2>1, <2>2
  <1>4. /\ Notify(d) \in Seq(Move) /\ (plugin.name # "multiplex" => Notify(d) = <<>>)
        /\ plugin.name = "multiplex" =>
             IF s = <<>> THEN Notify(d) = <<>>
             ELSE Notify(d) # <<>> /\ Notify(d)[Len(Notify(d))] = SlideData(s[Len(s)].state)
    <2>1. d.events \in Seq(Event)
      BY DEF Done, Faithful
    <2> QED
      BY <2>1, Posted
  <1> HIDE DEF s
  <1>5. CASE Notify(d) = <<>>
    <2>1. mail'.toServer = mail.toServer
      BY <1>3, <1>5
    <2>2. Multiplexed'
      BY <1>3, <2>1 DEF AudienceInv, Multiplexed
    <2>3. CASE plugin.name # "multiplex"
      <3>1. mail'.toServer = <<>> /\ mail'.toAudience = <<>> /\ ~audience'.told
        BY <1>3, <2>1, <2>3 DEF AudienceInv, Multiplexed
      <3> QED
        BY <2>2, <3>1 DEF AudienceInv, Relayed
    <2>4. CASE plugin.name = "multiplex"
      <3>1. \A state \in State : Tells(state, presenter, FALSE) => Tells(state, presenter', FALSE)
        BY <1>1, <1>2, <1>4, <1>5, <2>4
      <3>2. /\ \A moved : LastMove(moved) => LastMove(moved)'
            /\ Together => Together'
        BY <3>1 DEF LastMove, Together
      <3>3. Relayed'
        BY <1>3, <2>1, <3>2 DEF AudienceInv, Relayed
      <3> QED
        BY <2>2, <3>3 DEF AudienceInv
    <2> QED
      BY <2>3, <2>4
  <1>6. CASE Notify(d) # <<>>
    <2>1. /\ plugin.name = "multiplex" /\ s # <<>>
          /\ Notify(d)[Len(Notify(d))] = SlideData(s[Len(s)].state)
      BY <1>4, <1>6
    <2>2. mail'.toServer # <<>> /\ mail'.toServer[Len(mail'.toServer)] = SlideData(s[Len(s)].state)
      BY <1>3, <1>4, <1>6, <2>1, LastOfConcat
    <2>3. Relayed'
      BY <1>1, <1>2, <2>1, <2>2 DEF Relayed, LastMove
    <2>4. Multiplexed'
      BY <1>3, <2>1 DEF AudienceInv, Multiplexed
    <2> QED
      BY <2>3, <2>4 DEF AudienceInv
  <1> QED
    BY <1>5, <1>6

\* A deck that is sent where another one is goes there, and shows the same fragments.
LEMMA MoveArrives ==
  ASSUME NEW p, Sound(p, Config), NEW state \in State, Tells(state, p, FALSE),
         NEW b, Sound(b, Config), NEW h, h = state.indexh, NEW v, v = state.indexv,
         NEW f, f.set, f.to \in Int, state.indexf.set => f.to = state.indexf.to,
         NEW d, d = SlideTo(b, h, v, f)
  PROVE  Done(d, Config) /\ Tells(state, d, FALSE)
  <1>1. /\ Good(b) /\ Faithful(b) /\ b.config = Config /\ Done(b, Config)
        /\ Good(p) /\ p.config = Config
    BY DEF Sound, Done
  <1>2. p.indexh = h /\ p.indexv = v /\ p.cur # None /\ Placed(p) /\ h \in Int /\ v \in Int
    BY <1>1, SteadyShape DEF Tells, Good, State
  <1>3. Situated(h, v) /\ IndexTyped(f)
    BY <1>2 DEF Placed, Situated, IndexTyped
  <1>4. Done(d, Config)
    BY <1>1, <1>2, <1>3, Handled
  <1>5. /\ d.indexh = h /\ d.indexv = v
        /\ b.config.fragments /\ f.set => \A g \in Fragments : g[1] = d.cur => (g \in d.visible <=> Num[g] <= f.to)
    BY <1>1, <1>3, Arrives
  <1>6. d.cur = p.cur
    <2>1. Placed(d) /\ d.cur # None
      BY <1>4, SteadyShape DEF Done, Good
    <2> QED
      BY <1>2, <1>5, <2>1 DEF Placed
  <1>7. ASSUME d.config.fragments, NEW g \in Fragments, g[1] = d.cur
        PROVE  state.indexf.set /\ (g \in d.visible <=> Num[g] <= state.indexf.to)
    <2>1. Config.fragments
      BY <1>4, <1>7 DEF Done
    <2>2. state.indexf.set
      BY <1>1, <1>6, <1>7, <2>1 DEF Tells
    <2> QED
      BY <1>1, <1>5, <1>7, <2>1, <2>2
  <1>8. Tells(state, d, FALSE)
    BY <1>5, <1>7 DEF Tells
  <1> QED
    BY <1>4, <1>8

\* The client goes where the presentation is.
LEMMA AudienceArrives ==
  ASSUME TInv, audience.joined, NEW state \in State, Tells(state, presenter, FALSE),
         NEW m, m = SlideData(state),
         NEW d, d = SlideTo(audience.deck, m.h, m.v, [set |-> TRUE, to |-> m.f])
  PROVE  Done(d, Config) /\ Tells(state, d, FALSE)
  <1> DEFINE f == [set |-> TRUE, to |-> m.f]
  <1>1. m.h = state.indexh /\ m.v = state.indexv /\ (state.indexf.set => m.f = state.indexf.to)
    BY DEF SlideData
  <1>2. m.f \in Int
    <2>1. m \in Move
      BY MessageShape
    <2> QED
      BY <2>1 DEF Move
  <1>3. f.set /\ f.to = m.f
    OBVIOUS
  <1>4. Sound(audience.deck, Config) /\ Sound(presenter, Config)
    BY DEF TInv, AudienceTyped
  <1>5. d = SlideTo(audience.deck, m.h, m.v, f)
    OBVIOUS
  <1> DEFINE b == audience.deck
             h == m.h
             v == m.v
  <1>6. /\ Sound(presenter, Config) /\ Sound(b, Config) /\ h = state.indexh /\ v = state.indexv
        /\ f.set /\ f.to \in Int /\ (state.indexf.set => f.to = state.indexf.to)
        /\ d = SlideTo(b, h, v, f)
    BY <1>1, <1>2, <1>3, <1>4, <1>5
  <1> HIDE DEF f, b, h, v
  <1> QED
    BY <1>6, MoveArrives

\* The presentation's followers are told of every handler that it runs.
LEMMA PresenterFollows ==
  ASSUME TInv, NEW types, NEW all \in BOOLEAN, Watching(types, all)
  PROVE  /\ \A key : LET d == OnDocumentKeyDown(presenter, key)
                     IN Done(d, Config) /\ Follows(types, all, presenter, d)
         /\ \A state \in State : LET d == SetState(presenter, state)
                                 IN Done(d, Config) /\ Follows(types, all, presenter, d)
  <1>1. Good(presenter) /\ Faithful(presenter) /\ Done(presenter, Config)
    BY DEF TInv, Sound, Done
  <1> QED
    BY <1>1, Handled, KeyDownTells, SetTells

LEMMA Watchings == Watching(Followed, FALSE) /\ Watching(Watched, TRUE) /\ Watching(Forwarded, TRUE)
  BY DEF Watching, Followers, Followed, Watched, Forwarded

LEMMA AudienceNext ==
  ASSUME TInv, AudienceInv, [Next]_vars
  PROVE  AudienceInv'
  <1>0. MailTyped(mail) /\ DOMAIN mail = Ways
    BY DEF TInv, MailTyped
  <1>1. ASSUME mail'.toServer = mail.toServer, mail'.toAudience = mail.toAudience,
               presenter' = presenter, audience' = audience, plugin'.name = plugin.name
        PROVE  AudienceInv'
    BY <1>1 DEF AudienceInv, Multiplexed, Relayed, LastMove, Together
  <1>2. ASSUME NEW ways, OnWays(mail, mail', ways), {"toServer", "toAudience"} \cap ways = {}
        PROVE  mail'.toServer = mail.toServer /\ mail'.toAudience = mail.toAudience
    BY <1>2 DEF OnWays, Ways
  <1>3. CASE PresenterReceives
    <2> DEFINE rest == [mail EXCEPT !.toPresenter = Tail(@)]
               state == Head(mail.toPresenter).state
    <2>1. /\ MailTyped(rest) /\ rest.toServer = mail.toServer /\ rest.toAudience = mail.toAudience
          /\ audience' = audience
      <3>1. MailTyped(rest)
        BY <1>0, <1>3, TailTyped DEF PresenterReceives, Ways
      <3> QED
        BY <1>0, <1>3, <3>1 DEF PresenterReceives, Ways
    <2>2. \/ /\ mail' = [rest EXCEPT !.toNotes = Append(@, StateMessage(GetState(presenter)))]
             /\ plugin' = [plugin EXCEPT !.connecting = FALSE, !.listening = TRUE]
             /\ presenter' = presenter
          \/ /\ Head(mail.toPresenter).type = "setState" /\ Present(SetState(presenter, state), rest)
             /\ plugin' = plugin
      BY <1>3 DEF PresenterReceives
    <2>3. Head(mail.toPresenter).type = "setState" => state \in State
      BY <1>3, Arriving DEF PresenterReceives
    <2> HIDE DEF rest, state
    <2>4. CASE /\ mail' = [rest EXCEPT !.toNotes = Append(@, StateMessage(GetState(presenter)))]
               /\ plugin' = [plugin EXCEPT !.connecting = FALSE, !.listening = TRUE]
               /\ presenter' = presenter
      <3>1. plugin'.name = plugin.name
        BY <2>4 DEF TInv, PluginTyped
      <3>2. mail'.toServer = mail.toServer /\ mail'.toAudience = mail.toAudience
        <4>1. DOMAIN rest = Ways
          BY <2>1 DEF MailTyped
        <4> QED
          BY <2>1, <2>4, <4>1 DEF Ways
      <3> QED
        BY <1>1, <2>1, <2>4, <3>1, <3>2
    <2>5. CASE /\ Head(mail.toPresenter).type = "setState" /\ Present(SetState(presenter, state), rest)
               /\ plugin' = plugin
      <3> DEFINE d == SetState(presenter, state)
      <3>1. Done(d, Config) /\ Follows(Followed, FALSE, presenter, d)
        BY <2>3, <2>5, PresenterFollows, Watchings
      <3> HIDE DEF d
      <3> QED
        BY <2>1, <2>5, <3>1, RelayPresent DEF d
    <2> QED
      BY <2>2, <2>4, <2>5
  <1>4. ASSUME NEW key \in Keys, SpeakerKey(key) PROVE AudienceInv'
    <2> DEFINE d == OnDocumentKeyDown(presenter, key)
    <2>1. Done(d, Config) /\ Follows(Followed, FALSE, presenter, d)
      BY PresenterFollows, Watchings
    <2>2. Present(d, mail) /\ plugin' = plugin /\ audience' = audience
      BY <1>4 DEF SpeakerKey
    <2> HIDE DEF d
    <2> QED
      BY <1>0, <2>1, <2>2, RelayPresent
  <1>5. CASE ServerBroadcasts
    <2> DEFINE s == mail.toServer
    <2>1. s \in Seq(Move) /\ s # <<>> /\ mail.toAudience \in Seq(Move)
      BY <1>0, <1>5, MailTypes DEF ServerBroadcasts
    <2>2. /\ presenter' = presenter /\ audience' = audience /\ plugin' = plugin
          /\ mail'.toServer = Tail(s)
          /\ mail'.toAudience = IF audience.joined THEN Append(mail.toAudience, Head(s)) ELSE mail.toAudience
      BY <1>0, <1>5 DEF ServerBroadcasts, Ways
    <2>3. plugin.name = "multiplex" /\ LastMove(s)
      BY <2>1 DEF AudienceInv, Multiplexed, Relayed
    <2> HIDE DEF s
    <2>4. Multiplexed'
      BY <2>2, <2>3 DEF AudienceInv, Multiplexed
    <2>5. \A moved : LastMove(moved) => LastMove(moved)'
      BY <2>2 DEF LastMove
    <2>6. CASE Tail(s) # <<>>
      <3>1. Tail(s)[Len(Tail(s))] = s[Len(s)]
        BY <2>1, <2>6, LastOfTail
      <3>2. LastMove(Tail(s))
        BY <2>3, <3>1 DEF LastMove
      <3>4. Relayed'
        BY <2>2, <2>5, <2>6, <3>2 DEF Relayed
      <3> QED
        BY <2>4, <3>4 DEF AudienceInv
    <2>7. CASE Tail(s) = <<>>
      <3>1. Head(s) = s[Len(s)] /\ Head(s) \in Move
        BY <2>1, <2>7, LastOfTail
      <3>2. CASE audience.joined
        <4> DEFINE a == Append(mail.toAudience, Head(s))
        <4>1. a # <<>> /\ a[Len(a)] = s[Len(s)]
          BY <2>1, <3>1
        <4>2. mail'.toAudience = a /\ mail'.toServer = <<>>
          BY <2>2, <2>7, <3>2
        <4> HIDE DEF a
        <4>3. LastMove(a)
          BY <2>3, <4>1 DEF LastMove
        <4>4. Relayed'
          BY <2>5, <4>1, <4>2, <4>3 DEF Relayed
        <4> QED
          BY <2>4, <4>4 DEF AudienceInv
      <3>3. CASE ~audience.joined
        <4>1. mail'.toAudience = <<>> /\ mail'.toServer = <<>> /\ ~audience'.told
          BY <2>2, <2>7, <3>3 DEF AudienceInv, Multiplexed
        <4>2. Relayed'
          BY <4>1 DEF Relayed
        <4> QED
          BY <2>4, <4>2 DEF AudienceInv
      <3> QED
        BY <3>2, <3>3
    <2> QED
      BY <2>6, <2>7
  <1>6. CASE AudienceReceives
    <2> DEFINE s == mail.toAudience
               m == Head(s)
               d == SlideTo(audience.deck, m.h, m.v, [set |-> TRUE, to |-> m.f])
               c == [d EXCEPT !.events = <<>>]
    <2>1. s \in Seq(Move) /\ s # <<>> /\ audience.joined
      BY <1>0, <1>6, MailTypes DEF AudienceReceives, TInv, Lost
    <2>2. /\ presenter' = presenter /\ plugin' = plugin
          /\ mail'.toServer = mail.toServer /\ mail'.toAudience = Tail(s)
          /\ audience' = [audience EXCEPT !.told = TRUE, !.deck = c]
      BY <1>0, <1>6 DEF AudienceReceives, Ways
    <2>3. \A state \in State :
            m = SlideData(state) /\ Tells(state, presenter, FALSE) => Done(d, Config) /\ Tells(state, d, FALSE)
      BY <2>1, AudienceArrives
    <2> HIDE DEF s, d
    <2>4. audience'.joined = audience.joined /\ audience'.deck = c
      <3> HIDE DEF c
      <3> QED
        BY <2>2 DEF TInv, AudienceTyped
    <2>5. Multiplexed'
      BY <2>1, <2>2, <2>4 DEF AudienceInv, Multiplexed
    <2>6. \A moved : LastMove(moved) => LastMove(moved)'
      BY <2>2 DEF LastMove
    <2>7. CASE mail.toServer # <<>>
      <3>1. LastMove(mail.toServer)
        BY <2>7 DEF AudienceInv, Relayed
      <3>2. Relayed'
        BY <2>2, <2>6, <2>7, <3>1 DEF Relayed
      <3> QED
        BY <2>5, <3>2 DEF AudienceInv
    <2>8. CASE mail.toServer = <<>>
      <3>1. LastMove(s)
        BY <2>1, <2>8 DEF AudienceInv, Relayed, s
      <3>2. CASE Tail(s) # <<>>
        <4>1. Tail(s)[Len(Tail(s))] = s[Len(s)]
          BY <2>1, <3>2, LastOfTail
        <4>2. LastMove(Tail(s))
          BY <3>1, <4>1 DEF LastMove
        <4>3. Relayed'
          BY <2>2, <2>6, <2>8, <3>2, <4>2 DEF Relayed
        <4> QED
          BY <2>5, <4>3 DEF AudienceInv
      <3>3. CASE Tail(s) = <<>>
        <4>1. PICK state \in State : m = SlideData(state) /\ Tells(state, presenter, FALSE)
          BY <2>1, <3>1, <3>3, LastOfTail DEF LastMove
        <4>2. Done(d, Config) /\ Tells(state, d, FALSE)
          BY <2>3, <4>1
        <4>3. Tells(state, c, FALSE)
          BY <4>2, Cleared
        <4>4. Together'
          BY <2>2, <2>4, <4>1, <4>3 DEF Together
        <4>5. Relayed'
          BY <2>2, <2>8, <3>3, <4>4 DEF Relayed
        <4> QED
          BY <2>5, <4>5 DEF AudienceInv
      <3> QED
        BY <3>2, <3>3
    <2> QED
      BY <2>7, <2>8
  <1>7. CASE AudienceJoins
    <2> DEFINE c == [Start(audience.deck) EXCEPT !.events = <<>>]
    <2>1. /\ audience' = [audience EXCEPT !.joined = TRUE, !.deck = c]
          /\ mail' = mail /\ plugin' = plugin /\ presenter' = presenter
          /\ plugin.name = "multiplex" /\ ~audience.joined
      BY <1>7 DEF AudienceJoins
    <2> HIDE DEF c
    <2>2. audience'.joined = TRUE /\ audience'.told = audience.told
      BY <2>1 DEF TInv, AudienceTyped
    <2>3. ~audience.told /\ mail.toAudience = <<>>
      BY <2>1 DEF AudienceInv, Multiplexed
    <2>4. \A moved : LastMove(moved) => LastMove(moved)'
      BY <2>1 DEF LastMove
    <2>5. Relayed'
      BY <2>1, <2>2, <2>3, <2>4 DEF AudienceInv, Relayed
    <2>6. Multiplexed'
      BY <2>1, <2>2 DEF Multiplexed
    <2> QED
      BY <2>5, <2>6 DEF AudienceInv
  <1>8. CASE OpenNotes
    <2>1. plugin' = [plugin EXCEPT !.connecting = TRUE] /\ mail' = mail /\ presenter' = presenter /\ audience' = audience
      BY <1>8 DEF OpenNotes
    <2>2. plugin'.name = plugin.name
      BY <2>1 DEF TInv, PluginTyped
    <2> QED
      BY <1>1, <2>1, <2>2
  <1>9. CASE ConnectInterval \/ HandleConnectMessage \/ HandleStateMessage \/ DebounceTimeout \/ HandleRevealEvent
    <2>1. presenter' = presenter /\ audience' = audience /\ plugin' = plugin
      BY <1>9 DEF ConnectInterval, HandleConnectMessage, HandleStateMessage, DebounceTimeout, HandleRevealEvent
    <2>2. \E ways : OnWays(mail, mail', ways) /\ {"toServer", "toAudience"} \cap ways = {}
      <3>1. /\ {"toServer", "toAudience"} \cap {"toNotes"} = {}
            /\ {"toServer", "toAudience"} \cap {"toNotes", "toCurrent", "toUpcoming"} = {}
            /\ {"toServer", "toAudience"} \cap {"toCurrent", "toUpcoming"} = {}
            /\ {"toServer", "toAudience"} \cap {"fromCurrent", "toPresenter"} = {}
        OBVIOUS
      <3> QED
        BY <1>0, <1>9, <3>1, StepWays
    <2> QED
      BY <1>1, <1>2, <2>1, <2>2
  <1>10. CASE CurrentLoad \/ CurrentReady \/ CurrentReceives \/ UpcomingReceives
    <2>1. presenter' = presenter /\ audience' = audience /\ plugin' = plugin
      BY <1>10 DEF CurrentLoad, CurrentReady, CurrentReceives, UpcomingReceives, Show1
    <2>2. \E ways : OnWays(mail, mail', ways) /\ {"toServer", "toAudience"} \cap ways = {}
      <3>1. /\ {"toServer", "toAudience"} \cap {"fromCurrent"} = {}
            /\ {"toServer", "toAudience"} \cap {"fromCurrent", "toCurrent"} = {}
            /\ {"toServer", "toAudience"} \cap {"toUpcoming"} = {}
        OBVIOUS
      <3> QED
        BY <1>0, <1>10, <3>1, StepWays
    <2> QED
      BY <1>1, <1>2, <2>1, <2>2
  <1>11. ASSUME NEW key \in Keys, NotesKey(key) PROVE AudienceInv'
    <2>1. presenter' = presenter /\ audience' = audience /\ plugin' = plugin
      BY <1>11 DEF NotesKey
    <2>2. OnWays(mail, mail', {"toCurrent"})
      BY <1>0, <1>11, StepWays
    <2>3. {"toServer", "toAudience"} \cap {"toCurrent"} = {}
      OBVIOUS
    <2> QED
      BY <1>1, <1>2, <2>1, <2>2, <2>3
  <1>12. CASE NotesLoad \/ UpcomingLoad \/ UNCHANGED vars
    <2>1. presenter' = presenter /\ audience' = audience /\ plugin' = plugin /\ mail' = mail
      BY <1>12 DEF NotesLoad, UpcomingLoad, vars
    <2> QED
      BY <1>1, <2>1
  <1> QED
    BY <1>3, <1>4, <1>5, <1>6, <1>7, <1>8, <1>9, <1>10, <1>11, <1>12 DEF Next, Machine

\* A client of the multiplex that was told of a move and has no more to come is on the
\* slide of the presentation with the same fragments shown, whatever the deck, the keys
\* and the time at which the client joined.
THEOREM AudienceCatchesUp == Spec => []AudienceFollows
  <1>1. TInv /\ AudienceInv /\ [Next]_vars => TInv' /\ AudienceInv'
    BY TypeNext, AudienceNext
  <1>2. TInv /\ AudienceInv => AudienceFollows
    <2> SUFFICES ASSUME TInv, AudienceInv, audience.told, Delivered
                 PROVE  audience.deck.cur = presenter.cur /\ audience.deck.visible = presenter.visible
      BY DEF AudienceFollows
    <2> DEFINE d == audience.deck
    <2>1. mail.toServer = <<>> /\ mail.toAudience = <<>>
      BY DEF Delivered, TInv, MailTyped, Ways
    <2>2. audience.joined /\ Together
      BY <2>1 DEF AudienceInv, Multiplexed, Relayed
    <2>3. /\ Good(d) /\ Faithful(d) /\ d.config = Config
          /\ Good(presenter) /\ Faithful(presenter) /\ presenter.config = Config
          /\ Config.fragments \in BOOLEAN
      BY <2>2, Configured DEF TInv, AudienceTyped, Sound, Done, ConfigType
    <2>4. PICK state \in State : Tells(state, presenter, FALSE) /\ Tells(state, d, FALSE)
      BY <2>2 DEF Together
    <2> HIDE DEF d
    <2>5. d.cur = presenter.cur /\ d.visible = presenter.visible
      BY <2>3, <2>4, SameTold
    <2> QED
      BY <2>5 DEF d
  <1> QED
    BY <1>1, <1>2, TypeInit, AudienceInit, PTL DEF Spec

-----------------------------------------------------------------------------
(* The notes window knows the state of the presentation *)

\* Before the notes window is opened there is nobody to write to it or for it.
Closed ==
  /\ notes.phase = "closed" =>
       /\ ~notes.connected /\ ~plugin.connecting /\ ~plugin.listening
       /\ mail.toPresenter = <<>> /\ mail.fromCurrent = <<>> /\ mail.toNotes = <<>>
  /\ plugin.listening => ~plugin.connecting

\* The last of these messages has the state of the presentation.
LastState(posted) ==
  posted[Len(posted)].type = "state" /\ Tells(posted[Len(posted)].state, presenter, TRUE)

Knows(states) == states # {} /\ \A state \in states : Tells(state, presenter, TRUE)

\* The state that the notes window will apply last, or has, is that of the presentation.
Informed ==
  plugin.listening =>
    IF mail.toNotes # <<>> THEN LastState(mail.toNotes)
    ELSE IF notes.pending # {} THEN Knows(notes.pending) ELSE Knows(notes.currentState)

NotesInv == Closed /\ Informed

LEMMA NotesInit == Init => NotesInv
  <1> SUFFICES ASSUME Init PROVE NotesInv
    OBVIOUS
  <1>1. mail = [toNotes |-> <<>>, toPresenter |-> <<>>, fromCurrent |-> <<>>, toCurrent |-> <<>>,
                toUpcoming |-> <<>>, toServer |-> <<>>, toAudience |-> <<>>]
    BY Zenon DEF Init
  <1>2. mail.toNotes = <<>> /\ mail.toPresenter = <<>> /\ mail.fromCurrent = <<>>
    BY <1>1
  <1>3. ~notes.connected
    <2>1. notes = [phase |-> "closed", connected |-> FALSE, currentState |-> {},
                   pending |-> {}, recent |-> FALSE, reached |-> FALSE]
      BY Zenon DEF Init
    <2> QED
      BY <2>1
  <1>4. ~plugin.connecting /\ ~plugin.listening
    <2>1. PICK name \in Plugins : plugin = [name |-> name, connecting |-> FALSE, listening |-> FALSE]
      BY Zenon DEF Init
    <2> QED
      BY <2>1
  <1> QED
    BY <1>2, <1>3, <1>4 DEF NotesInv, Closed, Informed

\* What the presentation does to the mail of the notes window and to the plugin
LEMMA Presented ==
  ASSUME TInv, NEW d, Done(d, Config), NEW m, MailTyped(m), Present(d, m)
  PROVE  /\ mail'.toNotes = m.toNotes \o Post(d) /\ mail'.toPresenter = m.toPresenter
         /\ mail'.fromCurrent = m.fromCurrent
         /\ m.toNotes \in Seq(Connect \cup States) /\ Post(d) \in Seq(Connect \cup States)
         /\ Post(d) = <<>> => mail'.toNotes = m.toNotes
         /\ ~plugin.listening => Post(d) = <<>>
         /\ \A state, all : Tells(state, d, all) => Tells(state, presenter', all)
  <1>1. DOMAIN m = Ways /\ m.toNotes \in Seq(Connect \cup States)
    BY MailTypes
  <1>2. /\ mail'.toNotes = m.toNotes \o Post(d) /\ mail'.toPresenter = m.toPresenter
        /\ mail'.fromCurrent = m.fromCurrent
    BY <1>1 DEF Present, Ways
  <1>3. d.events \in Seq(Event)
    BY DEF Done, Faithful
  <1>4. Post(d) \in Seq(Connect \cup States) /\ (~plugin.listening => Post(d) = <<>>)
    BY <1>3, Posted
  <1>5. presenter' = [d EXCEPT !.events = <<>>]
    BY DEF Present
  <1>6. \A state, all : Tells(state, d, all) => Tells(state, presenter', all)
    BY <1>5, Cleared
  <1>7. Post(d) = <<>> => mail'.toNotes = m.toNotes
    BY <1>1, <1>2, <1>4, LastOfConcat
  <1> QED
    BY <1>1, <1>2, <1>4, <1>6, <1>7

LEMMA ClosedStep ==
  ASSUME TInv, Closed, [Next]_vars
  PROVE  Closed'
  <1>0. MailTyped(mail) /\ DOMAIN mail = Ways /\ SetUpInv
    BY DEF TInv, MailTyped
  <1>1. ASSUME UNCHANGED <<plugin, notes>>, mail'.toPresenter = mail.toPresenter,
               mail'.fromCurrent = mail.fromCurrent, mail'.toNotes = mail.toNotes
        PROVE  Closed'
    BY <1>1 DEF Closed
  <1>2. notes.phase = "closed" => current.phase = "none" /\ upcoming.phase = "none" /\ ~Loaded(current)
    BY <1>0 DEF Closed, SetUpInv, Loaded
  <1>3. ASSUME notes.phase # "closed", notes'.phase = notes.phase, UNCHANGED plugin PROVE Closed'
    BY <1>3 DEF Closed
  <1>4. ASSUME NEW d, Done(d, Config), NEW m, MailTyped(m), m.toNotes = mail.toNotes,
               m.fromCurrent = mail.fromCurrent, Present(d, m), UNCHANGED <<plugin, notes>>,
               m.toPresenter = mail.toPresenter \/ mail.toPresenter # <<>>
        PROVE  Closed'
    <2>1. /\ mail'.fromCurrent = mail.fromCurrent /\ mail'.toPresenter = m.toPresenter
          /\ ~plugin.listening => mail'.toNotes = mail.toNotes
      BY <1>4, Presented
    <2> QED
      BY <1>4, <2>1 DEF Closed
  <1>5. CASE PresenterReceives
    <2>1. notes.phase # "closed" /\ notes' = notes
      BY <1>5 DEF PresenterReceives, Closed
    <2>2. \/ plugin' = [plugin EXCEPT !.connecting = FALSE, !.listening = TRUE]
          \/ plugin' = plugin
      BY <1>5 DEF PresenterReceives
    <2>3. CASE plugin' = [plugin EXCEPT !.connecting = FALSE, !.listening = TRUE]
      <3>1. ~plugin'.connecting
        BY <2>3 DEF TInv, PluginTyped
      <3> QED
        BY <2>1, <3>1 DEF Closed
    <2> QED
      BY <1>3, <2>1, <2>2, <2>3
  <1>6. ASSUME NEW key \in Keys, SpeakerKey(key) PROVE Closed'
    <2> DEFINE d == OnDocumentKeyDown(presenter, key)
    <2>1. Done(d, Config)
      BY PresenterFollows, Watchings
    <2>2. Present(d, mail) /\ UNCHANGED <<plugin, notes>>
      BY <1>6 DEF SpeakerKey
    <2> HIDE DEF d
    <2> QED
      BY <1>0, <1>4, <2>1, <2>2
  <1>7. CASE OpenNotes
    <2>1. /\ plugin' = [plugin EXCEPT !.connecting = TRUE] /\ notes' = [notes EXCEPT !.phase = "loading"]
          /\ notes.phase = "closed"
      BY <1>7 DEF OpenNotes
    <2>2. notes'.phase = "loading" /\ plugin'.listening = plugin.listening
      BY <1>0, <2>1 DEF SetUpInv, TInv, PluginTyped
    <2> QED
      BY <2>1, <2>2 DEF Closed
  <1>8. CASE NotesLoad
    <2>1. notes'.phase = "open" /\ plugin' = plugin
      BY <1>0, <1>8 DEF NotesLoad, SetUpInv
    <2> QED
      BY <2>1 DEF Closed
  <1>9. CASE ConnectInterval \/ HandleConnectMessage \/ HandleStateMessage
    <2>1. notes.phase # "closed" /\ plugin' = plugin
      BY <1>9 DEF ConnectInterval, HandleConnectMessage, HandleStateMessage, Closed
    <2>2. notes'.phase = notes.phase
      <3>1. CASE ConnectInterval
        BY <3>1 DEF ConnectInterval
      <3>2. CASE HandleConnectMessage
        <4>1. notes' = notes \/ notes' = [notes EXCEPT !.connected = TRUE]
          BY <3>2 DEF HandleConnectMessage
        <4> QED
          BY <1>0, <4>1 DEF SetUpInv
      <3>3. CASE HandleStateMessage
        <4>1. \/ \E s : notes' = [notes EXCEPT !.pending = {s}]
              \/ \E s, m : ApplyStateMessage(s, m)
          BY <3>3 DEF HandleStateMessage
        <4>2. ASSUME NEW s, NEW m, ApplyStateMessage(s, m) PROVE notes'.phase = notes.phase
          BY <1>0, <4>2 DEF ApplyStateMessage, SetUpInv
        <4> QED
          BY <1>0, <4>1, <4>2 DEF SetUpInv
      <3> QED
        BY <1>9, <3>1, <3>2, <3>3
    <2> QED
      BY <1>3, <2>1, <2>2
  <1>10. CASE DebounceTimeout
    <2>1. /\ notes'.phase = notes.phase /\ notes'.connected = notes.connected
          /\ plugin' = plugin
      <3>1. CASE notes.pending = {}
        BY <1>0, <1>10, <3>1 DEF DebounceTimeout, SetUpInv
      <3>2. CASE notes.pending # {}
        BY <1>0, <1>10, <3>2 DEF DebounceTimeout, SetUpInv, ApplyStateMessage
      <3> QED
        BY <3>1, <3>2
    <2>2. OnWays(mail, mail', {"toCurrent", "toUpcoming"})
      BY <1>0, <1>10, StepWays
    <2>3. /\ mail'.toPresenter = mail.toPresenter /\ mail'.fromCurrent = mail.fromCurrent
          /\ mail'.toNotes = mail.toNotes
      BY <2>2 DEF OnWays, Ways
    <2> QED
      BY <2>1, <2>3 DEF Closed
  <1>11. CASE HandleRevealEvent \/ CurrentLoad \/ CurrentReady \/ CurrentReceives
    <2>1. notes.phase # "closed"
      <3>1. HandleRevealEvent => notes.phase # "closed"
        BY DEF HandleRevealEvent, Closed
      <3>2. CurrentLoad \/ CurrentReady => notes.phase # "closed"
        BY <1>2 DEF CurrentLoad, CurrentReady
      <3>3. CurrentReceives => notes.phase # "closed"
        BY <1>2 DEF CurrentReceives, TInv, Lost
      <3> QED
        BY <1>11, <3>1, <3>2, <3>3
    <2>2. UNCHANGED <<plugin, notes>>
      BY <1>11 DEF HandleRevealEvent, CurrentLoad, CurrentReady, CurrentReceives, Show1
    <2> QED
      BY <1>3, <2>1, <2>2
  <1>12. CASE UpcomingReceives \/ ServerBroadcasts \/ AudienceReceives
    <2>1. UNCHANGED <<plugin, notes>>
      BY <1>12 DEF UpcomingReceives, ServerBroadcasts, AudienceReceives
    <2>2. \/ OnWays(mail, mail', {"toUpcoming"})
          \/ OnWays(mail, mail', {"toServer", "toAudience"})
          \/ OnWays(mail, mail', {"toAudience"})
      BY <1>0, <1>12, StepWays
    <2>3. /\ mail'.toPresenter = mail.toPresenter /\ mail'.fromCurrent = mail.fromCurrent
          /\ mail'.toNotes = mail.toNotes
      BY <2>2 DEF OnWays, Ways
    <2> QED
      BY <1>1, <2>1, <2>3
  <1>13. ASSUME NEW key \in Keys, NotesKey(key) PROVE Closed'
    <2>1. UNCHANGED <<plugin, notes>> /\ OnWays(mail, mail', {"toCurrent"})
      BY <1>0, <1>13, StepWays DEF NotesKey
    <2>2. /\ mail'.toPresenter = mail.toPresenter /\ mail'.fromCurrent = mail.fromCurrent
          /\ mail'.toNotes = mail.toNotes
      BY <2>1 DEF OnWays, Ways
    <2> QED
      BY <1>1, <2>1, <2>2
  <1>14. CASE AudienceJoins \/ UpcomingLoad \/ UNCHANGED vars
    <2>1. UNCHANGED <<plugin, notes, mail>>
      BY <1>14 DEF AudienceJoins, UpcomingLoad, vars
    <2> QED
      BY <1>1, <2>1
  <1> QED
    BY <1>5, <1>6, <1>7, <1>8, <1>9, <1>10, <1>11, <1>12, <1>13, <1>14 DEF Next, Machine

LEMMA InformedPresent ==
  ASSUME TInv, Informed, NEW d, Done(d, Config), Follows(Watched, TRUE, presenter, d),
         NEW m, MailTyped(m), m.toNotes = mail.toNotes, Present(d, m), plugin' = plugin, notes' = notes
  PROVE  Informed'
  <1> DEFINE s == Heard(d, Watched)
  <1>1. /\ s # <<>> => s[Len(s)].state \in State /\ Tells(s[Len(s)].state, d, TRUE)
        /\ s = <<>> => \A before \in State : Tells(before, presenter, TRUE) => Tells(before, d, TRUE)
    <2>1. Tellable(presenter) /\ Faithful(presenter) /\ presenter.events = <<>> /\ TRUE \in BOOLEAN
      BY PresenterTells
    <2> QED
      BY <2>1, HeardTells
  <1>2. /\ mail'.toNotes = mail.toNotes \o Post(d)
        /\ mail.toNotes \in Seq(Connect \cup States) /\ Post(d) \in Seq(Connect \cup States)
        /\ Post(d) = <<>> => mail'.toNotes = mail.toNotes
        /\ \A state, all : Tells(state, d, all) => Tells(state, presenter', all)
    BY Presented
  <1>3. plugin.listening =>
          IF s = <<>> THEN Post(d) = <<>>
          ELSE Post(d) # <<>> /\ Post(d)[Len(Post(d))] = StateMessage(s[Len(s)].state)
    <2>1. d.events \in Seq(Event)
      BY DEF Done, Faithful
    <2> QED
      BY <2>1, Posted
  <1> HIDE DEF s
  <1>4. CASE s = <<>> /\ plugin.listening
    <2>1. mail'.toNotes = mail.toNotes
      BY <1>2, <1>3, <1>4
    <2>2. \A state \in State : Tells(state, presenter, TRUE) => Tells(state, presenter', TRUE)
      BY <1>1, <1>2, <1>4
    <2>3. /\ notes.pending \subseteq State /\ notes.currentState \subseteq State
          /\ mail.toNotes # <<>> => mail.toNotes[Len(mail.toNotes)].state \in State
      <3>1. mail.toNotes # <<>> => mail.toNotes[Len(mail.toNotes)] \in Connect \cup States
        BY <1>2, LastOfTail
      <3> QED
        BY <3>1, MessageShape DEF TInv, NotesTyped
    <2>4. /\ mail.toNotes # <<>> /\ LastState(mail.toNotes) => LastState(mail.toNotes)'
          /\ Knows(notes.pending) => Knows(notes.pending)'
          /\ Knows(notes.currentState) => Knows(notes.currentState)'
      BY <2>1, <2>2, <2>3 DEF LastState, Knows
    <2> QED
      BY <2>1, <2>4 DEF Informed
  <1>5. CASE s # <<>> /\ plugin.listening
    <2>1. /\ mail'.toNotes # <<>>
          /\ mail'.toNotes[Len(mail'.toNotes)] = StateMessage(s[Len(s)].state)
      BY <1>2, <1>3, <1>5, LastOfConcat
    <2>2. /\ StateMessage(s[Len(s)].state).type = "state"
          /\ StateMessage(s[Len(s)].state).state = s[Len(s)].state
      BY <1>1, <1>5, MessageShape
    <2>4. Tells(s[Len(s)].state, presenter', TRUE)
      BY <1>1, <1>2, <1>5
    <2> QED
      BY <2>1, <2>2, <2>4 DEF Informed, LastState
  <1> QED
    BY <1>4, <1>5 DEF Informed

\* The notes window takes a message that is not the last one.
LEMMA InformedTail ==
  ASSUME TInv, Informed, plugin.listening, mail.toNotes # <<>>, Tail(mail.toNotes) # <<>>,
         mail'.toNotes = Tail(mail.toNotes), presenter' = presenter
  PROVE  Informed'
  <1> DEFINE s == mail.toNotes
  <1>1. s \in Seq(Connect \cup States)
    BY MailTypes DEF TInv
  <1>2. Tail(s)[Len(Tail(s))] = s[Len(s)]
    BY <1>1, LastOfTail
  <1>3. s[Len(s)].type = "state" /\ Tells(s[Len(s)].state, presenter, TRUE)
    BY DEF Informed, LastState
  <1> HIDE DEF s
  <1>4. mail'.toNotes = Tail(s) /\ Tail(s) # <<>>
    BY DEF s
  <1> QED
    BY <1>2, <1>3, <1>4 DEF Informed, LastState

LEMMA InformedStep ==
  ASSUME TInv, Closed, Informed, [Next]_vars
  PROVE  Informed'
  <1>0. MailTyped(mail) /\ DOMAIN mail = Ways /\ SetUpInv
    BY DEF TInv, MailTyped
  <1>1. ASSUME presenter' = presenter, plugin'.listening = plugin.listening, mail'.toNotes = mail.toNotes,
               notes'.pending = notes.pending, notes'.currentState = notes.currentState
        PROVE  Informed'
    BY <1>1 DEF Informed, LastState, Knows
  <1>2. ASSUME NEW ways, OnWays(mail, mail', ways), "toNotes" \notin ways
        PROVE  mail'.toNotes = mail.toNotes
    BY <1>2 DEF OnWays, Ways
  <1>3. ASSUME ~plugin'.listening PROVE Informed'
    BY <1>3 DEF Informed
  <1>4. mail.toNotes # <<>> /\ Tail(mail.toNotes) = <<>> =>
          Head(mail.toNotes) = mail.toNotes[Len(mail.toNotes)]
    <2>1. mail.toNotes \in Seq(Connect \cup States)
      BY <1>0, MailTypes
    <2> QED
      BY <2>1, LastOfTail
  <1>5. ASSUME NEW s \in State, NEW m, MailTyped(m), ApplyStateMessage(s, m), m.toNotes = <<>>,
               Tells(s, presenter, TRUE), presenter' = presenter
        PROVE  Informed'
    <2>1. /\ notes'.currentState = {s} /\ notes'.pending = {}
          /\ OnWays(m, mail', {"toCurrent", "toUpcoming"})
      BY <1>0, <1>5, Applied
    <2>2. mail'.toNotes = <<>>
      BY <1>5, <2>1 DEF OnWays, Ways
    <2> QED
      BY <1>5, <2>1, <2>2 DEF Informed, Knows
  <1>6. CASE HandleStateMessage
    <2> DEFINE rest == [mail EXCEPT !.toNotes = Tail(@)]
               s == Head(mail.toNotes).state
    <2>1. /\ MailTyped(rest) /\ rest.toNotes = Tail(mail.toNotes) /\ s \in State
          /\ presenter' = presenter /\ plugin' = plugin /\ mail.toNotes # <<>>
      <3>1. MailTyped(rest) /\ s \in State
        BY <1>0, <1>6, TailTyped, Arriving DEF HandleStateMessage, Ways
      <3> QED
        BY <1>0, <1>6, <3>1 DEF HandleStateMessage, Ways
    <2>2. IF notes.recent THEN notes' = [notes EXCEPT !.pending = {s}] /\ mail' = rest
          ELSE ApplyStateMessage(s, rest)
      BY <1>6 DEF HandleStateMessage
    <2>3. plugin.listening /\ Tail(mail.toNotes) = <<>> => Tells(s, presenter, TRUE)
      BY <1>4, <2>1 DEF Informed, LastState
    <2> HIDE DEF rest, s
    <2>4. mail'.toNotes = Tail(mail.toNotes)
      <3>1. ~notes.recent => OnWays(rest, mail', {"toCurrent", "toUpcoming"})
        BY <1>0, <2>1, <2>2, Applied
      <3> QED
        BY <2>1, <2>2, <3>1 DEF OnWays, Ways
    <2>5. CASE plugin.listening /\ Tail(mail.toNotes) # <<>>
      BY <2>1, <2>4, <2>5, InformedTail
    <2>6. CASE plugin.listening /\ Tail(mail.toNotes) = <<>> /\ notes.recent
      <3>1. notes'.pending = {s}
        BY <1>0, <2>2, <2>6 DEF SetUpInv
      <3> QED
        BY <2>1, <2>3, <2>4, <2>6, <3>1 DEF Informed, Knows
    <2>7. CASE plugin.listening /\ Tail(mail.toNotes) = <<>> /\ ~notes.recent
      BY <1>5, <2>1, <2>2, <2>3, <2>7
    <2> QED
      BY <1>3, <2>1, <2>5, <2>6, <2>7
  <1>7. CASE DebounceTimeout
    <2>1. presenter' = presenter /\ plugin' = plugin
      BY <1>7 DEF DebounceTimeout
    <2>4. CASE mail.toNotes # <<>>
      <3>1. mail'.toNotes = mail.toNotes
        BY <1>0, <1>2, <1>7, StepWays
      <3> QED
        BY <2>1, <2>4, <3>1 DEF Informed, LastState
    <2>2. CASE notes.pending = {}
      <3>1. notes' = [notes EXCEPT !.recent = FALSE] /\ mail' = mail
        BY <1>7, <2>2 DEF DebounceTimeout
      <3>2. notes'.pending = notes.pending /\ notes'.currentState = notes.currentState
        BY <1>0, <3>1 DEF SetUpInv
      <3> QED
        BY <1>1, <2>1, <3>1, <3>2
    <2>3. CASE mail.toNotes = <<>> /\ notes.pending # {} /\ plugin.listening
      <3>1. PICK s \in notes.pending : ApplyStateMessage(s, mail)
        BY <1>7, <2>3 DEF DebounceTimeout
      <3>2. s \in State /\ Tells(s, presenter, TRUE)
        BY <2>1, <2>3, <3>1 DEF TInv, NotesTyped, Informed, Knows
      <3> QED
        BY <1>0, <1>5, <2>1, <2>3, <3>1, <3>2
    <2> QED
      BY <1>3, <2>1, <2>2, <2>3, <2>4
  <1>8. CASE HandleConnectMessage
    <2>1. /\ presenter' = presenter /\ plugin' = plugin /\ mail.toNotes # <<>>
          /\ Head(mail.toNotes).type = "connect" /\ mail'.toNotes = Tail(mail.toNotes)
      BY <1>0, <1>8 DEF HandleConnectMessage, Ways
    <2>2. plugin.listening => Tail(mail.toNotes) # <<>>
      BY <1>4, <2>1 DEF Informed, LastState
    <2> QED
      BY <1>3, <2>1, <2>2, InformedTail
  <1>9. CASE PresenterReceives
    <2> DEFINE rest == [mail EXCEPT !.toPresenter = Tail(@)]
               state == Head(mail.toPresenter).state
    <2>1. MailTyped(rest) /\ rest.toNotes = mail.toNotes /\ notes' = notes
      <3>1. MailTyped(rest)
        BY <1>0, <1>9, TailTyped DEF PresenterReceives, Ways
      <3> QED
        BY <1>0, <1>9, <3>1 DEF PresenterReceives, Ways
    <2>2. \/ /\ mail' = [rest EXCEPT !.toNotes = Append(@, StateMessage(GetState(presenter)))]
             /\ presenter' = presenter
          \/ /\ Head(mail.toPresenter).type = "setState" /\ Present(SetState(presenter, state), rest)
             /\ plugin' = plugin
      BY <1>9 DEF PresenterReceives
    <2>3. Head(mail.toPresenter).type = "setState" => state \in State
      BY <1>9, Arriving DEF PresenterReceives
    <2> HIDE DEF rest, state
    <2>4. CASE /\ mail' = [rest EXCEPT !.toNotes = Append(@, StateMessage(GetState(presenter)))]
               /\ presenter' = presenter
      <3> DEFINE now == GetState(presenter)
      <3>1. now \in State /\ Tells(now, presenter, TRUE)
        BY PresenterTells
      <3> HIDE DEF now
      <3>2. DOMAIN rest = Ways /\ rest.toNotes \in Seq(Connect \cup States)
        BY <2>1, MailTypes
      <3>3. mail'.toNotes = Append(rest.toNotes, StateMessage(now))
        BY <2>4, <3>2 DEF now, Ways
      <3>4. /\ StateMessage(now) \in States /\ StateMessage(now).type = "state"
            /\ StateMessage(now).state = now
        BY <3>1, MessageShape
      <3>5. mail'.toNotes # <<>> /\ mail'.toNotes[Len(mail'.toNotes)] = StateMessage(now)
        BY <3>2, <3>3, <3>4
      <3> QED
        BY <2>4, <3>1, <3>4, <3>5 DEF Informed, LastState
    <2>5. CASE /\ Head(mail.toPresenter).type = "setState" /\ Present(SetState(presenter, state), rest)
               /\ plugin' = plugin
      <3> DEFINE d == SetState(presenter, state)
      <3>1. Done(d, Config) /\ Follows(Watched, TRUE, presenter, d)
        BY <2>3, <2>5, PresenterFollows, Watchings
      <3>2. Present(d, rest) /\ plugin' = plugin
        BY <2>5
      <3> HIDE DEF d
      <3> QED
        BY <2>1, <3>1, <3>2, InformedPresent
    <2> QED
      BY <2>2, <2>4, <2>5
  <1>10. ASSUME NEW key \in Keys, SpeakerKey(key) PROVE Informed'
    <2> DEFINE d == OnDocumentKeyDown(presenter, key)
    <2>1. Done(d, Config) /\ Follows(Watched, TRUE, presenter, d)
      BY PresenterFollows, Watchings
    <2>2. Present(d, mail) /\ plugin' = plugin /\ notes' = notes
      BY <1>10 DEF SpeakerKey
    <2> HIDE DEF d
    <2> QED
      BY <1>0, <2>1, <2>2, InformedPresent
  <1>11. CASE ConnectInterval \/ OpenNotes
    <2>1. ~plugin.listening
      BY <1>11 DEF ConnectInterval, OpenNotes, Closed
    <2>2. plugin'.listening = plugin.listening
      <3>1. plugin' = plugin \/ plugin' = [plugin EXCEPT !.connecting = TRUE]
        BY <1>11 DEF ConnectInterval, OpenNotes
      <3> QED
        BY <3>1 DEF TInv, PluginTyped
    <2> QED
      BY <1>3, <2>1, <2>2
  <1>12. CASE NotesLoad
    <2>1. presenter' = presenter /\ plugin' = plugin /\ mail' = mail /\ notes' = [notes EXCEPT !.phase = "open"]
      BY <1>12 DEF NotesLoad
    <2>2. notes'.pending = notes.pending /\ notes'.currentState = notes.currentState
      BY <1>0, <2>1 DEF SetUpInv
    <2> QED
      BY <1>1, <2>1, <2>2
  <1>13. CASE HandleRevealEvent \/ ServerBroadcasts \/ AudienceReceives \/ UpcomingReceives
    <2>1. presenter' = presenter /\ plugin' = plugin /\ notes' = notes
      BY <1>13 DEF HandleRevealEvent, ServerBroadcasts, AudienceReceives, UpcomingReceives
    <2>2. \E ways : OnWays(mail, mail', ways) /\ "toNotes" \notin ways
      <3>1. /\ "toNotes" \notin {"fromCurrent", "toPresenter"} /\ "toNotes" \notin {"toServer", "toAudience"}
            /\ "toNotes" \notin {"toAudience"} /\ "toNotes" \notin {"toUpcoming"}
        OBVIOUS
      <3> QED
        BY <1>0, <1>13, <3>1, StepWays
    <2> QED
      BY <1>1, <1>2, <2>1, <2>2
  <1>14. CASE CurrentLoad \/ CurrentReady \/ CurrentReceives
    <2>1. presenter' = presenter /\ plugin' = plugin /\ notes' = notes
      BY <1>14 DEF CurrentLoad, CurrentReady, CurrentReceives, Show1
    <2>2. \E ways : OnWays(mail, mail', ways) /\ "toNotes" \notin ways
      <3>1. "toNotes" \notin {"fromCurrent"} /\ "toNotes" \notin {"fromCurrent", "toCurrent"}
        OBVIOUS
      <3> QED
        BY <1>0, <1>14, <3>1, StepWays
    <2> QED
      BY <1>1, <1>2, <2>1, <2>2
  <1>15. ASSUME NEW key \in Keys, NotesKey(key) PROVE Informed'
    <2>1. presenter' = presenter /\ plugin' = plugin /\ notes' = notes
      BY <1>15 DEF NotesKey
    <2>2. OnWays(mail, mail', {"toCurrent"}) /\ "toNotes" \notin {"toCurrent"}
      BY <1>0, <1>15, StepWays
    <2> QED
      BY <1>1, <1>2, <2>1, <2>2
  <1>16. CASE AudienceJoins \/ UpcomingLoad \/ UNCHANGED vars
    <2>1. presenter' = presenter /\ plugin' = plugin /\ notes' = notes /\ mail' = mail
      BY <1>16 DEF AudienceJoins, UpcomingLoad, vars
    <2> QED
      BY <1>1, <2>1
  <1> QED
    BY <1>6, <1>7, <1>8, <1>9, <1>10, <1>11, <1>12, <1>13, <1>14, <1>15, <1>16 DEF Next, Machine

-----------------------------------------------------------------------------
(* The upcoming slide is one step ahead *)

\* The deck has taken the state s over.
At(s, u) == Sound(u, Receiver) /\ Tells(s, u, FALSE) /\ u.overview = s.overview

\* With these messages to come the deck ends up one step ahead of s.
Led(s, sent, deck) ==
  IF sent = <<>> THEN \E u : At(s, u) /\ deck = [Navigate(u, "next") EXCEPT !.events = <<>>]
  ELSE /\ sent[Len(sent)].type = "next"
       /\ IF Len(sent) = 1 THEN At(s, deck)
          ELSE sent[Len(sent) - 1] = [type |-> "setState", state |-> s]

\* The last state applied has reached the upcoming slide, which is led one step ahead of
\* it if a deck can take that state over.
UpcomingInv ==
  /\ notes.reached => Loaded(upcoming)
  /\ mail.toUpcoming # <<>> => notes.reached
  /\ notes.reached =>
       \E s \in State : /\ notes.currentState = {s}
                        /\ Fit(s, Receiver) => Led(s, mail.toUpcoming, upcoming.deck)

LEMMA UpcomingInit == Init => UpcomingInv
  <1> SUFFICES ASSUME Init PROVE UpcomingInv
    OBVIOUS
  <1>1. mail = [toNotes |-> <<>>, toPresenter |-> <<>>, fromCurrent |-> <<>>, toCurrent |-> <<>>,
                toUpcoming |-> <<>>, toServer |-> <<>>, toAudience |-> <<>>]
    BY Zenon DEF Init
  <1>2. mail.toUpcoming = <<>>
    BY <1>1
  <1>3. ~notes.reached
    <2>1. notes = [phase |-> "closed", connected |-> FALSE, currentState |-> {},
                   pending |-> {}, recent |-> FALSE, reached |-> FALSE]
      BY Zenon DEF Init
    <2> QED
      BY <2>1
  <1> QED
    BY <1>2, <1>3 DEF UpcomingInv

\* A deck takes a state over, and its events are taken away.
LEMMA TakenOver ==
  ASSUME NEW config, NEW deck, Done(deck, config), NEW s, Fit(s, config),
         NEW d, d = SetState(deck, s), NEW c, c = [d EXCEPT !.events = <<>>]
  PROVE  Sound(c, config) /\ Tells(s, c, TRUE)
  <1>1. Good(deck) /\ Faithful(deck) /\ Allowed(deck) /\ deck.config = config /\ Fit(s, deck.config)
    BY DEF Done
  <1>2. Good(d) /\ Faithful(d) /\ Allowed(d) /\ d.config = config /\ Tells(s, d, TRUE)
    BY <1>1, SetArrives
  <1>3. Done(d, config)
    BY <1>2 DEF Done
  <1>4. Sound(c, config) /\ \A state, all : Tells(state, d, all) <=> Tells(state, c, all)
    BY <1>3, Cleared
  <1> QED
    BY <1>2, <1>4

\* The upcoming slide takes the next of its messages.
LEMMA LedOn ==
  ASSUME NEW s, Fit(s, Receiver), NEW sent \in Seq(Steps \cup SetStates), sent # <<>>,
         NEW deck, Sound(deck, Receiver), Led(s, sent, deck),
         NEW d, d = IF Head(sent).type = "next" THEN Navigate(deck, "next")
                    ELSE SetState(deck, Head(sent).state),
         NEW c, c = [d EXCEPT !.events = <<>>]
  PROVE  Led(s, Tail(sent), c)
  <1>1. /\ Len(sent) \in Nat \ {0} /\ Head(sent) = sent[1] /\ Len(Tail(sent)) = Len(sent) - 1
        /\ Tail(sent) = <<>> <=> Len(sent) = 1
        /\ Tail(sent) = <<>> => Head(sent) = sent[Len(sent)]
        /\ Tail(sent) # <<>> => Tail(sent)[Len(Tail(sent))] = sent[Len(sent)]
        /\ \A i \in 1 .. Len(sent) - 1 : Tail(sent)[i] = sent[i + 1]
    BY LastOfTail
  <1>2. CASE Tail(sent) = <<>>
    <2>1. Head(sent).type = "next" /\ At(s, deck)
      BY <1>1, <1>2 DEF Led
    <2>2. d = Navigate(deck, "next")
      BY <2>1
    <2> QED
      BY <1>2, <2>1, <2>2 DEF Led
  <1>3. CASE Tail(sent) # <<>> /\ Len(Tail(sent)) = 1
    <2>1. /\ sent[Len(sent)].type = "next" /\ Len(sent) - 1 = 1
          /\ sent[Len(sent) - 1] = [type |-> "setState", state |-> s]
      BY <1>1, <1>3 DEF Led
    <2>2. Head(sent) = [type |-> "setState", state |-> s]
      BY <1>1, <2>1
    <2>3. d = SetState(deck, s)
      <3>1. Head(sent).type = "setState" /\ Head(sent).state = s
        BY <2>2
      <3> QED
        BY <3>1
    <2>4. Done(deck, Receiver)
      BY DEF Sound
    <2>5. Sound(c, Receiver) /\ Tells(s, c, TRUE)
      BY <2>3, <2>4, TakenOver
    <2>6. At(s, c)
      BY <2>5 DEF At, Tells
    <2>7. Tail(sent)[Len(Tail(sent))].type = "next"
      BY <1>1, <1>3, <2>1
    <2> QED
      BY <1>3, <2>6, <2>7 DEF Led
  <1>4. CASE Tail(sent) # <<>> /\ Len(Tail(sent)) # 1
    <2>1. Len(sent) # 1 /\ Len(sent) # 2
      BY <1>1, <1>4
    <2>2. sent[Len(sent)].type = "next" /\ sent[Len(sent) - 1] = [type |-> "setState", state |-> s]
      BY <2>1 DEF Led
    <2>3. /\ Len(Tail(sent)) - 1 \in 1 .. Len(sent) - 1
          /\ (Len(Tail(sent)) - 1) + 1 = Len(sent) - 1
      BY <1>1, <2>1
    <2>4. Tail(sent)[Len(Tail(sent)) - 1] = sent[Len(sent) - 1]
      BY <1>1, <2>3
    <2>5. Tail(sent)[Len(Tail(sent))].type = "next"
      BY <1>1, <1>4, <2>2
    <2> QED
      BY <1>4, <2>2, <2>4, <2>5 DEF Led
  <1> QED
    BY <1>2, <1>3, <1>4

LEMMA UpcomingNext ==
  ASSUME TInv, UpcomingInv, [Next]_vars
  PROVE  UpcomingInv'
  <1>0. MailTyped(mail) /\ DOMAIN mail = Ways /\ SetUpInv
    BY DEF TInv, MailTyped
  <1>1. ASSUME upcoming' = upcoming, mail'.toUpcoming = mail.toUpcoming,
               notes'.reached = notes.reached, notes'.currentState = notes.currentState
        PROVE  UpcomingInv'
    BY <1>1 DEF UpcomingInv, Loaded
  <1>2. ASSUME NEW ways, OnWays(mail, mail', ways), "toUpcoming" \notin ways
        PROVE  mail'.toUpcoming = mail.toUpcoming
    BY <1>2 DEF OnWays, Ways
  <1>3. ASSUME ~Loaded(upcoming), ~notes'.reached, mail'.toUpcoming = mail.toUpcoming
        PROVE  UpcomingInv'
    BY <1>3 DEF UpcomingInv
  <1>4. ASSUME NEW s \in State, NEW m, MailTyped(m), m.toUpcoming = mail.toUpcoming,
               ApplyStateMessage(s, m), upcoming' = upcoming
        PROVE  UpcomingInv'
    <2>1. /\ notes'.currentState = {s} /\ notes'.reached = Loaded(upcoming)
          /\ ~Loaded(upcoming) => mail'.toUpcoming = m.toUpcoming
          /\ Loaded(upcoming) =>
               /\ mail'.toUpcoming # <<>> /\ Len(mail'.toUpcoming) # 1
               /\ mail'.toUpcoming[Len(mail'.toUpcoming)].type = "next"
               /\ mail'.toUpcoming[Len(mail'.toUpcoming) - 1] = [type |-> "setState", state |-> s]
      BY <1>0, <1>4, Applied
    <2>2. CASE ~Loaded(upcoming)
      BY <1>3, <1>4, <2>1, <2>2
    <2>3. CASE Loaded(upcoming)
      <3>1. Led(s, mail'.toUpcoming, upcoming'.deck)
        BY <2>1, <2>3 DEF Led
      <3> QED
        BY <1>4, <2>1, <2>3, <3>1 DEF UpcomingInv, Loaded
    <2> QED
      BY <2>2, <2>3
  <1>5. CASE HandleStateMessage
    <2> DEFINE rest == [mail EXCEPT !.toNotes = Tail(@)]
               s == Head(mail.toNotes).state
    <2>1. /\ MailTyped(rest) /\ rest.toUpcoming = mail.toUpcoming /\ s \in State
          /\ upcoming' = upcoming
      <3>1. MailTyped(rest) /\ s \in State
        BY <1>0, <1>5, TailTyped, Arriving DEF HandleStateMessage, Ways
      <3> QED
        BY <1>0, <1>5, <3>1 DEF HandleStateMessage, Ways
    <2>2. IF notes.recent THEN notes' = [notes EXCEPT !.pending = {s}] /\ mail' = rest
          ELSE ApplyStateMessage(s, rest)
      BY <1>5 DEF HandleStateMessage
    <2> HIDE DEF rest, s
    <2>3. CASE notes.recent
      <3>1. notes'.reached = notes.reached /\ notes'.currentState = notes.currentState
        BY <1>0, <2>2, <2>3 DEF SetUpInv
      <3> QED
        BY <1>1, <2>1, <2>2, <2>3, <3>1
    <2>4. CASE ~notes.recent
      BY <1>4, <2>1, <2>2, <2>4
    <2> QED
      BY <2>3, <2>4
  <1>6. CASE DebounceTimeout
    <2>1. upcoming' = upcoming
      BY <1>6 DEF DebounceTimeout
    <2>2. CASE notes.pending = {}
      <3>1. notes' = [notes EXCEPT !.recent = FALSE] /\ mail' = mail
        BY <1>6, <2>2 DEF DebounceTimeout
      <3>2. notes'.reached = notes.reached /\ notes'.currentState = notes.currentState
        BY <1>0, <3>1 DEF SetUpInv
      <3> QED
        BY <1>1, <2>1, <3>1, <3>2
    <2>3. CASE notes.pending # {}
      <3>1. PICK s \in notes.pending : ApplyStateMessage(s, mail)
        BY <1>6, <2>3 DEF DebounceTimeout
      <3>2. s \in State
        BY <3>1 DEF TInv, NotesTyped
      <3> QED
        BY <1>0, <1>4, <2>1, <3>1, <3>2
    <2> QED
      BY <2>2, <2>3
  <1>7. CASE HandleConnectMessage
    <2>1. mail'.toUpcoming = mail.toUpcoming
      <3>1. "toUpcoming" \notin {"toNotes"}
        OBVIOUS
      <3> QED
        BY <1>0, <1>2, <1>7, <3>1, StepWays
    <2>2. CASE notes.connected
      BY <1>1, <1>7, <2>1, <2>2 DEF HandleConnectMessage
    <2>3. CASE ~notes.connected
      <3>1. ~Loaded(upcoming)
        BY <1>0, <2>3 DEF SetUpInv, Loaded
      <3>2. notes' = [notes EXCEPT !.connected = TRUE]
        BY <1>7, <2>3 DEF HandleConnectMessage
      <3>3. ~notes'.reached
        BY <1>0, <3>1, <3>2 DEF SetUpInv, UpcomingInv
      <3> QED
        BY <1>3, <2>1, <3>1, <3>3
    <2> QED
      BY <2>2, <2>3
  <1>8. CASE UpcomingLoad
    <2>1. ~Loaded(upcoming) /\ notes' = notes /\ mail' = mail
      BY <1>8 DEF UpcomingLoad, Loaded
    <2>2. ~notes'.reached
      BY <2>1 DEF UpcomingInv
    <2> QED
      BY <1>3, <2>1, <2>2
  <1>9. CASE UpcomingReceives
    <2> DEFINE sent == mail.toUpcoming
               d == IF Head(sent).type = "next" THEN Navigate(upcoming.deck, "next")
                    ELSE SetState(upcoming.deck, Head(sent).state)
               c == [d EXCEPT !.events = <<>>]
    <2>1. /\ sent # <<>> /\ sent \in Seq(Steps \cup SetStates) /\ notes' = notes
          /\ mail'.toUpcoming = Tail(sent)
      <3>1. sent \in Seq(Steps \cup SetStates)
        BY <1>0, MailTypes
      <3> QED
        BY <1>0, <1>9, <3>1 DEF UpcomingReceives, Ways
    <2>2. upcoming' = [upcoming EXCEPT !.deck = c]
      BY <1>9 DEF UpcomingReceives
    <2>3. notes.reached /\ Loaded(upcoming)
      BY <2>1 DEF UpcomingInv
    <2>4. Sound(upcoming.deck, Receiver) /\ DOMAIN upcoming = {"phase", "deck"}
      BY <2>3 DEF TInv, IframeTyped
    <2>5. \A s : Fit(s, Receiver) /\ Led(s, sent, upcoming.deck) => Led(s, Tail(sent), c)
      <3> HIDE DEF sent
      <3> QED
        BY <2>1, <2>4, LedOn
    <2> HIDE DEF sent, d, c
    <2>6. upcoming'.deck = c /\ Loaded(upcoming')
      BY <2>2, <2>3, <2>4 DEF Loaded
    <2>7. PICK s \in State : /\ notes.currentState = {s}
                             /\ Fit(s, Receiver) => Led(s, sent, upcoming.deck)
      BY <2>3 DEF UpcomingInv, sent
    <2>8. Fit(s, Receiver) => Led(s, mail'.toUpcoming, upcoming'.deck)
      BY <2>1, <2>5, <2>6, <2>7
    <2> QED
      BY <2>1, <2>3, <2>6, <2>7, <2>8 DEF UpcomingInv
  <1>10. CASE OpenNotes \/ NotesLoad
    <2>1. /\ upcoming' = upcoming /\ mail' = mail
          /\ notes' = [notes EXCEPT !.phase = "loading"] \/ notes' = [notes EXCEPT !.phase = "open"]
      BY <1>10 DEF OpenNotes, NotesLoad
    <2>2. notes'.reached = notes.reached /\ notes'.currentState = notes.currentState
      BY <1>0, <2>1 DEF SetUpInv
    <2> QED
      BY <1>1, <2>1, <2>2
  <1>11. CASE ConnectInterval \/ PresenterReceives \/ HandleRevealEvent \/ ServerBroadcasts \/ AudienceReceives
    <2>1. upcoming' = upcoming /\ notes' = notes
      BY <1>11 DEF ConnectInterval, PresenterReceives, HandleRevealEvent, ServerBroadcasts, AudienceReceives
    <2>2. \E ways : OnWays(mail, mail', ways) /\ "toUpcoming" \notin ways
      <3>1. /\ "toUpcoming" \notin {"fromCurrent", "toPresenter"} /\ "toUpcoming" \notin {"toServer", "toAudience"}
            /\ "toUpcoming" \notin {"toAudience"} /\ "toUpcoming" \notin {"toNotes"}
            /\ "toUpcoming" \notin {"toPresenter", "toNotes", "toServer"}
        OBVIOUS
      <3> QED
        BY <1>0, <1>11, <3>1, StepWays
    <2> QED
      BY <1>1, <1>2, <2>1, <2>2
  <1>12. CASE CurrentLoad \/ CurrentReady \/ CurrentReceives
    <2>1. upcoming' = upcoming /\ notes' = notes
      BY <1>12 DEF CurrentLoad, CurrentReady, CurrentReceives, Show1
    <2>2. \E ways : OnWays(mail, mail', ways) /\ "toUpcoming" \notin ways
      <3>1. "toUpcoming" \notin {"fromCurrent"} /\ "toUpcoming" \notin {"fromCurrent", "toCurrent"}
        OBVIOUS
      <3> QED
        BY <1>0, <1>12, <3>1, StepWays
    <2> QED
      BY <1>1, <1>2, <2>1, <2>2
  <1>13. ASSUME NEW key \in Keys, SpeakerKey(key) \/ NotesKey(key) PROVE UpcomingInv'
    <2>1. upcoming' = upcoming /\ notes' = notes
      BY <1>13 DEF SpeakerKey, NotesKey
    <2>2. \E ways : OnWays(mail, mail', ways) /\ "toUpcoming" \notin ways
      <3>1. "toUpcoming" \notin {"toNotes", "toServer"} /\ "toUpcoming" \notin {"toCurrent"}
        OBVIOUS
      <3> QED
        BY <1>0, <1>13, <3>1, StepWays
    <2> QED
      BY <1>1, <1>2, <2>1, <2>2
  <1>14. CASE AudienceJoins \/ UNCHANGED vars
    <2>1. upcoming' = upcoming /\ notes' = notes /\ mail' = mail
      BY <1>14 DEF AudienceJoins, vars
    <2> QED
      BY <1>1, <2>1
  <1> QED
    BY <1>5, <1>6, <1>7, <1>8, <1>9, <1>10, <1>11, <1>12, <1>13, <1>14 DEF Next, Machine

\* A state that tells of one deck can be taken over by another.
LEMMA DeckFit ==
  ASSUME NEW c1, NEW c2, c2.fragments = c1.fragments, c2.overview = c1.overview, c2.pause = c1.pause,
         NEW p, Done(p, c1), NEW s \in State, Tells(s, p, TRUE)
  PROVE  Fit(s, c2)
  <1>1. Steady(p) /\ Allowed(p) /\ p.config = c1
    BY DEF Done, Good
  <1>2. /\ Placed(p) /\ p.cur # None /\ p.cur \in Leaves
        /\ s.indexh = p.indexh /\ s.indexv = p.indexv
        /\ s.overview = p.overview /\ s.paused = p.paused
    BY <1>1, SteadyShape DEF Tells
  <1>3. Situated(s.indexh, s.indexv) /\ p.cur = GetSlide(s.indexh, s.indexv)
    BY <1>2 DEF Placed, Situated
  <1>4. ASSUME c1.fragments, FragmentsOf(p.cur) # {} PROVE s.indexf.set
    <2>1. PICK f \in FragmentsOf(p.cur) : f \in Fragments /\ f[1] = p.cur
      BY <1>2, <1>4, FragmentShape
    <2> QED
      BY <1>1, <1>4, <2>1 DEF Tells
  <1>5. (s.overview => c1.overview) /\ (s.paused => c1.pause)
    BY <1>1, <1>2 DEF Allowed
  <1> QED
    BY <1>3, <1>4, <1>5 DEF Fit

\* What tells of the presentation can be taken over by the decks of the notes window,
\* and the other way round.
LEMMA DecksFit ==
  ASSUME TInv, NEW s \in State
  PROVE  /\ Tells(s, presenter, TRUE) => Fit(s, Receiver)
         /\ Loaded(current) /\ Tells(s, current.deck, TRUE) => Fit(s, Config)
  <1>1. /\ Receiver.fragments = Config.fragments /\ Receiver.overview = Config.overview
        /\ Receiver.pause = Config.pause
    BY Configured DEF Receiver, ConfigType
  <1>2. Done(presenter, Config) /\ (Loaded(current) => Done(current.deck, Receiver))
    BY DEF TInv, IframeTyped, Sound
  <1> QED
    BY <1>1, <1>2, DeckFit

\* The deck m is where p goes next, or on another slide of the stack that it enters.
Ahead(p, m) ==
  LET n == Navigate(p, "next")
  IN \/ m.cur = n.cur /\ m.visible = n.visible
     \/ n.cur[1] \in Stacks \ {p.cur[1]} /\ m.cur[1] = n.cur[1]

\* A deck that the same state tells of goes on as the presentation does.
LEMMA StepTogether ==
  ASSUME NEW p, Sound(p, Config), NEW s \in State, Tells(s, p, TRUE), NEW u, At(s, u)
  PROVE  Ahead(p, Navigate(u, "next"))
  <1> DEFINE n == Navigate(p, "next")
             m == Navigate(u, "next")
  <1>0. Sound(u, Receiver) /\ Tells(s, u, FALSE) /\ u.overview = s.overview
    BY DEF At
  <1>1. /\ Good(p) /\ Faithful(p) /\ p.config = Config /\ Steady(p)
        /\ Good(u) /\ Faithful(u) /\ u.config = Receiver /\ Steady(u)
    BY <1>0 DEF Sound, Done, Good
  <1>2. Receiver.fragments = Config.fragments /\ Receiver.loop = Config.loop
    BY Configured DEF Receiver, ConfigType
  <1>3. u.overview = p.overview
    BY <1>0 DEF Tells
  <1>4. u.indexh = p.indexh /\ u.indexv = p.indexv /\ u.cur = p.cur /\ u.visible = p.visible
    <2>1. p.config.fragments \in BOOLEAN /\ u.config.fragments = p.config.fragments
      BY <1>1, <1>2, Configured DEF ConfigType
    <2>2. Tells(s, p, FALSE)
      BY DEF Tells
    <2> QED
      BY <1>0, <1>1, <2>1, <2>2, SameTold
  <1>5. u.config.fragments = p.config.fragments /\ u.config.loop = p.config.loop
    BY <1>1, <1>2
  <1>6. n = Navigate(p, "next") /\ m = Navigate(u, "next")
    OBVIOUS
  <1> HIDE DEF m, n
  <1>7. \/ m.cur = n.cur /\ m.visible = n.visible
        \/ n.cur[1] \in Stacks \ {p.cur[1]} /\ m.cur[1] = n.cur[1]
    BY <1>1, <1>3, <1>4, <1>5, <1>6, NextSame
  <1> QED
    BY Zenon, <1>7 DEF Ahead, m, n

\* What is on its way to the notes window has come once all is quiet.
LEMMA QuietKnows ==
  ASSUME TInv, NotesInv, plugin.listening, Quiet
  PROVE  /\ mail.toNotes = <<>> /\ mail.toUpcoming = <<>> /\ notes.pending = {}
         /\ Knows(notes.currentState)
  <1>1. mail.toNotes = <<>> /\ mail.toUpcoming = <<>> /\ notes.pending = {}
    BY DEF Quiet, Delivered, TInv, MailTyped, Ways
  <1> QED
    BY <1>1 DEF NotesInv, Informed

\* The half of WindowsAgree that is no promise about the future: whenever the
\* plugin listens, nothing is on its way and no state waits for the debounce, the
\* state that the notes window has applied is there and is the presentation's.
THEOREM NotesAreCurrent == Spec => [](plugin.listening /\ Quiet => Knows(notes.currentState))
  <1>1. TInv /\ NotesInv /\ [Next]_vars => TInv' /\ NotesInv'
    BY TypeNext, ClosedStep, InformedStep DEF NotesInv
  <1>2. TInv /\ NotesInv => (plugin.listening /\ Quiet => Knows(notes.currentState))
    BY QuietKnows
  <1> QED
    BY <1>1, <1>2, TypeInit, NotesInit, PTL DEF Spec

\* Whatever the deck, the keys and the order in which the windows take their messages:
\* when nothing is on its way the upcoming slide is one step ahead of the presentation.
THEOREM UpcomingStaysAhead == Spec => []UpcomingIsNext
  <1>1. TInv /\ NotesInv /\ UpcomingInv /\ [Next]_vars => TInv' /\ NotesInv' /\ UpcomingInv'
    BY TypeNext, ClosedStep, InformedStep, UpcomingNext DEF NotesInv
  <1>2. TInv /\ NotesInv /\ UpcomingInv => UpcomingIsNext
    <2> DEFINE n == Navigate(presenter, "next")
    <2> SUFFICES ASSUME TInv, NotesInv, UpcomingInv, plugin.listening, Quiet, notes.reached
                 PROVE  \/ Place(upcoming.deck) = Place(n)
                        \/ n.cur[1] \in Stacks \ {presenter.cur[1]} /\ upcoming.deck.cur[1] = n.cur[1]
      BY Zenon DEF UpcomingIsNext
    <2>1. mail.toNotes = <<>> /\ mail.toUpcoming = <<>> /\ notes.pending = {}
      BY QuietKnows
    <2>2. Knows(notes.currentState)
      BY QuietKnows
    <2>3. PICK s \in State : /\ notes.currentState = {s}
                             /\ Fit(s, Receiver) => Led(s, mail.toUpcoming, upcoming.deck)
      BY DEF UpcomingInv
    <2>4. Tells(s, presenter, TRUE)
      BY <2>2, <2>3 DEF Knows
    <2>5. Led(s, <<>>, upcoming.deck)
      BY <2>1, <2>3, <2>4, DecksFit
    <2>6. PICK u : At(s, u) /\ upcoming.deck = [Navigate(u, "next") EXCEPT !.events = <<>>]
      BY <2>5 DEF Led
    <2> DEFINE m == Navigate(u, "next")
    <2>7. Done(m, Receiver)
      BY <2>6, Handled DEF At, Sound
    <2>8. Ahead(presenter, m)
      BY <2>4, <2>6, StepTogether DEF TInv
    <2> HIDE DEF m
    <2>9. upcoming.deck.cur = m.cur /\ upcoming.deck.visible = m.visible
      BY <2>6, <2>7, Cleared DEF m
    <2>10. /\ n.cur = Navigate(presenter, "next").cur
           /\ n.visible = Navigate(presenter, "next").visible
      OBVIOUS
    <2> HIDE DEF n
    <2>11. \/ m.cur = n.cur /\ m.visible = n.visible
           \/ n.cur[1] \in Stacks \ {presenter.cur[1]} /\ m.cur[1] = n.cur[1]
      BY <2>8, <2>10 DEF Ahead
    <2> QED
      BY <2>9, <2>11 DEF Place
  <1> QED
    BY <1>1, <1>2, TypeInit, NotesInit, UpcomingInit, PTL DEF Spec

-----------------------------------------------------------------------------
(* The current slide is that of the presentation *)

\* Of these messages, the last of these types has this state, or none is of them.
LastOf(q, types, state) ==
  \E i \in DOMAIN q : /\ q[i].type \in types /\ q[i].state = state
                      /\ \A j \in DOMAIN q : j > i => q[j].type \notin types
NoneOf(q, types) == \A i \in DOMAIN q : q[i].type \notin types

LEMMA LastTaken ==
  ASSUME NEW S, NEW q \in Seq(S), q # <<>>, NEW types
  PROVE  /\ NoneOf(q, types) => Head(q).type \notin types /\ NoneOf(Tail(q), types)
         /\ \A s : LastOf(q, types, s) =>
              \/ LastOf(Tail(q), types, s)
              \/ Head(q).type \in types /\ Head(q).state = s /\ NoneOf(Tail(q), types)
  <1> DEFINE r == Tail(q)
  <1>1. /\ Len(q) \in Nat \ {0} /\ DOMAIN q = 1 .. Len(q) /\ DOMAIN r = 1 .. Len(q) - 1 /\ Head(q) = q[1]
        /\ \A i \in 1 .. Len(q) - 1 : r[i] = q[i + 1]
    <2>1. r \in Seq(S) /\ Len(r) = Len(q) - 1 /\ Head(q) = q[1] /\ Len(q) \in Nat \ {0}
          /\ \A i \in 1 .. Len(q) - 1 : r[i] = q[i + 1]
      BY LastOfTail
    <2> HIDE DEF r
    <2> QED
      BY <2>1
  <1> HIDE DEF r
  <1>2. ASSUME NoneOf(q, types) PROVE Head(q).type \notin types /\ NoneOf(r, types)
    BY <1>1, <1>2 DEF NoneOf
  <1>3. ASSUME NEW s, LastOf(q, types, s)
        PROVE  \/ LastOf(r, types, s)
               \/ Head(q).type \in types /\ Head(q).state = s /\ NoneOf(r, types)
    <2>1. PICK i \in 1 .. Len(q) : /\ q[i].type \in types /\ q[i].state = s
                                   /\ \A j \in 1 .. Len(q) : j > i => q[j].type \notin types
      BY <1>1, <1>3 DEF LastOf
    <2>2. CASE i = 1
      <3>1. \A j \in 1 .. Len(q) - 1 : j + 1 \in 1 .. Len(q) /\ j + 1 > 1
        BY <1>1
      <3>2. NoneOf(r, types)
        BY <1>1, <2>1, <2>2, <3>1 DEF NoneOf
      <3> QED
        BY <1>1, <2>1, <2>2, <3>2
    <2>3. CASE i # 1
      <3>1. PICK k \in 1 .. Len(q) - 1 : k + 1 = i
        <4>1. i - 1 \in 1 .. Len(q) - 1 /\ (i - 1) + 1 = i
          BY <1>1, <2>3
        <4> QED
          BY <4>1
      <3>2. r[k].type \in types /\ r[k].state = s
        BY <1>1, <2>1, <3>1
      <3>3. \A j \in 1 .. Len(q) - 1 : j > k => r[j].type \notin types
        <4>1. \A j \in 1 .. Len(q) - 1 : j > k => j + 1 \in 1 .. Len(q) /\ j + 1 > i
          BY <1>1, <3>1
        <4> QED
          BY <1>1, <2>1, <4>1
      <3>4. LastOf(r, types, s)
        BY <1>1, <3>2, <3>3 DEF LastOf
      <3> QED
        BY <3>4
    <2> QED
      BY <2>2, <2>3
  <1> QED
    BY <1>2, <1>3 DEF r

LEMMA LastSingle ==
  ASSUME NEW a, NEW types
  PROVE  /\ NoneOf(<<>>, types)
         /\ a.type \notin types => NoneOf(<<a>>, types)
         /\ a.type \in types => LastOf(<<a>>, types, a.state)
  <1>1. DOMAIN <<>> = {} /\ DOMAIN <<a>> = {1} /\ <<a>>[1] = a
    OBVIOUS
  <1>2. \A i, j \in {1} : ~(j > i)
    OBVIOUS
  <1> QED
    BY <1>1, <1>2 DEF NoneOf, LastOf

LEMMA LastAdded ==
  ASSUME NEW S, NEW q \in Seq(S), NEW t \in Seq(S), NEW types
  PROVE  /\ NoneOf(q, types) /\ NoneOf(t, types) => NoneOf(q \o t, types)
         /\ \A s : LastOf(t, types, s) \/ (LastOf(q, types, s) /\ NoneOf(t, types)) =>
                     LastOf(q \o t, types, s)
  <1> DEFINE r == q \o t
  <1>1. /\ Len(q) \in Nat /\ Len(t) \in Nat /\ DOMAIN q = 1 .. Len(q) /\ DOMAIN t = 1 .. Len(t)
        /\ DOMAIN r = 1 .. Len(q) + Len(t)
        /\ \A i \in 1 .. Len(q) + Len(t) : r[i] = IF i <= Len(q) THEN q[i] ELSE t[i - Len(q)]
    <2>1. /\ r \in Seq(S) /\ Len(r) = Len(q) + Len(t)
          /\ \A i \in 1 .. Len(q) + Len(t) : r[i] = IF i <= Len(q) THEN q[i] ELSE t[i - Len(q)]
      BY ConcatProperties
    <2> HIDE DEF r
    <2> QED
      BY <2>1
  <1> HIDE DEF r
  <1>2. /\ \A i \in 1 .. Len(q) + Len(t) :
             IF i <= Len(q) THEN i \in 1 .. Len(q) ELSE i - Len(q) \in 1 .. Len(t)
        /\ \A i \in 1 .. Len(q) : i \in 1 .. Len(q) + Len(t) /\ i <= Len(q)
        /\ \A i \in 1 .. Len(t) : /\ Len(q) + i \in 1 .. Len(q) + Len(t) /\ ~(Len(q) + i <= Len(q))
                                  /\ (Len(q) + i) - Len(q) = i
    BY <1>1
  <1>3. ASSUME NoneOf(q, types), NoneOf(t, types) PROVE NoneOf(r, types)
    BY <1>1, <1>2, <1>3 DEF NoneOf
  <1>4. ASSUME NEW s, LastOf(t, types, s) PROVE LastOf(r, types, s)
    <2>1. PICK i \in 1 .. Len(t) : /\ t[i].type \in types /\ t[i].state = s
                                   /\ \A j \in 1 .. Len(t) : j > i => t[j].type \notin types
      BY <1>1, <1>4 DEF LastOf
    <2>2. Len(q) + i \in 1 .. Len(q) + Len(t) /\ r[Len(q) + i] = t[i]
      BY <1>1, <1>2
    <2>3. ASSUME NEW j \in 1 .. Len(q) + Len(t), j > Len(q) + i PROVE r[j].type \notin types
      <3>1. ~(j <= Len(q)) /\ j - Len(q) \in 1 .. Len(t) /\ j - Len(q) > i
        BY <1>1, <2>3
      <3> QED
        BY <1>1, <2>1, <3>1
    <2> QED
      BY <1>1, <2>1, <2>2, <2>3 DEF LastOf
  <1>5. ASSUME NEW s, LastOf(q, types, s), NoneOf(t, types) PROVE LastOf(r, types, s)
    <2>1. PICK i \in 1 .. Len(q) : /\ q[i].type \in types /\ q[i].state = s
                                   /\ \A j \in 1 .. Len(q) : j > i => q[j].type \notin types
      BY <1>1, <1>5 DEF LastOf
    <2>2. i \in 1 .. Len(q) + Len(t) /\ r[i] = q[i]
      BY <1>1, <1>2
    <2>3. ASSUME NEW j \in 1 .. Len(q) + Len(t), j > i PROVE r[j].type \notin types
      <3>1. CASE j <= Len(q)
        BY <1>1, <1>2, <2>1, <2>3, <3>1
      <3>2. CASE ~(j <= Len(q))
        BY <1>1, <1>2, <1>5, <3>2 DEF NoneOf
      <3> QED
        BY <3>1, <3>2
    <2> QED
      BY <1>1, <2>1, <2>2, <2>3 DEF LastOf
  <1> QED
    BY <1>3, <1>4, <1>5 DEF r

\* The last of these messages tells of the deck.
Reported(q, types, deck) == \E x \in State : LastOf(q, types, x) /\ Tells(x, deck, TRUE)

\* What the current slide tells of itself reaches the presentation, by an event that the
\* notes window has still to hear or by the last state that it has sent on; or it has the
\* state s and there is nothing to tell.
Answered(s, m, deck) ==
  \/ Reported(m.fromCurrent, Forwarded, deck)
  \/ NoneOf(m.fromCurrent, Forwarded) /\ Reported(m.toPresenter, {"setState"}, deck)
  \/ Tells(s, deck, TRUE)

\* Whoever listens to the current slide, or is told of it, does so after it has loaded.
Opened == plugin.listening \/ mail.toPresenter # <<>> \/ mail.fromCurrent # <<>> => Loaded(current)

\* The current slide is going to take the state s over, or the presentation that of the
\* current slide.
Coming(s, m, deck) ==
  \/ LastOf(m.toCurrent, {"setState"}, s)
  \/ NoneOf(m.toCurrent, {"setState"}) /\ Answered(s, m, deck)

\* That is so for the last state that the notes window has applied, once there is none
\* that it has still to apply.
Echoed ==
  plugin.listening /\ mail.toNotes = <<>> /\ notes.pending = {} =>
    \E s \in State : notes.currentState = {s} /\ Coming(s, mail, current.deck)

CurrentInv == Opened /\ Echoed

LEMMA CurrentInit == Init => CurrentInv
  <1> SUFFICES ASSUME Init PROVE CurrentInv
    OBVIOUS
  <1>1. mail = [toNotes |-> <<>>, toPresenter |-> <<>>, fromCurrent |-> <<>>, toCurrent |-> <<>>,
                toUpcoming |-> <<>>, toServer |-> <<>>, toAudience |-> <<>>]
    BY Zenon DEF Init
  <1>2. mail.toPresenter = <<>> /\ mail.fromCurrent = <<>>
    BY <1>1
  <1>3. ~plugin.listening
    <2>1. PICK name \in Plugins : plugin = [name |-> name, connecting |-> FALSE, listening |-> FALSE]
      BY Zenon DEF Init
    <2> QED
      BY <2>1
  <1> QED
    BY <1>2, <1>3 DEF CurrentInv, Opened, Echoed

\* A message is taken from the sequence, and the rest is on its way still.
LEMMA OpenedStep ==
  ASSUME TInv, Opened, [Next]_vars
  PROVE  Opened'
  <1>0. DOMAIN mail = Ways /\ SetUpInv
    BY DEF TInv, MailTyped
  <1>1. Loaded(current) => Loaded(current')
    BY <1>0, SetUpNext
  <1>2. ASSUME Loaded(current) PROVE Opened'
    BY <1>1, <1>2 DEF Opened
  <1>3. ASSUME plugin'.listening = plugin.listening, mail'.toPresenter = mail.toPresenter,
               mail'.fromCurrent = mail.fromCurrent
        PROVE  Opened'
    BY <1>1, <1>3 DEF Opened
  <1>4. ASSUME NEW ways, OnWays(mail, mail', ways), {"toPresenter", "fromCurrent"} \cap ways = {},
               plugin'.listening = plugin.listening
        PROVE  Opened'
    BY <1>3, <1>4 DEF OnWays, Ways
  <1>5. CASE PresenterReceives \/ HandleRevealEvent \/ CurrentReady \/ CurrentReceives
    <2>1. Loaded(current)
      BY <1>5 DEF PresenterReceives, HandleRevealEvent, CurrentReady, CurrentReceives, Opened, Loaded,
           TInv, Lost
    <2> QED
      BY <1>2, <2>1
  <1>6. CASE CurrentLoad
    <2>1. \E deck : current' = [phase |-> "started", deck |-> deck]
      BY <1>6 DEF CurrentLoad, Show1
    <2>2. Loaded(current')
      BY <2>1 DEF Loaded
    <2> QED
      BY <2>2 DEF Opened
  <1>7. CASE OpenNotes
    <2>1. plugin' = [plugin EXCEPT !.connecting = TRUE] /\ mail' = mail
      BY <1>7 DEF OpenNotes
    <2> QED
      BY <1>3, <2>1 DEF TInv, PluginTyped
  <1>8. CASE NotesLoad \/ AudienceJoins \/ UpcomingLoad \/ UNCHANGED vars
    <2>1. plugin' = plugin /\ mail' = mail
      BY <1>8 DEF NotesLoad, AudienceJoins, UpcomingLoad, vars
    <2> QED
      BY <1>3, <2>1
  <1>9. CASE \/ ConnectInterval \/ HandleConnectMessage \/ HandleStateMessage \/ DebounceTimeout
             \/ UpcomingReceives \/ ServerBroadcasts \/ AudienceReceives
    <2>1. plugin' = plugin
      BY <1>9 DEF ConnectInterval, HandleConnectMessage, HandleStateMessage, DebounceTimeout,
           UpcomingReceives, ServerBroadcasts, AudienceReceives
    <2>2. \E ways : OnWays(mail, mail', ways) /\ {"toPresenter", "fromCurrent"} \cap ways = {}
      <3>1. /\ {"toPresenter", "fromCurrent"} \cap {"toNotes"} = {}
            /\ {"toPresenter", "fromCurrent"} \cap {"toNotes", "toCurrent", "toUpcoming"} = {}
            /\ {"toPresenter", "fromCurrent"} \cap {"toCurrent", "toUpcoming"} = {}
            /\ {"toPresenter", "fromCurrent"} \cap {"toUpcoming"} = {}
            /\ {"toPresenter", "fromCurrent"} \cap {"toServer", "toAudience"} = {}
            /\ {"toPresenter", "fromCurrent"} \cap {"toAudience"} = {}
        OBVIOUS
      <3> QED
        BY <1>0, <1>9, <3>1, StepWays
    <2> QED
      BY <1>4, <2>1, <2>2
  <1>10. ASSUME NEW key \in Keys, SpeakerKey(key) \/ NotesKey(key) PROVE Opened'
    <2>1. plugin' = plugin
      BY <1>10 DEF SpeakerKey, NotesKey
    <2>2. \E ways : OnWays(mail, mail', ways) /\ {"toPresenter", "fromCurrent"} \cap ways = {}
      <3>1. /\ {"toPresenter", "fromCurrent"} \cap {"toNotes", "toServer"} = {}
            /\ {"toPresenter", "fromCurrent"} \cap {"toCurrent"} = {}
        OBVIOUS
      <3> QED
        BY <1>0, <1>10, <3>1, StepWays
    <2> QED
      BY <1>4, <2>1, <2>2
  <1> QED
    BY <1>5, <1>6, <1>7, <1>8, <1>9, <1>10 DEF Next, Machine

\* Where one state tells of two decks, what tells of the one tells of the other.
LEMMA TellsSame ==
  ASSUME TInv, Loaded(current), NEW s, NEW x,
         NEW p, Sound(p, Config), Tells(s, p, TRUE), Tells(x, p, TRUE), Tells(x, current.deck, TRUE)
  PROVE  Tells(s, current.deck, TRUE)
  <1> DEFINE c == current.deck
  <1>1. /\ Good(p) /\ Faithful(p) /\ p.config = Config
        /\ Good(c) /\ Faithful(c) /\ c.config = Receiver
    BY DEF TInv, IframeTyped, Sound, Done
  <1>2. p.config.fragments \in BOOLEAN /\ c.config.fragments = p.config.fragments
    BY <1>1, Configured DEF Receiver, ConfigType
  <1>3. /\ Tells(x, p, FALSE) /\ Tells(x, c, FALSE)
        /\ c.paused = p.paused /\ c.overview = p.overview
    BY DEF Tells
  <1> HIDE DEF c
  <1>4. c.indexh = p.indexh /\ c.indexv = p.indexv /\ c.cur = p.cur /\ c.visible = p.visible
    BY <1>1, <1>2, <1>3, SameTold
  <1>5. Tells(s, c, TRUE)
    BY <1>2, <1>3, <1>4 DEF Tells
  <1> QED
    BY <1>5 DEF c

\* The current slide runs a handler: its events tell of what it has become.
LEMMA ShownAnswered ==
  ASSUME NEW s \in State, NEW c, c.events = <<>>, NEW d, Done(d, Receiver), Follows(Forwarded, TRUE, c, d),
         NEW e, e = [d EXCEPT !.events = <<>>], NEW m, MailTyped(m), Answered(s, m, c),
         NEW n, n.fromCurrent = m.fromCurrent \o d.events, n.toPresenter = m.toPresenter
  PROVE  Answered(s, n, e)
  <1> DEFINE q == m.fromCurrent
             t == d.events
  <1>1. \A state : Tells(state, d, TRUE) => Tells(state, e, TRUE)
    BY Cleared
  <1>2. q \in Seq(Event) /\ t \in Seq(Event)
    BY MailTypes DEF Done, Faithful
  <1>3. ASSUME NEW before \in State, Tells(before, c, TRUE)
        PROVE  Reported(t, Forwarded, e) \/ (NoneOf(t, Forwarded) /\ Tells(before, e, TRUE))
    <2>1. LastIs(c.events, Forwarded, before, before)
      BY DEF LastIs
    <2>2. Told(Forwarded, TRUE, before, c)
      BY <1>3, <2>1 DEF Told
    <2>3. PICK state \in State : LastIs(t, Forwarded, before, state) /\ Tells(state, d, TRUE)
      BY <2>2 DEF Follows, Told
    <2>4. LastOf(t, Forwarded, state) \/ (state = before /\ NoneOf(t, Forwarded))
      BY <2>3 DEF LastIs, LastOf, NoneOf
    <2> QED
      BY <1>1, <2>3, <2>4 DEF Reported
  <1> HIDE DEF q, t
  <1>4. n.fromCurrent = q \o t
    BY DEF q, t
  <1>5. /\ NoneOf(q, Forwarded) /\ NoneOf(t, Forwarded) => NoneOf(q \o t, Forwarded)
        /\ \A x : LastOf(t, Forwarded, x) \/ (LastOf(q, Forwarded, x) /\ NoneOf(t, Forwarded)) =>
                    LastOf(q \o t, Forwarded, x)
    BY <1>2, LastAdded
  <1>6. CASE Reported(t, Forwarded, e)
    <2>1. Reported(q \o t, Forwarded, e)
      BY <1>5, <1>6 DEF Reported
    <2> QED
      BY <1>4, <2>1 DEF Answered
  <1>7. CASE NoneOf(t, Forwarded) /\ \A x \in State : Tells(x, c, TRUE) => Tells(x, e, TRUE)
    <2>1. Reported(q, Forwarded, c) => Reported(q \o t, Forwarded, e)
      BY <1>5, <1>7 DEF Reported
    <2>2. Reported(m.toPresenter, {"setState"}, c) => Reported(m.toPresenter, {"setState"}, e)
      BY <1>7 DEF Reported
    <2>3. Tells(s, c, TRUE) => Tells(s, e, TRUE)
      BY <1>7
    <2> QED
      BY <1>4, <1>5, <1>7, <2>1, <2>2, <2>3 DEF Answered, q
  <1>8. \/ Reported(t, Forwarded, e)
        \/ NoneOf(t, Forwarded) /\ \A x \in State : Tells(x, c, TRUE) => Tells(x, e, TRUE)
    <2>1. \E x \in State : Tells(x, c, TRUE)
      BY DEF Answered, Reported
    <2> QED
      BY <1>3, <2>1
  <1> QED
    BY <1>6, <1>7, <1>8

\* The notes window hears an event of the current slide, and sends on what is new.
LEMMA HeardAnswered ==
  ASSUME TInv, NEW s \in State, notes.currentState = {s}, HandleRevealEvent, NEW deck,
         Answered(s, mail, deck)
  PROVE  Answered(s, mail', deck)
  <1> DEFINE q == mail.fromCurrent
             p == mail.toPresenter
             e == Head(q)
             sent == IF e.type = "ready" THEN <<[type |-> "connected"]>>
                     ELSE IF e.type \in Forwarded /\ notes.currentState # {e.state}
                     THEN <<[type |-> "setState", state |-> e.state]>> ELSE <<>>
  <1>1. /\ DOMAIN mail = Ways /\ q \in Seq(Event) /\ q # <<>> /\ p \in Seq(Answers \cup SetStates)
        /\ e.state \in State
    BY MailTypes, Arriving DEF TInv, HandleRevealEvent
  <1>2. mail' = [mail EXCEPT !.fromCurrent = Tail(@), !.toPresenter = @ \o sent]
    BY DEF HandleRevealEvent
  <1>3. /\ sent \in Seq(Answers \cup SetStates)
        /\ e.type \notin Forwarded => NoneOf(sent, {"setState"})
        /\ e.type \in Forwarded => e.state = s \/ LastOf(sent, {"setState"}, e.state)
    <2> DEFINE connected == [type |-> "connected"]
               set == [type |-> "setState", state |-> e.state]
    <2>1. /\ connected \in Answers /\ connected.type = "connected"
          /\ set \in SetStates /\ set.type = "setState" /\ set.state = e.state
      BY <1>1, MessageShape
    <2> HIDE DEF connected, set
    <2>2. /\ <<connected>> \in Seq(Answers \cup SetStates) /\ <<set>> \in Seq(Answers \cup SetStates)
          /\ <<>> \in Seq(Answers \cup SetStates)
      BY <2>1
    <2>3. /\ NoneOf(<<>>, {"setState"}) /\ NoneOf(<<connected>>, {"setState"})
          /\ LastOf(<<set>>, {"setState"}, set.state)
      BY <2>1, LastSingle
    <2>4. "ready" \notin Forwarded /\ (notes.currentState = {e.state} => e.state = s)
      BY DEF Forwarded, Watched, Followed
    <2>5. \/ e.type = "ready" /\ sent = <<connected>>
          \/ e.type # "ready" /\ e.type \in Forwarded /\ notes.currentState # {e.state} /\ sent = <<set>>
          \/ e.type # "ready" /\ ~(e.type \in Forwarded /\ notes.currentState # {e.state}) /\ sent = <<>>
      BY Zenon DEF connected, set
    <2> HIDE DEF sent
    <2> QED
      BY <2>1, <2>2, <2>3, <2>4, <2>5
  <1> HIDE DEF sent
  <1>4. mail'.fromCurrent = Tail(q) /\ mail'.toPresenter = p \o sent
    BY <1>1, <1>2 DEF Ways
  <1> HIDE DEF q, p
  <1>5. /\ NoneOf(q, Forwarded) => e.type \notin Forwarded /\ NoneOf(Tail(q), Forwarded)
        /\ \A x : LastOf(q, Forwarded, x) =>
             \/ LastOf(Tail(q), Forwarded, x)
             \/ e.type \in Forwarded /\ e.state = x /\ NoneOf(Tail(q), Forwarded)
    BY <1>1, LastTaken
  <1>6. \A x : LastOf(sent, {"setState"}, x) \/ (LastOf(p, {"setState"}, x) /\ NoneOf(sent, {"setState"})) =>
                LastOf(p \o sent, {"setState"}, x)
    BY <1>1, <1>3, LastAdded
  <1> HIDE DEF e
  <1>7. CASE Reported(q, Forwarded, deck)
    <2>1. PICK x \in State : LastOf(q, Forwarded, x) /\ Tells(x, deck, TRUE)
      BY <1>7 DEF Reported
    <2>2. CASE LastOf(Tail(q), Forwarded, x)
      BY <1>4, <2>1, <2>2 DEF Answered, Reported
    <2>3. CASE e.type \in Forwarded /\ e.state = x /\ NoneOf(Tail(q), Forwarded)
      <3>1. Tells(s, deck, TRUE) \/ Reported(p \o sent, {"setState"}, deck)
        BY <1>3, <1>6, <2>1, <2>3 DEF Reported
      <3> QED
        BY <1>4, <2>3, <3>1 DEF Answered
    <2> QED
      BY <1>5, <2>1, <2>2, <2>3
  <1>8. CASE NoneOf(q, Forwarded) /\ Reported(p, {"setState"}, deck)
    <2>1. Reported(p \o sent, {"setState"}, deck)
      BY <1>3, <1>5, <1>6, <1>8 DEF Reported
    <2> QED
      BY <1>4, <1>5, <1>8, <2>1 DEF Answered
  <1>9. CASE Tells(s, deck, TRUE)
    BY <1>9 DEF Answered
  <1> QED
    BY <1>7, <1>8, <1>9 DEF Answered, q, p

\* The presentation takes the next state that is sent to it.
LEMMA TakenAnswered ==
  ASSUME TInv, NotesInv, Loaded(current), NEW s \in State, NEW x \in State,
         NEW d, d = SetState(presenter, x), NEW p, p = [d EXCEPT !.events = <<>>],
         NEW q, q = mail.toPresenter, q # <<>>, Head(q).state = x, Tells(s, p, TRUE),
         NEW n, n.fromCurrent = mail.fromCurrent, n.toPresenter = Tail(q),
         Answered(s, mail, current.deck)
  PROVE  Answered(s, n, current.deck)
  <1> DEFINE c == current.deck
  <1>1. q \in Seq(Answers \cup SetStates)
    BY MailTypes DEF TInv
  <1>2. \A y : LastOf(q, {"setState"}, y) =>
                 LastOf(Tail(q), {"setState"}, y) \/ (Head(q).state = y /\ NoneOf(Tail(q), {"setState"}))
    BY <1>1, LastTaken
  <1>3. ASSUME Tells(x, c, TRUE) PROVE Tells(s, c, TRUE)
    <2>1. Fit(x, Config)
      BY <1>3, DecksFit
    <2>2. Done(presenter, Config)
      BY DEF TInv, Sound
    <2>3. Sound(p, Config) /\ Tells(x, p, TRUE)
      BY <2>1, <2>2, TakenOver
    <2> QED
      BY <1>3, <2>3, TellsSame
  <1> HIDE DEF c
  <1>4. Reported(q, {"setState"}, c) =>
          Reported(Tail(q), {"setState"}, c) \/ Tells(s, c, TRUE)
    BY <1>2, <1>3 DEF Reported
  <1> QED
    BY <1>4 DEF Answered, c

\* The current slide takes the next of its messages.
LEMMA ReceivedComing ==
  ASSUME TInv, CurrentReceives, NEW s \in State, Fit(s, Receiver), Coming(s, mail, current.deck)
  PROVE  Coming(s, mail', current'.deck)
  <1> DEFINE q == mail.toCurrent
             x == Head(q)
             c == current.deck
             d == IF x.type = "key" THEN OnDocumentKeyDown(c, x.key) ELSE SetState(c, x.state)
             rest == [mail EXCEPT !.toCurrent = Tail(@)]
             e == [d EXCEPT !.events = <<>>]
  <1>1. /\ DOMAIN mail = Ways /\ MailTyped(mail) /\ q \in Seq(KeyPresses \cup SetStates) /\ q # <<>>
        /\ Loaded(current) /\ Sound(c, Receiver)
    BY MailTypes DEF TInv, MailTyped, CurrentReceives, Lost, IframeTyped
  <1>2. x \in KeyPresses \cup SetStates /\ x.type \in {"key", "setState"} /\ (x.type # "key" => x.state \in State)
    <2>1. x \in KeyPresses \cup SetStates
      BY <1>1, LastOfTail
    <2>2. x.type \in {"key", "setState"}
      BY <2>1 DEF KeyPresses, SetStates
    <2> QED
      BY <2>1, <2>2, MessageShape
  <1>3. current' = [phase |-> current.phase, deck |-> e] /\ mail' = [rest EXCEPT !.fromCurrent = @ \o d.events]
    BY DEF CurrentReceives, Show1
  <1>4. /\ Good(c) /\ Faithful(c) /\ Allowed(c) /\ c.config = Receiver /\ Done(c, Receiver) /\ c.events = <<>>
    BY <1>1 DEF Sound, Done
  <1>5. x.type = "key" => Done(d, Receiver) /\ Follows(Forwarded, TRUE, c, d)
    <2>1. x.type = "key" => d = OnDocumentKeyDown(c, x.key)
      OBVIOUS
    <2> HIDE DEF c, d, x
    <2>2. Done(OnDocumentKeyDown(c, x.key), Receiver)
      BY <1>4, Handled
    <2>3. Follows(Forwarded, TRUE, c, OnDocumentKeyDown(c, x.key))
      BY <1>4, KeyDownTells, Watchings
    <2> QED
      BY <2>1, <2>2, <2>3
  <1>6. x.type # "key" => d = SetState(c, x.state)
    OBVIOUS
  <1> HIDE DEF d
  <1>7. e = [d EXCEPT !.events = <<>>]
    OBVIOUS
  <1> HIDE DEF e
  <1>8. /\ current'.deck = e /\ mail'.toCurrent = Tail(q) /\ mail'.toPresenter = mail.toPresenter
        /\ mail'.fromCurrent = mail.fromCurrent \o d.events
    BY <1>1, <1>3 DEF Ways
  <1> HIDE DEF q, rest, x, c
  <1>9. /\ NoneOf(q, {"setState"}) => x.type \notin {"setState"} /\ NoneOf(Tail(q), {"setState"})
        /\ LastOf(q, {"setState"}, s) =>
             \/ LastOf(Tail(q), {"setState"}, s)
             \/ x.type \in {"setState"} /\ x.state = s /\ NoneOf(Tail(q), {"setState"})
    BY <1>1, LastTaken DEF x
  <1>10. CASE LastOf(Tail(q), {"setState"}, s)
    BY <1>8, <1>10 DEF Coming
  <1>11. CASE x.type \in {"setState"} /\ x.state = s /\ NoneOf(Tail(q), {"setState"})
    <2>1. d = SetState(c, s)
      BY <1>6, <1>11
    <2>2. Tells(s, e, TRUE)
      BY <1>4, <1>7, <2>1, TakenOver
    <2> QED
      BY <1>8, <1>11, <2>2 DEF Coming, Answered
  <1>12. CASE NoneOf(q, {"setState"}) /\ Answered(s, mail, c)
    <2>1. x.type = "key" /\ NoneOf(Tail(q), {"setState"})
      BY <1>2, <1>9, <1>12
    <2>2. /\ c.events = <<>> /\ Done(d, Receiver) /\ Follows(Forwarded, TRUE, c, d)
          /\ e = [d EXCEPT !.events = <<>>] /\ MailTyped(mail) /\ Answered(s, mail, c)
          /\ mail'.fromCurrent = mail.fromCurrent \o d.events /\ mail'.toPresenter = mail.toPresenter
      BY <1>1, <1>4, <1>5, <1>7, <1>8, <1>12, <2>1
    <2>3. Answered(s, mail', e)
      BY <2>2, ShownAnswered
    <2> QED
      BY <1>8, <2>1, <2>3 DEF Coming
  <1> QED
    BY <1>9, <1>10, <1>11, <1>12 DEF Coming, q, c

\* A state is applied: it is on its way to the current slide.
LEMMA EchoedApplied ==
  ASSUME TInv, Opened, NEW s \in State, NEW m, MailTyped(m), ApplyStateMessage(s, m), plugin' = plugin
  PROVE  Echoed'
  <1>1. CASE ~plugin.listening
    BY <1>1 DEF Echoed
  <1>2. CASE plugin.listening
    <2> DEFINE set == [type |-> "setState", state |-> s]
    <2>1. Loaded(current) /\ SetUpInv
      BY <1>2 DEF Opened, TInv
    <2>2. notes'.currentState = {s} /\ mail'.toCurrent = m.toCurrent \o <<set>>
      BY <2>1, Applied
    <2>3. m.toCurrent \in Seq(KeyPresses \cup SetStates) /\ set \in SetStates
      BY MailTypes, MessageShape
    <2>4. set.type \in {"setState"} /\ set.state = s
      OBVIOUS
    <2> HIDE DEF set
    <2>5. LastOf(<<set>>, {"setState"}, s)
      BY <2>4, LastSingle
    <2>6. LastOf(m.toCurrent \o <<set>>, {"setState"}, s)
      <3>1. <<set>> \in Seq(KeyPresses \cup SetStates)
        BY <2>3
      <3> QED
        BY <2>3, <2>5, <3>1, LastAdded
    <2> QED
      BY <2>2, <2>6 DEF Echoed, Coming
  <1> QED
    BY <1>1, <1>2

LEMMA EchoedStep ==
  ASSUME TInv, NotesInv, CurrentInv, [Next]_vars
  PROVE  Echoed'
  <1>0. /\ MailTyped(mail) /\ DOMAIN mail = Ways /\ SetUpInv
        /\ Opened /\ Echoed /\ Closed /\ Informed /\ Informed'
    BY InformedStep DEF TInv, MailTyped, CurrentInv, NotesInv
  <1>1. CASE ~plugin'.listening \/ mail'.toNotes # <<>> \/ notes'.pending # {}
    BY <1>1 DEF Echoed
  <1>2. ASSUME plugin'.listening = plugin.listening, current'.deck = current.deck,
               notes'.pending = notes.pending, notes'.currentState = notes.currentState,
               mail'.toNotes = mail.toNotes, mail'.toCurrent = mail.toCurrent,
               mail'.fromCurrent = mail.fromCurrent, mail'.toPresenter = mail.toPresenter
        PROVE  Echoed'
    BY <1>0, <1>2 DEF Echoed, Coming, Answered
  <1>3. ASSUME plugin' = plugin, current' = current, notes' = notes, NEW ways, OnWays(mail, mail', ways),
               {"toNotes", "toCurrent", "fromCurrent", "toPresenter"} \cap ways = {}
        PROVE  Echoed'
    BY <1>2, <1>3 DEF OnWays, Ways
  <1>4. CASE plugin' = plugin /\ current' = current /\ notes' = notes /\ mail' = mail
    BY <1>2, <1>4
  <1>5. ASSUME plugin.listening, mail.toNotes = <<>>, notes.pending = {}
        PROVE  /\ Loaded(current) /\ Sound(current.deck, Receiver)
               /\ \E s \in State : /\ notes.currentState = {s} /\ Coming(s, mail, current.deck)
                                   /\ Tells(s, presenter, TRUE) /\ Fit(s, Receiver)
    <2>1. Knows(notes.currentState)
      BY <1>0, <1>5 DEF Informed
    <2>2. PICK s \in State : notes.currentState = {s} /\ Coming(s, mail, current.deck)
      BY <1>0, <1>5 DEF Echoed
    <2>3. Tells(s, presenter, TRUE)
      BY <2>1, <2>2 DEF Knows
    <2>4. Loaded(current) /\ Sound(current.deck, Receiver)
      BY <1>0, <1>5 DEF Opened, TInv, IframeTyped
    <2> QED
      BY <2>2, <2>3, <2>4, DecksFit
  <1>6. CASE ConnectInterval
    <2> DEFINE message == [type |-> "connect", state |-> GetState(presenter)]
    <2>1. mail' = [mail EXCEPT !.toNotes = <<message>>]
      BY <1>6 DEF ConnectInterval
    <2> HIDE DEF message
    <2>2. mail'.toNotes # <<>>
      BY <1>0, <2>1 DEF Ways
    <2> QED
      BY <1>1, <2>2
  <1>7. CASE HandleConnectMessage
    <2>1. /\ plugin' = plugin /\ mail.toNotes # <<>> /\ Head(mail.toNotes).type = "connect"
          /\ mail'.toNotes = Tail(mail.toNotes)
      BY <1>0, <1>7 DEF HandleConnectMessage, Ways
    <2>2. mail.toNotes \in Seq(Connect \cup States)
      BY <1>0, MailTypes
    <2>3. plugin.listening => Tail(mail.toNotes) # <<>>
      BY <1>0, <2>1, <2>2, LastOfTail DEF Informed, LastState
    <2> QED
      BY <1>1, <2>1, <2>3
  <1>8. CASE HandleStateMessage
    <2> DEFINE rest == [mail EXCEPT !.toNotes = Tail(@)]
               s == Head(mail.toNotes).state
    <2>1. MailTyped(rest) /\ s \in State /\ plugin' = plugin
      BY <1>0, <1>8, TailTyped, Arriving DEF HandleStateMessage, Ways
    <2>2. IF notes.recent THEN notes' = [notes EXCEPT !.pending = {s}] /\ mail' = rest
          ELSE ApplyStateMessage(s, rest)
      BY <1>8 DEF HandleStateMessage
    <2> HIDE DEF rest, s
    <2>3. notes.recent => notes'.pending # {}
      BY <1>0, <2>2 DEF SetUpInv
    <2> QED
      BY <1>0, <1>1, <2>1, <2>2, <2>3, EchoedApplied
  <1>9. CASE DebounceTimeout
    <2>1. plugin' = plugin /\ current' = current
      BY <1>9 DEF DebounceTimeout
    <2>2. CASE notes.pending = {}
      <3>1. notes' = [notes EXCEPT !.recent = FALSE] /\ mail' = mail
        BY <1>9, <2>2 DEF DebounceTimeout
      <3>2. notes'.pending = notes.pending /\ notes'.currentState = notes.currentState
        BY <1>0, <3>1 DEF SetUpInv
      <3> QED
        BY <1>2, <2>1, <3>1, <3>2
    <2>3. CASE notes.pending # {}
      <3>1. PICK s \in notes.pending : ApplyStateMessage(s, mail)
        BY <1>9, <2>3 DEF DebounceTimeout
      <3>2. s \in State
        BY <3>1 DEF TInv, NotesTyped
      <3> QED
        BY <1>0, <2>1, <3>1, <3>2, EchoedApplied
    <2> QED
      BY <2>2, <2>3
  <1>10. CASE HandleRevealEvent
    <2>1. /\ plugin' = plugin /\ current' = current /\ notes' = notes
          /\ mail'.toNotes = mail.toNotes /\ mail'.toCurrent = mail.toCurrent
      <3>1. OnWays(mail, mail', {"fromCurrent", "toPresenter"})
        BY <1>0, <1>10, StepWays
      <3> QED
        BY <1>10, <3>1 DEF HandleRevealEvent, OnWays, Ways
    <2>2. CASE plugin.listening /\ mail.toNotes = <<>> /\ notes.pending = {}
      <3>1. PICK s \in State : notes.currentState = {s} /\ Coming(s, mail, current.deck)
        BY <1>5, <2>2
      <3>2. Coming(s, mail', current.deck)
        BY <1>10, <2>1, <3>1, HeardAnswered DEF Coming
      <3> QED
        BY <2>1, <3>1, <3>2 DEF Echoed
    <2> QED
      BY <1>1, <2>1, <2>2
  <1>11. CASE PresenterReceives
    <2> DEFINE q == mail.toPresenter
               x == Head(q).state
               rest == [mail EXCEPT !.toPresenter = Tail(@)]
               d == SetState(presenter, x)
               p == [d EXCEPT !.events = <<>>]
    <2>1. MailTyped(rest) /\ DOMAIN rest = Ways /\ q # <<>> /\ notes' = notes /\ current' = current
      BY <1>0, <1>11, TailTyped DEF PresenterReceives, Ways, MailTyped
    <2>2. \/ mail' = [rest EXCEPT !.toNotes = Append(@, StateMessage(GetState(presenter)))]
          \/ Head(q).type = "setState" /\ Present(d, rest) /\ plugin' = plugin
      BY <1>11 DEF PresenterReceives
    <2>3. rest.toNotes = mail.toNotes /\ rest.fromCurrent = mail.fromCurrent /\ rest.toPresenter = Tail(q)
          /\ rest.toCurrent = mail.toCurrent
      BY <1>0 DEF Ways
    <2>4. Head(q).type = "setState" => x \in State
      BY <1>11, Arriving DEF PresenterReceives
    <2>5. \A m : m = rest => m.toNotes \in Seq(Connect \cup States)
      BY <2>1, MailTypes
    <2> HIDE DEF rest
    <2>6. CASE mail' = [rest EXCEPT !.toNotes = Append(@, StateMessage(GetState(presenter)))]
      <3> DEFINE message == StateMessage(GetState(presenter))
      <3>1. message \in Connect \cup States
        BY MessageShape, PresenterTells
      <3> HIDE DEF message
      <3>2. mail'.toNotes = Append(rest.toNotes, message)
        BY <2>1, <2>6 DEF Ways, message
      <3>3. mail'.toNotes # <<>>
        BY <2>5, <3>1, <3>2
      <3> QED
        BY <1>1, <3>3
    <2>7. CASE Head(q).type = "setState" /\ Present(d, rest) /\ plugin' = plugin
      <3>1. Done(d, Config)
        BY <2>4, <2>7, PresenterFollows, Watchings
      <3>2. /\ presenter' = p /\ mail'.toPresenter = Tail(q) /\ mail'.fromCurrent = mail.fromCurrent
            /\ mail'.toCurrent = mail.toCurrent
        BY <2>1, <2>3, <2>7 DEF Present, Ways
      <3> HIDE DEF d
      <3>3. /\ mail'.toNotes = mail.toNotes \o Post(d) /\ mail.toNotes \in Seq(Connect \cup States)
            /\ Post(d) \in Seq(Connect \cup States) /\ (Post(d) = <<>> => mail'.toNotes = mail.toNotes)
        BY <2>1, <2>3, <2>7, <3>1, Presented
      <3>5. Post(d) # <<>> => mail'.toNotes # <<>>
        BY <3>3, LastOfConcat
      <3>4. CASE plugin.listening /\ mail'.toNotes = <<>> /\ notes.pending = {}
        <4>1. mail.toNotes = <<>>
          <5>1. Post(d) = <<>> /\ mail'.toNotes = <<>> /\ (Post(d) = <<>> => mail'.toNotes = mail.toNotes)
            BY <3>3, <3>4, <3>5
          <5> QED
            BY <5>1
        <4>2. PICK s \in State : notes.currentState = {s} /\ Coming(s, mail, current.deck)
          BY <1>5, <3>4, <4>1
        <4>3. Loaded(current)
          BY <1>5, <3>4, <4>1
        <4>4. Tells(s, p, TRUE)
          BY <1>0, <2>1, <2>7, <3>2, <3>4, <4>2 DEF Informed, Knows
        <4>5. Answered(s, mail, current.deck) => Answered(s, mail', current.deck)
          BY <2>1, <2>4, <2>7, <3>2, <4>3, <4>4, TakenAnswered DEF d
        <4> HIDE DEF p, q, x
        <4>6. Coming(s, mail', current.deck)
          BY <3>2, <4>2, <4>5 DEF Coming
        <4> QED
          BY <2>1, <4>2, <4>6 DEF Echoed
      <3> QED
        BY <1>1, <2>1, <2>7, <3>4
    <2> QED
      BY <2>2, <2>6, <2>7
  <1>12. CASE CurrentLoad
    <2>1. ~plugin'.listening
      BY <1>0, <1>12 DEF CurrentLoad, Show1, Opened, Loaded
    <2> QED
      BY <1>1, <2>1
  <1>13. CASE CurrentReady
    <2> DEFINE c == current.deck
               d == DispatchEvent(c, "ready")
               e == [d EXCEPT !.events = <<>>]
    <2>1. /\ Show1(d, "ready", mail) /\ plugin' = plugin /\ notes' = notes
      BY <1>13 DEF CurrentReady, Show1
    <2>2. Loaded(current)
      BY <1>13 DEF CurrentReady, Loaded
    <2>3. Sound(c, Receiver) /\ Done(d, Receiver)
      BY <2>2, CurrentHandled DEF TInv, IframeTyped
    <2>4. Follows(Forwarded, TRUE, c, d)
      <3>1. Tellable(c) /\ Faithful(c) /\ "ready" \in Announcements
        BY <2>3, SteadyTellable DEF Sound, Done, Good, Announcements
      <3> QED
        BY <3>1, DispatchTells
    <2>5. current' = [phase |-> "ready", deck |-> e] /\ mail' = [mail EXCEPT !.fromCurrent = @ \o d.events]
      BY <2>1 DEF Show1
    <2> HIDE DEF d
    <2>6. e = [d EXCEPT !.events = <<>>] /\ c.events = <<>>
      BY <2>3 DEF Sound
    <2> HIDE DEF e
    <2>7. /\ current'.deck = e /\ mail'.fromCurrent = mail.fromCurrent \o d.events
          /\ mail'.toPresenter = mail.toPresenter /\ mail'.toNotes = mail.toNotes
          /\ mail'.toCurrent = mail.toCurrent
      BY <1>0, <2>5 DEF Ways
    <2>8. CASE plugin.listening /\ mail.toNotes = <<>> /\ notes.pending = {}
      <3>1. PICK s \in State : notes.currentState = {s} /\ Coming(s, mail, c)
        BY <1>5, <2>8
      <3> HIDE DEF c
      <3>2. Answered(s, mail, c) => Answered(s, mail', e)
        <4>1. /\ c.events = <<>> /\ Done(d, Receiver) /\ Follows(Forwarded, TRUE, c, d)
              /\ e = [d EXCEPT !.events = <<>>] /\ MailTyped(mail)
              /\ mail'.fromCurrent = mail.fromCurrent \o d.events /\ mail'.toPresenter = mail.toPresenter
          BY <1>0, <2>3, <2>4, <2>6, <2>7
        <4> QED
          BY <4>1, ShownAnswered
      <3>3. Coming(s, mail', current'.deck)
        BY <2>7, <3>1, <3>2 DEF Coming
      <3> QED
        BY <2>1, <3>1, <3>3 DEF Echoed
    <2> QED
      BY <1>1, <2>1, <2>7, <2>8
  <1>14. CASE CurrentReceives
    <2>1. /\ plugin' = plugin /\ notes' = notes /\ mail'.toNotes = mail.toNotes
      <3>1. OnWays(mail, mail', {"fromCurrent", "toCurrent"})
        BY <1>0, <1>14, StepWays
      <3> QED
        BY <1>14, <3>1 DEF CurrentReceives, Show1, OnWays, Ways
    <2>2. CASE plugin.listening /\ mail.toNotes = <<>> /\ notes.pending = {}
      <3>1. PICK s \in State : /\ notes.currentState = {s} /\ Coming(s, mail, current.deck)
                               /\ Fit(s, Receiver)
        BY <1>5, <2>2
      <3>2. Coming(s, mail', current'.deck)
        BY <1>14, <3>1, ReceivedComing
      <3> QED
        BY <2>1, <3>1, <3>2 DEF Echoed
    <2> QED
      BY <1>1, <2>1, <2>2
  <1>15. ASSUME NEW key \in Keys, SpeakerKey(key) PROVE Echoed'
    <2> DEFINE d == OnDocumentKeyDown(presenter, key)
    <2>1. Done(d, Config)
      BY PresenterFollows, Watchings
    <2>2. Present(d, mail) /\ plugin' = plugin /\ notes' = notes /\ current' = current
      BY <1>15 DEF SpeakerKey
    <2> HIDE DEF d
    <2>3. /\ mail'.toNotes = mail.toNotes \o Post(d) /\ mail.toNotes \in Seq(Connect \cup States)
          /\ Post(d) \in Seq(Connect \cup States) /\ (Post(d) = <<>> => mail'.toNotes = mail.toNotes)
      BY <1>0, <2>1, <2>2, Presented
    <2>4. /\ mail'.toCurrent = mail.toCurrent /\ mail'.fromCurrent = mail.fromCurrent
          /\ mail'.toPresenter = mail.toPresenter
      <3>1. OnWays(mail, mail', {"toNotes", "toServer"})
        BY <1>0, <1>15, StepWays
      <3> QED
        BY <3>1 DEF OnWays, Ways
    <2>5. Post(d) # <<>> => mail'.toNotes # <<>>
      BY <2>3, LastOfConcat
    <2> QED
      BY <1>1, <1>2, <2>2, <2>3, <2>4, <2>5
  <1>16. ASSUME NEW key \in Keys, NotesKey(key) PROVE Echoed'
    <2> DEFINE message == [type |-> "key", key |-> key]
               sent == IF Loaded(current) THEN <<message>> ELSE <<>>
               q == mail.toCurrent
    <2>1. mail' = [mail EXCEPT !.toCurrent = @ \o sent] /\ plugin' = plugin /\ notes' = notes /\ current' = current
      BY <1>16 DEF NotesKey
    <2>2. q \in Seq(KeyPresses \cup SetStates) /\ message \in KeyPresses
      BY <1>0, MailTypes, MessageShape
    <2>3. message.type \notin {"setState"}
      OBVIOUS
    <2> HIDE DEF message
    <2>4. sent \in Seq(KeyPresses \cup SetStates) /\ NoneOf(sent, {"setState"})
      <3>1. /\ <<message>> \in Seq(KeyPresses \cup SetStates) /\ <<>> \in Seq(KeyPresses \cup SetStates)
            /\ NoneOf(<<message>>, {"setState"}) /\ NoneOf(<<>>, {"setState"})
        BY <2>2, <2>3, LastSingle
      <3> QED
        BY Zenon, <3>1
    <2> HIDE DEF sent
    <2>5. /\ mail'.toCurrent = q \o sent /\ mail'.fromCurrent = mail.fromCurrent
          /\ mail'.toPresenter = mail.toPresenter /\ mail'.toNotes = mail.toNotes
      BY <1>0, <2>1 DEF Ways
    <2>6. /\ NoneOf(q, {"setState"}) => NoneOf(q \o sent, {"setState"})
          /\ \A s : LastOf(q, {"setState"}, s) => LastOf(q \o sent, {"setState"}, s)
      <3> HIDE DEF q
      <3> QED
        BY <2>2, <2>4, LastAdded
    <2> QED
      BY <1>0, <2>1, <2>5, <2>6 DEF Echoed, Coming, Answered
  <1>17. CASE OpenNotes \/ NotesLoad
    <2>1. \/ plugin' = [plugin EXCEPT !.connecting = TRUE] /\ notes' = [notes EXCEPT !.phase = "loading"]
          \/ plugin' = plugin /\ notes' = [notes EXCEPT !.phase = "open"]
      BY <1>17 DEF OpenNotes, NotesLoad
    <2>2. /\ plugin'.listening = plugin.listening
          /\ notes'.pending = notes.pending /\ notes'.currentState = notes.currentState
      BY <1>0, <2>1 DEF TInv, PluginTyped, SetUpInv
    <2>3. mail' = mail /\ current' = current
      BY <1>17 DEF OpenNotes, NotesLoad
    <2> QED
      BY <1>2, <2>2, <2>3
  <1>18. CASE UpcomingReceives \/ ServerBroadcasts \/ AudienceReceives
    <2>1. plugin' = plugin /\ notes' = notes /\ current' = current
      BY <1>18 DEF UpcomingReceives, ServerBroadcasts, AudienceReceives
    <2>2. \E ways : /\ OnWays(mail, mail', ways)
                    /\ {"toNotes", "toCurrent", "fromCurrent", "toPresenter"} \cap ways = {}
      <3>1. /\ {"toNotes", "toCurrent", "fromCurrent", "toPresenter"} \cap {"toUpcoming"} = {}
            /\ {"toNotes", "toCurrent", "fromCurrent", "toPresenter"} \cap {"toServer", "toAudience"} = {}
            /\ {"toNotes", "toCurrent", "fromCurrent", "toPresenter"} \cap {"toAudience"} = {}
        OBVIOUS
      <3> QED
        BY <1>0, <1>18, <3>1, StepWays
    <2> QED
      BY <1>3, <2>1, <2>2
  <1>19. CASE AudienceJoins \/ UpcomingLoad \/ UNCHANGED vars
    BY <1>4, <1>19 DEF AudienceJoins, UpcomingLoad, vars
  <1> QED
    BY <1>6, <1>7, <1>8, <1>9, <1>10, <1>11, <1>12, <1>13, <1>14, <1>15, <1>16, <1>17, <1>18, <1>19
       DEF Next, Machine

LEMMA SameConfig ==
  ASSUME TInv, Loaded(current), NEW s, Tells(s, presenter, TRUE), Tells(s, current.deck, TRUE)
  PROVE  /\ current.deck.cur = presenter.cur /\ current.deck.visible = presenter.visible
         /\ current.deck.paused = presenter.paused /\ current.deck.overview = presenter.overview
  <1> DEFINE d == current.deck
  <1>1. /\ Good(d) /\ Faithful(d) /\ d.config = Receiver
        /\ Good(presenter) /\ Faithful(presenter) /\ presenter.config = Config
    BY DEF TInv, IframeTyped, Sound, Done
  <1>2. Config.fragments \in BOOLEAN /\ Receiver.fragments = Config.fragments
    BY Configured DEF Receiver, ConfigType
  <1>3. /\ Tells(s, presenter, FALSE) /\ Tells(s, d, FALSE)
        /\ d.paused = presenter.paused /\ d.overview = presenter.overview
    BY DEF Tells
  <1> HIDE DEF d
  <1>4. d.cur = presenter.cur /\ d.visible = presenter.visible
    BY <1>1, <1>2, <1>3, SameTold
  <1> QED
    BY <1>3, <1>4 DEF d

\* Whatever the deck, the keys and the order in which the windows take their messages:
\* when nothing is on its way the current slide shows what the presentation shows.
THEOREM CurrentKeepsUp == Spec => []CurrentIsSame
  <1>1. TInv /\ NotesInv /\ CurrentInv /\ [Next]_vars => TInv' /\ NotesInv' /\ CurrentInv'
    <2>1. NotesInv => Closed /\ Informed
      BY DEF NotesInv
    <2> SUFFICES ASSUME TInv, NotesInv, CurrentInv, [Next]_vars PROVE TInv' /\ NotesInv' /\ CurrentInv'
      OBVIOUS
    <2>2. TInv' /\ NotesInv'
      BY <2>1, TypeNext, ClosedStep, InformedStep DEF NotesInv
    <2>3. Opened' /\ Echoed'
      BY OpenedStep, EchoedStep DEF CurrentInv
    <2> QED
      BY <2>2, <2>3 DEF CurrentInv
  <1>2. TInv /\ NotesInv /\ CurrentInv => CurrentIsSame
    <2> SUFFICES ASSUME TInv, NotesInv, CurrentInv, plugin.listening, Quiet
                 PROVE  /\ Place(current.deck) = Place(presenter)
                        /\ current.deck.paused = presenter.paused /\ current.deck.overview = presenter.overview
      BY DEF CurrentIsSame
    <2>1. /\ mail.toNotes = <<>> /\ mail.toCurrent = <<>> /\ mail.fromCurrent = <<>>
          /\ mail.toPresenter = <<>>
      BY DEF Quiet, Delivered, TInv, MailTyped, Ways
    <2>2. notes.pending = {} /\ Knows(notes.currentState)
      BY QuietKnows
    <2>3. PICK s \in State : notes.currentState = {s} /\ Coming(s, mail, current.deck)
      BY <2>1, <2>2 DEF CurrentInv, Echoed
    <2>4. Tells(s, presenter, TRUE)
      BY <2>2, <2>3 DEF Knows
    <2>5. ~LastOf(<<>>, {"setState"}, s)
      BY DEF LastOf
    <2>6. \A types : ~Reported(<<>>, types, current.deck)
      BY DEF LastOf, Reported
    <2>7. Tells(s, current.deck, TRUE)
      BY <2>1, <2>3, <2>5, <2>6 DEF Coming, Answered
    <2>8. Loaded(current)
      BY DEF CurrentInv, Opened
    <2> QED
      BY <2>4, <2>7, <2>8, SameConfig DEF Place
  <1> QED
    BY <1>1, <1>2, TypeInit, NotesInit, CurrentInit, PTL DEF Spec
=============================================================================
