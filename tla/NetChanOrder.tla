---------------------------- MODULE NetChanOrder ----------------------------
(***************************************************************************)
(* What the consumer of a net-chan connection gets, for any set of         *)
(* messages and any way the stream may break: no holes, nothing missing    *)
(* while both ends are up, everything when the sender has closed.          *)
(***************************************************************************)
EXTENDS NetChanProofs, SequenceTheorems

(* What has reached the world of the receiver, received or not. *)
Taken == got \o inWorld

(* The receive loop of the receiver takes no more messages. *)
Dead == Over(loop["R"]) \/ inWorld = <<Fault>>

(* A break has lost nothing: there was none, or CLOSE is still on its way. *)
Whole == ~broken \/ \E i \in DOMAIN wire["R"] : wire["R"][i].op = "CLOSE"

(* What was written is taken, on its way, or lost by the break, in this order. *)
Flow ==
  ~Dead => \E rest, lost \in Seq(Messages) :
             /\ written = Taken \o (rest \o lost)
             /\ Carries(wire["R"], rest)
             /\ Whole => lost = <<>>

(* What was taken is where the writing began. *)
Prefixed == \E after \in Seq(Messages) : written = Read(Taken) \o after

-----------------------------------------------------------------------------
(***************************************************************************)
(* What packets carry                                                      *)
(***************************************************************************)

MsgAt(packets) == {i \in DOMAIN packets : packets[i].op = "MSG"}

LEMMA CarriesIs ==
  ASSUME NEW packets, NEW messages
  PROVE  Carries(packets, messages) <=>
           /\ \A i \in MsgAt(packets) : \E k \in DOMAIN messages : packets[i].msg = messages[k]
           /\ \A k \in DOMAIN messages : \E i \in MsgAt(packets) : packets[i].msg = messages[k]
           /\ \A i, j \in MsgAt(packets), k, l \in DOMAIN messages :
                i < j /\ packets[i].msg = messages[k] /\ packets[j].msg = messages[l] => k < l
  BY DEF Carries, MsgAt

(* No packets, no messages; no messages, no packets with one. *)
LEMMA CarriesNothing ==
  ASSUME NEW packets \in Seq(Packet), NEW messages \in Seq(Messages), Carries(packets, messages)
  PROVE  MsgAt(packets) = {} <=> messages = <<>>
  <1>1. messages = <<>> <=> DOMAIN messages = {}
    OBVIOUS
  <1> QED
    BY <1>1, CarriesIs

LEMMA NothingCarried == Carries(<<>>, <<>>)
  BY DEF Carries

(* A packet of another kind is written or read. *)
LEMMA CarriesAppendOther ==
  ASSUME NEW packets \in Seq(Packet), NEW messages \in Seq(Messages), Carries(packets, messages),
         NEW p \in Packet, p.op # "MSG"
  PROVE  Carries(Append(packets, p), messages)
  <1> DEFINE longer == Append(packets, p)
  <1>1. /\ DOMAIN longer = 1..Len(packets) + 1 /\ DOMAIN packets = 1..Len(packets) /\ Len(packets) \in Nat
        /\ longer[Len(packets) + 1] = p /\ \A i \in DOMAIN packets : longer[i] = packets[i]
    OBVIOUS
  <1>2. MsgAt(longer) = MsgAt(packets) /\ \A i \in MsgAt(packets) : longer[i] = packets[i]
    BY <1>1 DEF MsgAt
  <1> HIDE DEF longer
  <1>3. Carries(longer, messages)
    <2>1. /\ \A i \in MsgAt(packets) : \E k \in DOMAIN messages : packets[i].msg = messages[k]
          /\ \A k \in DOMAIN messages : \E i \in MsgAt(packets) : packets[i].msg = messages[k]
      BY CarriesIs
    <2>2. \A i, j \in MsgAt(packets), k, l \in DOMAIN messages :
            i < j /\ packets[i].msg = messages[k] /\ packets[j].msg = messages[l] => k < l
      BY CarriesIs
    <2>3. /\ \A i \in MsgAt(longer) : \E k \in DOMAIN messages : longer[i].msg = messages[k]
          /\ \A k \in DOMAIN messages : \E i \in MsgAt(longer) : longer[i].msg = messages[k]
      BY <1>2, <2>1
    <2>4. \A i, j \in MsgAt(longer), k, l \in DOMAIN messages :
            i < j /\ longer[i].msg = messages[k] /\ longer[j].msg = messages[l] => k < l
      BY <1>2, <2>2
    <2> QED
      BY <2>3, <2>4, CarriesIs
  <1> QED
    BY <1>3 DEF longer

LEMMA TailAt ==
  ASSUME NEW packets \in Seq(Packet), packets # <<>>
  PROVE  /\ DOMAIN packets = 1..Len(packets) /\ Len(packets) \in Nat \ {0}
         /\ DOMAIN Tail(packets) = 1..Len(packets) - 1
         /\ Head(packets) = packets[1]
         /\ \A i \in MsgAt(Tail(packets)) :
              i \in Nat /\ i + 1 \in MsgAt(packets) /\ Tail(packets)[i] = packets[i + 1]
         /\ \A j \in MsgAt(packets) : j = 1 \/ (j - 1 \in MsgAt(Tail(packets)) /\ packets[j] = Tail(packets)[j - 1])
         /\ 1 \in MsgAt(packets) <=> Head(packets).op = "MSG"
  <1> DEFINE shorter == Tail(packets)
  <1>1. /\ Len(packets) \in Nat \ {0} /\ DOMAIN packets = 1..Len(packets)
        /\ DOMAIN shorter = 1..Len(packets) - 1 /\ Head(packets) = packets[1]
        /\ \A i \in 1..Len(packets) - 1 : shorter[i] = packets[i + 1]
    OBVIOUS
  <1>2. \A j \in 2..Len(packets) : j - 1 \in 1..Len(packets) - 1 /\ packets[j] = shorter[j - 1]
    BY <1>1
  <1> HIDE DEF shorter
  <1>3. \A i \in MsgAt(shorter) : i \in Nat /\ i + 1 \in MsgAt(packets) /\ shorter[i] = packets[i + 1]
    BY <1>1 DEF MsgAt
  <1>4. \A j \in MsgAt(packets) : j = 1 \/ (j - 1 \in MsgAt(shorter) /\ packets[j] = shorter[j - 1])
    BY <1>1, <1>2 DEF MsgAt
  <1>5. 1 \in MsgAt(packets) <=> Head(packets).op = "MSG"
    BY <1>1 DEF MsgAt
  <1> QED
    BY <1>1, <1>3, <1>4, <1>5 DEF shorter

LEMMA CarriesTailOther ==
  ASSUME NEW packets \in Seq(Packet), packets # <<>>, Head(packets).op # "MSG",
         NEW messages \in Seq(Messages), Carries(packets, messages)
  PROVE  Carries(Tail(packets), messages)
  <1>a. \A i \in MsgAt(packets) : \E k \in DOMAIN messages : packets[i].msg = messages[k]
    BY CarriesIs
  <1>b. \A k \in DOMAIN messages : \E i \in MsgAt(packets) : packets[i].msg = messages[k]
    BY CarriesIs
  <1>c. \A i, j \in MsgAt(packets), k, l \in DOMAIN messages :
          i < j /\ packets[i].msg = messages[k] /\ packets[j].msg = messages[l] => k < l
    BY CarriesIs
  <1> DEFINE shorter == Tail(packets)
  <1>1. \A i \in MsgAt(shorter) : i \in Nat /\ i + 1 \in MsgAt(packets) /\ shorter[i] = packets[i + 1]
    BY TailAt
  <1>2. \A j \in MsgAt(packets) : j - 1 \in MsgAt(shorter) /\ packets[j] = shorter[j - 1]
    BY TailAt
  <1> HIDE DEF shorter
  <1>3. \A i \in MsgAt(shorter) : \E k \in DOMAIN messages : shorter[i].msg = messages[k]
    BY <1>1, <1>a
  <1>4. \A k \in DOMAIN messages : \E i \in MsgAt(shorter) : shorter[i].msg = messages[k]
    BY <1>2, <1>b
  <1>5. ASSUME NEW i \in MsgAt(shorter), NEW j \in MsgAt(shorter), NEW k \in DOMAIN messages, NEW l \in DOMAIN messages,
               i < j, shorter[i].msg = messages[k], shorter[j].msg = messages[l]
        PROVE  k < l
    <2>1. i + 1 < j + 1
      BY <1>1, <1>5
    <2> QED
      BY <1>1, <1>5, <2>1, <1>c
  <1>6. Carries(shorter, messages)
    BY <1>3, <1>4, <1>5, CarriesIs
  <1> QED
    BY <1>6 DEF shorter

(* A message is written ... *)
LEMMA CarriesAppend ==
  ASSUME NEW packets \in Seq(Packet), NEW messages \in Seq(Messages), Carries(packets, messages),
         NEW m \in Messages, m \notin ToSet(messages)
  PROVE  Carries(Append(packets, Msg(m)), Append(messages, m))
  <1>a. \A i \in MsgAt(packets) : \E k \in DOMAIN messages : packets[i].msg = messages[k]
    BY CarriesIs
  <1>b. \A k \in DOMAIN messages : \E i \in MsgAt(packets) : packets[i].msg = messages[k]
    BY CarriesIs
  <1>c. \A i, j \in MsgAt(packets), k, l \in DOMAIN messages :
          i < j /\ packets[i].msg = messages[k] /\ packets[j].msg = messages[l] => k < l
    BY CarriesIs
  <1> DEFINE longer == Append(packets, Msg(m))
             more == Append(messages, m)
             p == Len(packets)
             n == Len(messages)
  <1>0. Msg(m).op = "MSG" /\ Msg(m).msg = m
    BY DEF Msg
  <1>1. /\ DOMAIN longer = 1..p + 1 /\ DOMAIN packets = 1..p /\ p \in Nat
        /\ longer[p + 1] = Msg(m) /\ \A i \in 1..p : longer[i] = packets[i]
    OBVIOUS
  <1>2. /\ DOMAIN more = 1..n + 1 /\ DOMAIN messages = 1..n /\ n \in Nat
        /\ more[n + 1] = m /\ \A k \in 1..n : more[k] = messages[k] /\ messages[k] # m
    BY DEF ToSet
  <1> HIDE DEF longer, more, p, n
  <1>3. /\ p + 1 \in MsgAt(longer) /\ longer[p + 1].msg = m
        /\ \A i \in MsgAt(packets) : i \in MsgAt(longer) /\ longer[i].msg = packets[i].msg
        /\ \A i \in MsgAt(longer) : i = p + 1 \/ (i \in MsgAt(packets) /\ i < p + 1)
        /\ \A i \in MsgAt(packets) : packets[i].msg # m
    <2>1. p + 1 \in MsgAt(longer) /\ longer[p + 1].msg = m
      BY <1>0, <1>1 DEF MsgAt
    <2>2. \A i \in MsgAt(packets) : i \in MsgAt(longer) /\ longer[i].msg = packets[i].msg
      BY <1>1 DEF MsgAt
    <2>3. \A i \in MsgAt(longer) : i = p + 1 \/ (i \in MsgAt(packets) /\ i < p + 1)
      BY <1>1 DEF MsgAt
    <2>4. \A i \in MsgAt(packets) : packets[i].msg # m
      BY <1>2, <1>a
    <2> QED
      BY <2>1, <2>2, <2>3, <2>4
  <1>4. \A i \in MsgAt(longer) : \E k \in DOMAIN more : longer[i].msg = more[k]
    <2>1. \A i \in MsgAt(packets) : \E k \in 1..n : packets[i].msg = messages[k]
      BY <1>2, <1>a
    <2>2. n + 1 \in 1..n + 1 /\ \A k \in 1..n : k \in 1..n + 1
      BY <1>2
    <2> QED
      BY <1>2, <1>3, <2>1, <2>2
  <1>5. \A k \in DOMAIN more : \E i \in MsgAt(longer) : longer[i].msg = more[k]
    <2>1. \A k \in 1..n : \E i \in MsgAt(packets) : packets[i].msg = messages[k]
      BY <1>2, <1>b
    <2>2. \A k \in 1..n + 1 : k = n + 1 \/ k \in 1..n
      BY <1>2
    <2> QED
      BY <1>2, <1>3, <2>1, <2>2
  <1>6. ASSUME NEW i \in MsgAt(longer), NEW j \in MsgAt(longer), NEW k \in DOMAIN more, NEW l \in DOMAIN more,
               i < j, longer[i].msg = more[k], longer[j].msg = more[l]
        PROVE  k < l
    <2>1. p + 1 \in Nat /\ i # p + 1 /\ i \in MsgAt(packets) /\ longer[i].msg = packets[i].msg
      <3>1. i \in 1..p + 1 /\ j \in 1..p + 1
        BY <1>1, <1>6 DEF MsgAt
      <3> QED
        BY <1>1, <1>3, <1>6, <3>1
    <2>0. (k = n + 1 \/ k \in 1..n) /\ (l = n + 1 \/ l \in 1..n)
      BY <1>2
    <2>2. k \in 1..n /\ more[k] = messages[k]
      <3>1. packets[i].msg # m
        BY <1>3, <2>1
      <3>2. k # n + 1
        BY <1>2, <1>6, <2>1, <3>1
      <3> QED
        BY <1>2, <2>0, <3>2
    <2>3. CASE j = p + 1
      <3>2. l = n + 1
        BY <1>2, <1>3, <1>6, <2>0, <2>3
      <3> QED
        BY <1>2, <2>2, <3>2
    <2>4. CASE j \in MsgAt(packets)
      <3>1. longer[j].msg = packets[j].msg /\ l \in 1..n /\ more[l] = messages[l]
        BY <1>2, <1>3, <1>6, <2>4
      <3> QED
        BY <1>2, <1>6, <2>1, <2>2, <2>4, <3>1, <1>c
    <2> QED
      BY <1>3, <2>3, <2>4
  <1>7. Carries(longer, more)
    BY <1>4, <1>5, <1>6, CarriesIs
  <1> QED
    BY <1>7 DEF longer, more

(* ... and read: it is the one that was written first. *)
LEMMA CarriesTail ==
  ASSUME NEW packets \in Seq(Packet), packets # <<>>, Head(packets).op = "MSG",
         NEW messages \in Seq(Messages), Distinct(messages), Carries(packets, messages)
  PROVE  /\ messages # <<>> /\ Head(packets).msg = Head(messages)
         /\ Carries(Tail(packets), Tail(messages))
  <1>a. \A i \in MsgAt(packets) : \E k \in DOMAIN messages : packets[i].msg = messages[k]
    BY CarriesIs
  <1>b. \A k \in DOMAIN messages : \E i \in MsgAt(packets) : packets[i].msg = messages[k]
    BY CarriesIs
  <1>c. \A i, j \in MsgAt(packets), k, l \in DOMAIN messages :
          i < j /\ packets[i].msg = messages[k] /\ packets[j].msg = messages[l] => k < l
    BY CarriesIs
  <1> DEFINE shorter == Tail(packets)
             fewer == Tail(messages)
             n == Len(messages)
  <1>1. \A i \in MsgAt(shorter) : i \in Nat /\ i + 1 \in MsgAt(packets) /\ shorter[i] = packets[i + 1]
    BY TailAt
  <1>2. \A j \in MsgAt(packets) : j = 1 \/ (j - 1 \in MsgAt(shorter) /\ packets[j] = shorter[j - 1])
    BY TailAt
  <1>3. 1 \in MsgAt(packets) /\ Head(packets) = packets[1]
    BY TailAt
  <1>4. messages # <<>> /\ DOMAIN messages = 1..n /\ n \in Nat \ {0}
    <2>1. messages # <<>>
      BY <1>3, CarriesNothing
    <2> QED
      BY <2>1
  <1>5. /\ DOMAIN fewer = 1..n - 1 /\ Head(messages) = messages[1]
        /\ \A k \in 1..n - 1 : fewer[k] = messages[k + 1]
    BY <1>4
  <1>6. \A k \in 2..n : k - 1 \in 1..n - 1 /\ messages[k] = fewer[k - 1]
    BY <1>4, <1>5
  <1> HIDE DEF shorter, fewer, n
  <1>7. \A j \in MsgAt(packets) : j \in Nat \ {0}
    BY TailAt DEF MsgAt
  <1>8. packets[1].msg = messages[1]
    <2>1. PICK k \in 1..n : packets[1].msg = messages[k]
      BY <1>3, <1>4, <1>a
    <2>2. PICK i \in MsgAt(packets) : packets[i].msg = messages[1]
      BY <1>4, <1>b
    <2>3. CASE i = 1
      BY <2>2, <2>3
    <2>4. CASE i # 1
      <3>1. 1 < i
        BY <1>7, <2>4
      <3>2. k < 1
        BY <1>3, <1>4, <2>1, <2>2, <3>1, <1>c
      <3> QED
        BY <3>2
    <2> QED
      BY <2>3, <2>4
  <1>9. \A i \in MsgAt(shorter), k \in DOMAIN messages : shorter[i].msg = messages[k] => k \in 2..n
    <2> SUFFICES ASSUME NEW i \in MsgAt(shorter), NEW k \in DOMAIN messages, shorter[i].msg = messages[k]
                 PROVE  k \in 2..n
      OBVIOUS
    <2>0. i + 1 \in MsgAt(packets) /\ i + 1 \in Nat \ {0} /\ i + 1 # 1 /\ shorter[i] = packets[i + 1]
      <3>1. i \in Nat \ {0}
        BY TailAt DEF MsgAt, shorter
      <3> QED
        BY <1>1, <3>1
    <2>1. 1 < i + 1
      BY <2>0
    <2>2. 1 < k
      BY <1>3, <1>4, <1>8, <2>0, <2>1, <1>c
    <2> QED
      BY <1>4, <2>2
  <1>10. \A i \in MsgAt(shorter) : \E k \in DOMAIN fewer : shorter[i].msg = fewer[k]
    <2> SUFFICES ASSUME NEW i \in MsgAt(shorter) PROVE \E k \in DOMAIN fewer : shorter[i].msg = fewer[k]
      OBVIOUS
    <2>1. PICK k \in DOMAIN messages : shorter[i].msg = messages[k]
      BY <1>1, <1>a
    <2>2. k \in 2..n
      BY <1>9, <2>1
    <2> QED
      BY <1>5, <1>6, <2>1, <2>2
  <1>11. \A k \in DOMAIN fewer : \E i \in MsgAt(shorter) : shorter[i].msg = fewer[k]
    <2> SUFFICES ASSUME NEW k \in 1..n - 1 PROVE \E i \in MsgAt(shorter) : shorter[i].msg = fewer[k]
      BY <1>5
    <2>1. k + 1 \in 1..n /\ k + 1 # 1 /\ fewer[k] = messages[k + 1]
      BY <1>4, <1>5
    <2>2. PICK i \in MsgAt(packets) : packets[i].msg = messages[k + 1]
      BY <1>4, <2>1, <1>b
    <2>3. messages[1] # messages[k + 1]
      BY <1>4, <2>1 DEF Distinct
    <2>4. i # 1
      BY <1>8, <2>2, <2>3
    <2> QED
      BY <1>2, <2>1, <2>2, <2>4
  <1>12. ASSUME NEW i \in MsgAt(shorter), NEW j \in MsgAt(shorter), NEW k \in DOMAIN fewer, NEW l \in DOMAIN fewer,
                i < j, shorter[i].msg = fewer[k], shorter[j].msg = fewer[l]
         PROVE  k < l
    <2>1. i + 1 < j + 1 /\ i + 1 \in MsgAt(packets) /\ j + 1 \in MsgAt(packets)
          /\ shorter[i] = packets[i + 1] /\ shorter[j] = packets[j + 1]
      BY <1>1, <1>12
    <2>2. k \in 1..n - 1 /\ l \in 1..n - 1 /\ k + 1 \in 1..n /\ l + 1 \in 1..n
          /\ fewer[k] = messages[k + 1] /\ fewer[l] = messages[l + 1]
      BY <1>4, <1>5
    <2>3. packets[i + 1].msg = messages[k + 1] /\ packets[j + 1].msg = messages[l + 1]
      BY <1>12, <2>1, <2>2
    <2>4. \A a, b \in MsgAt(packets), c, d \in 1..n :
            a < b /\ packets[a].msg = messages[c] /\ packets[b].msg = messages[d] => c < d
      BY <1>4, <1>c
    <2>5. k + 1 < l + 1
      BY <2>1, <2>2, <2>3, <2>4
    <2> QED
      BY <2>2, <2>5
  <1>13. Carries(shorter, fewer)
    BY <1>10, <1>11, <1>12, CarriesIs
  <1> QED
    BY <1>3, <1>4, <1>5, <1>8, <1>13 DEF shorter, fewer

-----------------------------------------------------------------------------
(***************************************************************************)
(* The flow of messages                                                    *)
(***************************************************************************)

Items == Messages \cup {Fault}

LEMMA Singletons == \A S, e : e \in S => <<e>> \in Seq(S)
  OBVIOUS

LEMMA TakenType ==
  ASSUME TypeInv
  PROVE  /\ got \in Seq(Items) /\ inWorld \in Seq(Items) /\ Taken \in Seq(Items)
         /\ written \in Seq(Messages) /\ written \in Seq(Items)
  <1> USE DEF TypeInv, TypeOK, ReceiverOK, SenderOK
  <1>1. inWorld \in Seq(Items)
    <2>1. inWorld = <<>> \/ \E e \in Items : inWorld = <<e>>
      BY DEF AtMostOne, Items
    <2> QED
      BY <2>1, Singletons, EmptySeq, ZenonT(40)
  <1>2. written \in Seq(Items)
    BY SeqMonotonic DEF Items
  <1>3. got \in Seq(Items)
    BY DEF Items
  <1>4. Taken \in Seq(Items)
    BY <1>1, <1>3, ConcatProperties DEF Taken
  <1> QED
    BY <1>1, <1>2, <1>3, <1>4

LEMMA MessageSeqs == \A s \in Seq(Messages) : s \in Seq(Items)
  BY SeqMonotonic DEF Items

LEMMA AppendItems ==
  ASSUME NEW s \in Seq(Items), NEW t \in Seq(Items), NEW e \in Messages
  PROVE  Append(s \o t, e) = s \o Append(t, e)
  <1>0. e \in Items
    BY DEF Items
  <1>1. s \o t \in Seq(Items) /\ <<e>> \in Seq(Items)
    BY <1>0, ConcatProperties, Singletons
  <1>2. Append(s \o t, e) = (s \o t) \o <<e>>
    BY <1>0, <1>1, AppendIsConcat
  <1>3. Append(t, e) = t \o <<e>>
    BY <1>0, AppendIsConcat
  <1> QED
    BY <1>1, <1>2, <1>3, ConcatAssociative

(* The first of the rest is taken. *)
LEMMA HeadFirst ==
  ASSUME NEW t \in Seq(Items), NEW u \in Seq(Items), t # <<>>
  PROVE  t \o u = <<Head(t)>> \o (Tail(t) \o u)
  OBVIOUS

LEMMA AddFirst ==
  ASSUME NEW s \in Seq(Items), NEW w \in Seq(Items), NEW item \in Items
  PROVE  s \o (<<item>> \o w) = Append(s, item) \o w
  BY SMTT(30)

LEMMA MoveHead ==
  ASSUME NEW s \in Seq(Items), NEW t \in Seq(Items), NEW u \in Seq(Items), t # <<>>
  PROVE  s \o (t \o u) = Append(s, Head(t)) \o (Tail(t) \o u)
  <1>1. Head(t) \in Items /\ Tail(t) \o u \in Seq(Items)
    BY HeadTailProperties, ConcatProperties
  <1>2. t \o u = <<Head(t)>> \o (Tail(t) \o u)
    BY HeadFirst, Zenon
  <1>3. \A w \in Seq(Items) : s \o (<<Head(t)>> \o w) = Append(s, Head(t)) \o w
    BY <1>1, AddFirst, ZenonT(30)
  <1>4. s \o (<<Head(t)>> \o (Tail(t) \o u)) = Append(s, Head(t)) \o (Tail(t) \o u)
    BY <1>1, <1>3, Zenon
  <1> QED
    BY <1>2, <1>4, Zenon

(* An exception at the end is not a message, and nothing else is one. *)
LEMMA ReadIs ==
  ASSUME NEW items \in Seq(Items)
  PROVE  /\ (\A i \in DOMAIN items : items[i] # Fault) => Read(items) = items
         /\ Read(Append(items, Fault)) = items
  <1>1. (\A i \in DOMAIN items : items[i] # Fault) => Read(items) = items
    <2>1. items # <<>> => Len(items) \in DOMAIN items
      OBVIOUS
    <2> QED
      BY <2>1 DEF Read, Last
  <1>2. Read(Append(items, Fault)) = items
    <2> DEFINE longer == Append(items, Fault)
    <2>1. longer # <<>> /\ Len(longer) = Len(items) + 1 /\ longer[Len(items) + 1] = Fault
          /\ longer \in Seq(Items) /\ Len(items) \in Nat
      BY DEF Items
    <2>2. Last(longer) = Fault /\ Front(longer) = SubSeq(longer, 1, Len(items))
      BY <2>1 DEF Last, Front
    <2>3. SubSeq(longer, 1, Len(items)) = items
      <3>1. \A i \in 1..Len(items) : longer[i] = items[i] /\ items[i] \in Items
        OBVIOUS
      <3> HIDE DEF longer
      <3>2. /\ SubSeq(longer, 1, Len(items)) \in Seq(Items)
            /\ Len(SubSeq(longer, 1, Len(items))) = Len(items)
            /\ \A i \in 1..Len(items) : SubSeq(longer, 1, Len(items))[i] = longer[i]
        BY <2>1, <3>1
      <3> QED
        BY <3>1, <3>2, SeqEqual
    <2> HIDE DEF longer
    <2>4. Read(longer) = items
      BY <2>1, <2>2, <2>3 DEF Read
    <2> QED
      BY <2>4 DEF longer
  <1> QED
    BY <1>1, <1>2

(* What is the beginning of the messages written has no exception in it. *)
LEMMA NoFault ==
  ASSUME NEW items \in Seq(Items), NEW after \in Seq(Items), NEW all \in Seq(Messages), all = items \o after
  PROVE  \A i \in DOMAIN items : items[i] # Fault
  <1>1. /\ Len(all) = Len(items) + Len(after) /\ Len(items) \in Nat /\ Len(after) \in Nat
        /\ DOMAIN items = 1..Len(items)
        /\ \A i \in 1..Len(items) : all[i] = items[i]
    BY ConcatProperties
  <1>2. \A i \in 1..Len(items) : all[i] \in Messages
    BY <1>1
  <1> QED
    BY <1>1, <1>2, MessageAssumption

-----------------------------------------------------------------------------
(***************************************************************************)
(* What else happens on the connection                                     *)
(***************************************************************************)

Chatter == {"OPEN", "ACK", "PING", "PONG", "ERR"}

(* A step that writes or reads no message for the receiver, and no CLOSE,  *)
(* or leaves it reading no more.                                           *)
Chats ==
  \/ wire'["R"] = wire["R"]
  \/ \E op \in Chatter : wire'["R"] = Append(wire["R"], Simple(op))
  \/ /\ wire["R"] # <<>> /\ wire'["R"] = Tail(wire["R"])
     /\ Head(wire["R"]).op \in Chatter \/ loop["R"] = "accept" \/ Over(loop'["R"])

Carrying == PipeSend \/ PipeClose \/ OnMsgReceived \/ CallbackEnds \/ ReceiverOnCloseReceived \/ Break

(* A loop that is over stays over, and after CLOSE as it is. *)
LEMMA OverStays ==
  ASSUME TypeInv, [Next]_vars, Over(loop["R"])
  PROVE  Over(loop'["R"]) /\ (loop["R"] = "closed" => loop'["R"] = "closed")
  <1> USE DEF TypeInv, TypeOK, Over
  <1>1. ASSUME NEW y \in Side, ~Over(loop[y]), NEW next, loop' = [loop EXCEPT ![y] = next]
        PROVE  Over(loop'["R"]) /\ (loop["R"] = "closed" => loop'["R"] = "closed")
    BY <1>1 DEF ConnectionOK, Side
  <1>2. CASE Handshake
    <2>1. client \in Side /\ Other(client) \in Side
      BY OtherSide DEF ConnectionOK
    <2>2. CASE HandshakeClientOpen
      BY <1>1, <2>1, <2>2 DEF HandshakeClientOpen
    <2>3. CASE HandshakeServer
      BY <1>1, <2>1, <2>3 DEF HandshakeServer, Started
    <2>4. CASE HandshakeClientAck
      BY <1>1, <2>1, <2>4 DEF HandshakeClientAck, Started
    <2> QED
      BY <1>2, <2>2, <2>3, <2>4 DEF Handshake
  <1>3. ASSUME NEW y \in Side, LoopStep(y) PROVE Over(loop'["R"]) /\ (loop["R"] = "closed" => loop'["R"] = "closed")
    BY <1>1, <1>3 DEF LoopStep, EndOfStream, OnPingReceived, OnPongReceived, OnAckReceived, OnErrReceived, Reads
  <1>4. CASE SenderOnCloseReceived \/ SenderLoopEnd
    BY <1>1, <1>4 DEF SenderOnCloseReceived, SenderLoopEnd, Reads, Side
  <1>5. CASE OnMsgReceived \/ CallbackEnds
    <2>1. loop["R"] \in {"reading", "callback"}
      BY <1>5 DEF OnMsgReceived, CallbackEnds, Reads
    <2> QED
      BY <1>1, <1>5, <2>1, MsgLoop DEF Side
  <1>8. CASE SendAck \/ ReceiverOnCloseReceived
    BY <1>1, <1>8 DEF SendAck, ReceiverOnCloseReceived, Reads, Side
  <1>9. CASE StartReceiverClose
    <2>1. loop["R"] = "leaving" /\ \E next \in {"failed", "ended"} : loop' = [loop EXCEPT !["R"] = next]
      BY <1>9 DEF StartReceiverClose
    <2> QED
      BY <2>1 DEF ConnectionOK, Side
  <1>6. CASE ReceiveAsync
    <2>1. UNCHANGED loop
      BY <1>6 DEF ReceiveAsync, ReceiverOK
    <2> QED
      BY <2>1
  <1>7. CASE PingLoop \/ PipeWorldSend \/ StartSender \/ SenderClose \/ UserClose \/ ReceiverClose
             \/ (\E m \in Messages : SendAsync(m)) \/ Break \/ UNCHANGED vars
    <2>1. UNCHANGED loop
      BY <1>7 DEF PingLoop, SendPing, PingTimeout, PingEnd, PipeWorldSend, PipeReceive, PipeSend, PipeClose,
                  StartSender, StartClose, StartCancel, StartEnd, SenderClose, UserCloseCancel, CloseWorldEnd,
                  UserClose, ReceiverClose, SendAsync, Break, vars
    <2> QED
      BY <2>1
  <1> QED
    BY <1>2, <1>3, <1>4, <1>5, <1>6, <1>7, <1>8, <1>9 DEF Next, SenderLoop, ReceiverLoop, Side

(* A write of side x is one more packet for the other side, or nothing. *)
LEMMA WriteFor ==
  ASSUME TypeInv, NEW x \in Side, NEW packet, NEW result, Write(x, packet, result)
  PROVE  /\ x = "R" => wire'["R"] = wire["R"]
         /\ x = "S" => wire'["R"] = wire["R"] \/ wire'["R"] = Append(wire["R"], packet)
  BY DEF TypeInv, TypeOK, ConnectionOK, Write, Side, Other

LEMMA HandshakeChats == TypeInv /\ Handshake => Chats
  <1> SUFFICES ASSUME TypeInv, Handshake PROVE Chats
    OBVIOUS
  <1> USE DEF TypeInv, TypeOK, ConnectionOK, Chatter
  <1>1. CASE HandshakeClientOpen
    <2>1. PICK result : Write(client, Simple("OPEN"), result)
      BY <1>1 DEF HandshakeClientOpen
    <2> QED
      BY <2>1, WriteFor DEF Chats, Side
  <1>2. CASE HandshakeServer
    <2>1. PICK result : wire' = [wire EXCEPT
            ![Other(client)] = Tail(@),
            ![client] = IF result = "ok" /\ ~broken
                          THEN Append(@, Simple(IF keyMatches THEN "ACK" ELSE "ERR")) ELSE @]
      BY <1>2 DEF HandshakeServer
    <2>2. loop[Other(client)] = "accept" /\ wire[Other(client)] # <<>>
      BY <1>2 DEF HandshakeServer
    <2>3. CASE client = "S"
      <3>1. wire'["R"] = Tail(wire["R"])
        BY <2>1, <2>3 DEF Side, Other
      <3> QED
        BY <2>2, <2>3, <3>1 DEF Chats, Other
    <2>4. CASE client = "R"
      <3>1. wire'["R"] = IF result = "ok" /\ ~broken
                           THEN Append(wire["R"], Simple(IF keyMatches THEN "ACK" ELSE "ERR")) ELSE wire["R"]
        BY <2>1, <2>4 DEF Side, Other
      <3> QED
        BY <3>1 DEF Chats
    <2> QED
      BY <2>3, <2>4 DEF Side
  <1>3. CASE HandshakeClientAck
    <2>1. wire[client] # <<>> /\ Consume(client)
          /\ (Head(wire[client]).op = "ACK" \/ loop' = [loop EXCEPT ![client] = "failed"])
      BY <1>3 DEF HandshakeClientAck
    <2>2. CASE client = "S"
      BY <2>1, <2>2 DEF Chats, Consume
    <2>3. CASE client = "R"
      <3>1. wire'["R"] = Tail(wire["R"]) /\ (Head(wire["R"]).op = "ACK" \/ Over(loop'["R"]))
        BY <2>1, <2>3 DEF Consume, Side, Over
      <3> QED
        BY <2>1, <2>3, <3>1 DEF Chats
    <2> QED
      BY <2>2, <2>3 DEF Side
  <1> QED
    BY <1>1, <1>2, <1>3 DEF Handshake

LEMMA LoopChats == ASSUME TypeInv, NEW x \in Side, LoopStep(x) PROVE Chats
  <1> USE DEF TypeInv, TypeOK, ConnectionOK, Chatter
  <1>1. CASE EndOfStream(x)
    BY <1>1 DEF EndOfStream, Chats
  <1>2. CASE OnPingReceived(x)
    <2>1. wire[x] # <<>> /\ Head(wire[x]).op = "PING"
      BY <1>2 DEF OnPingReceived, Reads
    <2>2. PICK result : wire' = [wire EXCEPT ![x] = Tail(@),
                                   ![Other(x)] = IF result = "ok" /\ ~broken
                                                   THEN Append(@, Simple("PONG")) ELSE @]
      BY <1>2 DEF OnPingReceived
    <2>3. CASE x = "R"
      <3>1. wire'["R"] = Tail(wire["R"])
        BY <2>2, <2>3 DEF Side, Other
      <3> QED
        BY <2>1, <2>3, <3>1 DEF Chats
    <2>4. CASE x = "S"
      <3>1. wire'["R"] = IF result = "ok" /\ ~broken THEN Append(wire["R"], Simple("PONG")) ELSE wire["R"]
        BY <2>2, <2>4 DEF Side, Other
      <3> QED
        BY <3>1 DEF Chats
    <2> QED
      BY <2>3, <2>4 DEF Side
  <1>3. CASE OnPongReceived(x) \/ OnAckReceived(x) \/ OnErrReceived(x)
    <2>1. wire[x] # <<>> /\ Head(wire[x]).op \in Chatter /\ Consume(x)
      BY <1>3 DEF OnPongReceived, OnAckReceived, OnErrReceived, Reads
    <2> QED
      BY <2>1 DEF Consume, Chats, Side
  <1> QED
    BY <1>1, <1>2, <1>3 DEF LoopStep

LEMMA NextChats == ASSUME TypeInv, [Next]_vars, ~Carrying PROVE Chats
  <1> USE DEF TypeInv, TypeOK, ConnectionOK, Chatter
  <1>1. CASE SendPing
    <2>1. PICK result : Write(client, Simple("PING"), result)
      BY <1>1 DEF SendPing
    <2> QED
      BY <2>1, WriteFor DEF Chats, Side
  <1>2. CASE SendAck \/ StartReceiverClose \/ ReceiverClose
    <2>1. \E packet, result : Write("R", packet, result)
      BY <1>2 DEF SendAck, StartReceiverClose, ReceiverClose
    <2> QED
      BY <2>1, WriteFor DEF Chats, Side
  <1>3. CASE SenderOnCloseReceived
    BY <1>3 DEF SenderOnCloseReceived, Consume, Chats, Side
  <1>4. CASE PingTimeout \/ PingEnd \/ SenderLoopEnd \/ PipeReceive \/ StartSender \/ SenderClose \/ UserClose
             \/ (\E m \in Messages : SendAsync(m)) \/ ReceiveAsync \/ UNCHANGED vars
    <2>1. UNCHANGED wire
      BY <1>4 DEF PingTimeout, PingEnd, SenderLoopEnd, PipeReceive, StartSender, StartClose, StartCancel, StartEnd,
                  SenderClose, UserCloseCancel, CloseWorldEnd, UserClose, SendAsync, ReceiveAsync, vars
    <2> QED
      BY <2>1 DEF Chats
  <1> QED
    BY <1>1, <1>2, <1>3, <1>4, HandshakeChats, LoopChats
    DEF Next, SenderLoop, ReceiverLoop, PingLoop, PipeWorldSend, Carrying, Side

(* Such a step leaves what was written and taken, and does not mend the stream. *)
LEMMA TakenKept ==
  ASSUME TypeInv, [Next]_vars, ~PipeSend, ~OnMsgReceived, ~CallbackEnds
  PROVE  UNCHANGED written /\ Taken' = Taken
  <1>1. CASE ReceiveAsync
    <2>1. UNCHANGED written /\ got' \o inWorld' = got \o inWorld
      <3>1. CASE inWorld = <<>>
        BY <1>1, <3>1 DEF ReceiveAsync, senderVars
      <3>2. CASE inWorld # <<>>
        <4>1. got' = Taken /\ inWorld' = <<>> /\ UNCHANGED written
          BY <1>1, <3>2 DEF ReceiveAsync, senderVars, Taken
        <4> QED
          BY <4>1, TakenType, ConcatEmptySeq DEF Taken
      <3> QED
        BY <3>1, <3>2
    <2> QED
      BY <2>1 DEF Taken
  <1>2. CASE ~ReceiveAsync
    <2>1. UNCHANGED <<written, got, inWorld>>
      BY <1>2 DEF Next, Handshake, HandshakeClientOpen, HandshakeServer, HandshakeClientAck,
         SenderLoop, ReceiverLoop, LoopStep, EndOfStream, OnPingReceived, OnPongReceived,
         OnAckReceived, OnErrReceived, SenderOnCloseReceived, SenderLoopEnd,
         SendAck, ReceiverOnCloseReceived, StartReceiverClose, PingLoop, SendPing, PingTimeout, PingEnd,
         PipeWorldSend, PipeReceive, PipeClose, SendAsync,
         StartSender, StartClose, StartCancel, StartEnd, SenderClose, UserCloseCancel,
         CloseWorldEnd, UserClose, ReceiverClose, Break,
         vars, senderVars, receiverVars
    <2> QED
      BY <2>1 DEF Taken
  <1> QED
    BY <1>1, <1>2

LEMMA StaysBroken == TypeInv /\ [Next]_vars => ((broken => stream' # "up") /\ (stream' # stream => Break))
  BY MessageAssumption
  DEF Next, Handshake, HandshakeClientOpen, HandshakeServer, HandshakeClientAck,
      SenderLoop, ReceiverLoop, LoopStep, EndOfStream, OnPingReceived, OnPongReceived,
      OnAckReceived, OnErrReceived, SenderOnCloseReceived, SenderLoopEnd, OnMsgReceived,
      SendAck, ReceiverOnCloseReceived, StartReceiverClose, PingLoop, SendPing, PingTimeout, PingEnd,
      PipeWorldSend, PipeReceive, PipeSend, PipeClose, SendAsync,
      StartSender, StartClose, StartCancel, StartEnd, SenderClose, UserCloseCancel,
      CloseWorldEnd, UserClose, ReceiveAsync, CallbackEnds, ReceiverClose, Break, broken, vars

LEMMA StaysDead ==
  ASSUME TypeInv, [Next]_vars, Dead
  PROVE  Dead'
  <1> USE DEF TypeInv, TypeOK
  <1>1. CASE Over(loop["R"])
    BY <1>1, OverStays DEF Dead
  <1>2. CASE inWorld = <<Fault>>
    <2>1. inWorld # <<>> /\ loop["R"] = "deliver"
      BY <1>2 DEF ReceiverOK
    <2>2. CASE ReceiveAsync
      <3>1. \E next \in {"failed", "leaving"} : loop' = [loop EXCEPT !["R"] = next]
        BY <1>2, <2>1, <2>2 DEF ReceiveAsync, AfterDelivery
      <3> QED
        BY <3>1 DEF Dead, Over, ConnectionOK, Side
    <2>3. CASE ~ReceiveAsync
      <3>1. UNCHANGED inWorld
        BY <2>1, <2>3 DEF Next, Handshake, HandshakeClientOpen, HandshakeServer, HandshakeClientAck,
           SenderLoop, ReceiverLoop, LoopStep, EndOfStream, OnPingReceived, OnPongReceived,
           OnAckReceived, OnErrReceived, SenderOnCloseReceived, SenderLoopEnd, OnMsgReceived, Reads,
           SendAck, ReceiverOnCloseReceived, StartReceiverClose, PingLoop, SendPing, PingTimeout, PingEnd,
           PipeWorldSend, PipeReceive, PipeSend, PipeClose, SendAsync,
           StartSender, StartClose, StartCancel, StartEnd, SenderClose, UserCloseCancel,
           CloseWorldEnd, UserClose, CallbackEnds, ReceiverClose, Break,
           vars, senderVars, receiverVars
      <3> QED
        BY <1>2, <3>1 DEF Dead
    <2> QED
      BY <2>2, <2>3
  <1> QED
    BY <1>1, <1>2 DEF Dead

-----------------------------------------------------------------------------
(***************************************************************************)
(* CLOSE is the last packet                                                *)
(***************************************************************************)

(* CLOSE is the last that PipeWorldSend writes. *)
CloseLast ==
  \A i \in DOMAIN wire["R"] :
    wire["R"][i].op = "CLOSE" =>
      pipe = "ended" /\ \A j \in DOMAIN wire["R"] : j > i => wire["R"][j].op # "MSG"

LEMMA CloseLastInit == Init => CloseLast
  BY DEF Init, CloseLast, Side

(* What PipeWorldSend, the world and SendAsync have to do with each other. *)
LEMMA PipeMoves ==
  ASSUME TypeInv, [Next]_vars
  PROVE  /\ addingDone => addingDone'
         /\ \A x \in Side : token'[x] => token[x]
         /\ \/ UNCHANGED <<pipe, queue, sendTask>>
            \/ pipe = "off" /\ pipe' = "receive" /\ UNCHANGED sendTask
            \/ PipeReceive \/ PipeSend \/ PipeClose
            \/ \E m \in Messages : SendAsync(m)
            \/ \E k \in Closer : CloseWorldEnd(k)
  <1> USE DEF TypeInv, TypeOK
  <1>1. addingDone => addingDone'
    BY DEF Next, Handshake, HandshakeClientOpen, HandshakeServer, HandshakeClientAck,
       SenderLoop, ReceiverLoop, LoopStep, EndOfStream, OnPingReceived, OnPongReceived,
       OnAckReceived, OnErrReceived, SenderOnCloseReceived, SenderLoopEnd, OnMsgReceived,
       SendAck, ReceiverOnCloseReceived, StartReceiverClose, PingLoop, SendPing, PingTimeout, PingEnd,
       PipeWorldSend, PipeReceive, PipeSend, PipeClose, SendAsync,
       StartSender, StartClose, StartCancel, StartEnd, SenderClose, UserCloseCancel,
       CloseWorldEnd, UserClose, ReceiveAsync, CallbackEnds, ReceiverClose, Break, CloseWorld,
       vars, senderVars, worldVars
  <1>2. UNCHANGED token \/ \E y \in Side : token' = [token EXCEPT ![y] = FALSE]
    BY DEF Next, Handshake, HandshakeClientOpen, HandshakeServer, HandshakeClientAck,
       SenderLoop, ReceiverLoop, LoopStep, EndOfStream, OnPingReceived, OnPongReceived,
       OnAckReceived, OnErrReceived, SenderOnCloseReceived, SenderLoopEnd, OnMsgReceived,
       SendAck, ReceiverOnCloseReceived, StartReceiverClose, PingLoop, SendPing, PingTimeout, PingEnd,
       PipeWorldSend, PipeReceive, PipeSend, PipeClose, SendAsync,
       StartSender, StartClose, StartCancel, StartEnd, SenderClose, UserCloseCancel,
       CloseWorldEnd, UserClose, ReceiveAsync, CallbackEnds, ReceiverClose, Break, vars, ConnectionOK, Side
  <1>3. \A x \in Side : token'[x] => token[x]
    BY <1>2 DEF ConnectionOK
  <1>4. ASSUME NEW x \in Side, loop[x] \in Early, Started(x) \/ UNCHANGED pipe
        PROVE  UNCHANGED pipe \/ (pipe = "off" /\ pipe' = "receive")
    BY <1>4 DEF Started, NotYetSending, Early
  <1>5. CASE Handshake
    <2>1. UNCHANGED <<queue, sendTask>>
      BY <1>5 DEF Handshake, HandshakeClientOpen, HandshakeServer, HandshakeClientAck, senderVars, worldVars
    <2>2. client \in Side /\ Other(client) \in Side
      BY OtherSide DEF ConnectionOK
    <2>3. UNCHANGED pipe \/ (pipe = "off" /\ pipe' = "receive")
      <3>1. CASE HandshakeClientOpen
        BY <3>1 DEF HandshakeClientOpen, senderVars
      <3>2. CASE HandshakeServer
        BY <1>4, <2>2, <3>2 DEF HandshakeServer, Early
      <3>3. CASE HandshakeClientAck
        BY <1>4, <2>2, <3>3 DEF HandshakeClientAck, Early
      <3> QED
        BY <1>5, <3>1, <3>2, <3>3 DEF Handshake
    <2> QED
      BY <1>1, <1>3, <2>1, <2>3
  <1>6. CASE ~Handshake
    <2>1. \/ UNCHANGED <<pipe, queue, sendTask>>
          \/ PipeReceive \/ PipeSend \/ PipeClose
          \/ \E m \in Messages : SendAsync(m)
          \/ \E k \in Closer : CloseWorldEnd(k)
      BY <1>6 DEF Next, 
         SenderLoop, ReceiverLoop, LoopStep, EndOfStream, OnPingReceived, OnPongReceived,
         OnAckReceived, OnErrReceived, SenderOnCloseReceived, SenderLoopEnd, OnMsgReceived,
         SendAck, ReceiverOnCloseReceived, StartReceiverClose, PingLoop, SendPing, PingTimeout, PingEnd,
         PipeWorldSend, StartSender, StartClose, StartCancel, StartEnd, SenderClose, UserCloseCancel,
         UserClose, ReceiveAsync, CallbackEnds, ReceiverClose, Break, vars, senderVars, worldVars
    <2> QED
      BY <1>1, <1>3, <2>1
  <1> QED
    BY <1>5, <1>6

(* What OnMsgReceived and what it awaits leave on the wire to the receiver. *)
LEMMA MsgConsumes == ASSUME TypeInv, OnMsgReceived PROVE wire'["R"] = Tail(wire["R"])
  <1> USE DEF TypeInv, TypeOK, ConnectionOK
  <1>1. "R" \in Side /\ Tail(wire["R"]) \in Seq(Packet)
    BY DEF OnMsgReceived, Reads, Side
  <1>2. CASE Consume("R")
    BY <1>1, <1>2 DEF Consume
  <1>3. CASE SendFault([wire EXCEPT !["R"] = Tail(@)])
    <2>1. PICK packets : packets = [wire EXCEPT !["R"] = Tail(@)]
      OBVIOUS
    <2>2. packets \in [Side -> Seq(Packet)] /\ packets["R"] = Tail(wire["R"])
      BY <1>1, <2>1
    <2>3. SendFault(packets)
      BY <1>3, <2>1
    <2> QED
      BY <2>2, <2>3, FaultIs DEF Side
  <1> QED
    BY <1>2, <1>3 DEF OnMsgReceived

LEMMA CallbackWire == ASSUME TypeInv, CallbackEnds PROVE wire'["R"] = wire["R"]
  <1> USE DEF TypeInv, TypeOK, ConnectionOK
  <1>1. CASE SendFault(wire)
    BY <1>1, FaultIs DEF Side
  <1> QED
    BY <1>1 DEF CallbackEnds

(* Nothing is written after CLOSE. *)
LEMMA CloseStaysLast ==
  ASSUME TypeInv, CloseLast, [Next]_vars
  PROVE  CloseLast'
  <1> USE DEF TypeInv, TypeOK
  <1> DEFINE old == wire["R"]
             new == wire'["R"]
  <1>1. old \in Seq(Packet) /\ DOMAIN old = 1..Len(old) /\ Len(old) \in Nat
    BY DEF ConnectionOK, Side
  <1>2. pipe = "ended" => pipe' = "ended"
    <2>1. SUFFICES ASSUME pipe = "ended" PROVE UNCHANGED pipe
      OBVIOUS
    <2>2. ~PipeReceive /\ ~PipeSend /\ ~PipeClose
      BY <2>1 DEF PipeReceive, PipeSend, PipeClose
    <2>3. ASSUME NEW m \in Messages, SendAsync(m) PROVE UNCHANGED pipe
      BY <2>1, <2>3 DEF SendAsync
    <2>4. ASSUME NEW k \in Closer, CloseWorldEnd(k) PROVE UNCHANGED pipe
      BY <2>1, <2>4 DEF CloseWorldEnd
    <2> QED
      BY <2>1, <2>2, <2>3, <2>4, PipeMoves
  <1>3. /\ CloseLast <=> \A i \in 1..Len(old) : old[i].op = "CLOSE" =>
             pipe = "ended" /\ \A j \in 1..Len(old) : j > i => old[j].op # "MSG"
        /\ CloseLast' <=> \A i \in DOMAIN new : new[i].op = "CLOSE" =>
             pipe' = "ended" /\ \A j \in DOMAIN new : j > i => new[j].op # "MSG"
    BY <1>1 DEF CloseLast
  <1> HIDE DEF old, new
  <1>4. CASE new = old
    BY <1>1, <1>2, <1>3, <1>4
  <1>5. CASE new = <<>>
    BY <1>3, <1>5
  <1>6. CASE old # <<>> /\ new = Tail(old)
    <2>1. DOMAIN new = 1..Len(old) - 1 /\ \A i \in 1..Len(old) - 1 : new[i] = old[i + 1] /\ i + 1 \in 1..Len(old)
      BY <1>1, <1>6
    <2>2. \A i, j \in 1..Len(old) - 1 : j > i => j + 1 > i + 1
      BY <1>1
    <2> QED
      BY <1>2, <1>3, <2>1, <2>2
  <1>7. ASSUME NEW p \in Packet, new = Append(old, p),
               p.op = "CLOSE" => pipe' = "ended", p.op = "MSG" => pipe # "ended"
        PROVE  CloseLast'
    <2>1. /\ DOMAIN new = 1..Len(old) + 1 /\ new[Len(old) + 1] = p
          /\ \A i \in 1..Len(old) : new[i] = old[i]
      BY <1>1, <1>7
    <2>2. \A i \in 1..Len(old) + 1 : i = Len(old) + 1 \/ i \in 1..Len(old)
      BY <1>1
    <2>3. \A i \in 1..Len(old) + 1 : ~(i > Len(old) + 1)
      BY <1>1
    <2> QED
      BY <1>2, <1>3, <1>7, <2>1, <2>2, <2>3
  <1>8. CASE ~Carrying
    <2>1. \A op \in Chatter : Simple(op) \in Packet /\ Simple(op).op \notin {"CLOSE", "MSG"}
      BY SimpleType DEF Simple, Chatter
    <2>2. new = old \/ (\E op \in Chatter : new = Append(old, Simple(op))) \/ (old # <<>> /\ new = Tail(old))
      BY <1>8, NextChats DEF Chats, old, new
    <2> QED
      BY <1>4, <1>6, <1>7, <2>1, <2>2
  <1>9. CASE PipeSend
    <2>1. Head(current) \in Messages
      BY <1>9 DEF PipeSend, SenderOK, AtMostOne
    <2>2. Msg(Head(current)) \in Packet /\ Msg(Head(current)).op = "MSG"
      BY <2>1 DEF Msg, Packet
    <2>3. new = old \/ new = Append(old, Msg(Head(current)))
      BY <1>9, WriteFor DEF PipeSend, Side, old, new
    <2>4. pipe = "send"
      BY <1>9 DEF PipeSend
    <2> QED
      BY <1>4, <1>7, <2>2, <2>3, <2>4
  <1>10. CASE PipeClose
    <2>1. Simple("CLOSE") \in Packet /\ Simple("CLOSE").op = "CLOSE"
      BY SimpleType DEF Simple
    <2>2. new = old \/ (new = Append(old, Simple("CLOSE")) /\ pipe' = "ended")
      BY <1>10 DEF PipeClose, Write, Other, ConnectionOK, Side, old, new
    <2> QED
      BY <1>4, <1>7, <2>1, <2>2
  <1>11. CASE ReceiverOnCloseReceived
    <2>1. old # <<>> /\ new = Tail(old)
      BY <1>11 DEF ReceiverOnCloseReceived, Reads, Consume, ConnectionOK, Side, old, new
    <2> QED
      BY <1>6, <2>1
  <1>13. CASE OnMsgReceived
    <2>1. old # <<>>
      BY <1>13 DEF OnMsgReceived, Reads, old
    <2> QED
      BY <1>6, <1>13, <2>1, MsgConsumes DEF old, new
  <1>14. CASE CallbackEnds
    BY <1>4, <1>14, CallbackWire DEF old, new
  <1>12. CASE Break
    <2>1. new = old \/ new = <<>>
      BY <1>12 DEF Break, ConnectionOK, Side, old, new
    <2> QED
      BY <1>4, <1>5, <2>1
  <1> QED
    BY <1>8, <1>9, <1>10, <1>11, <1>12, <1>13, <1>14 DEF Carrying

-----------------------------------------------------------------------------
(***************************************************************************)
(* NoHoles and NothingMissing                                              *)
(***************************************************************************)

(* Before the handshake of the receiver nothing has been written. *)
Accepting ==
  /\ loop["R"] = "accept" => client = "S" /\ pipe = "off"
  /\ pipe = "off" => written = <<>>

FlowInv == Accepting /\ Flow /\ Prefixed

LEMMA FlowInit == Init => FlowInv
  <1> SUFFICES ASSUME Init PROVE FlowInv
    OBVIOUS
  <1>1. got = <<>> /\ inWorld = <<>> /\ written = <<>> /\ wire["R"] = <<>> /\ Taken = <<>>
    BY EmptySeq, ConcatEmptySeq DEF Init, Side, Taken
  <1>2. <<>> \in Seq(Messages) /\ <<>> \o <<>> = <<>>
    BY EmptySeq, ConcatEmptySeq
  <1>3. Flow
    <2>1. written = Taken \o (<<>> \o <<>>) /\ Carries(wire["R"], <<>>)
      BY <1>1, <1>2, NothingCarried
    <2> QED
      BY <1>2, <2>1 DEF Flow
  <1>4. Read(Taken) = <<>>
    BY <1>1 DEF Read
  <1>5. Prefixed
    BY <1>1, <1>2, <1>4 DEF Prefixed
  <1>6. Accepting
    BY <1>1 DEF Init, Accepting, Side
  <1> QED
    BY <1>3, <1>5, <1>6 DEF FlowInv

(* PipeWorldSend starts with the handshake of the sender. *)
LEMMA PipeStarts ==
  ASSUME TypeInv, [Next]_vars, ~Handshake
  PROVE  pipe' = "off" <=> pipe = "off"
  BY DEF Next, SenderLoop, ReceiverLoop, LoopStep, EndOfStream, OnPingReceived, OnPongReceived,
     OnAckReceived, OnErrReceived, SenderOnCloseReceived, SenderLoopEnd, OnMsgReceived,
     SendAck, ReceiverOnCloseReceived, StartReceiverClose, PingLoop, SendPing, PingTimeout, PingEnd,
     PipeWorldSend, PipeReceive, PipeSend, AfterSend, WriteResults, PipeClose, SendAsync,
     StartSender, StartClose, StartCancel, StartEnd, SenderClose, UserCloseCancel,
     CloseWorldEnd, UserClose, ReceiveAsync, CallbackEnds, ReceiverClose, Break,
     vars, senderVars

LEMMA AcceptStays ==
  ASSUME TypeInv, [Next]_vars, loop'["R"] = "accept"
  PROVE  loop["R"] = "accept" /\ UNCHANGED client
  <1> USE DEF TypeInv, TypeOK
  <1>1. UNCHANGED client
    BY DEF Next, Handshake, HandshakeClientOpen, HandshakeServer, HandshakeClientAck,
       SenderLoop, ReceiverLoop, LoopStep, EndOfStream, OnPingReceived, OnPongReceived,
       OnAckReceived, OnErrReceived, SenderOnCloseReceived, SenderLoopEnd, OnMsgReceived,
       SendAck, ReceiverOnCloseReceived, StartReceiverClose, PingLoop, SendPing, PingTimeout, PingEnd,
       PipeWorldSend, PipeReceive, PipeSend, PipeClose, SendAsync,
       StartSender, StartClose, StartCancel, StartEnd, SenderClose, UserCloseCancel,
       CloseWorldEnd, UserClose, ReceiveAsync, CallbackEnds, ReceiverClose, Break, connVars, vars
  <1> SUFFICES loop["R"] = "accept"
    BY <1>1
  <1>2. ASSUME NEW y \in Side, NEW next, next # "accept", loop' = [loop EXCEPT ![y] = next]
        PROVE  loop["R"] = "accept"
    BY <1>2 DEF ConnectionOK, Side
  <1>3. CASE Handshake
    <2>1. client \in Side /\ Other(client) \in Side
      BY OtherSide DEF ConnectionOK
    <2>2. CASE HandshakeClientOpen
      BY <1>2, <2>1, <2>2 DEF HandshakeClientOpen
    <2>3. CASE HandshakeServer
      BY <1>2, <2>1, <2>3 DEF HandshakeServer, Started, ReceiveHeader
    <2>4. CASE HandshakeClientAck
      BY <1>2, <2>1, <2>4 DEF HandshakeClientAck, Started, ReceiveHeader
    <2> QED
      BY <1>3, <2>2, <2>3, <2>4 DEF Handshake
  <1>4. ASSUME NEW y \in Side, LoopStep(y) PROVE loop["R"] = "accept"
    <2>1. CASE EndOfStream(y)
      BY <1>2, <2>1 DEF EndOfStream
    <2>2. CASE OnPingReceived(y)
      <3>1. PICK next \in {"reading", "ended", "failed"} : loop' = [loop EXCEPT ![y] = next]
        BY <2>2 DEF OnPingReceived, WriteResults
      <3> QED
        BY <1>2, <3>1
    <2>3. CASE OnPongReceived(y) \/ OnAckReceived(y) \/ OnErrReceived(y)
      BY <1>2, <2>3 DEF OnPongReceived, OnAckReceived, OnErrReceived, ReceiveHeader
    <2> QED
      BY <1>4, <2>1, <2>2, <2>3 DEF LoopStep
  <1>5. CASE SenderOnCloseReceived \/ SenderLoopEnd
    BY <1>2, <1>5 DEF SenderOnCloseReceived, SenderLoopEnd, Side
  <1>6. CASE OnMsgReceived \/ CallbackEnds
    <2>1. "accept" \notin AfterMsg
      BY DEF AfterMsg
    <2> QED
      BY <1>2, <1>6, <2>1, MsgLoop DEF Side
  <1>10. CASE ReceiverOnCloseReceived \/ StartReceiverClose
    <2>1. \E next \in {"closed", "failed", "ended"} : loop' = [loop EXCEPT !["R"] = next]
      BY <1>10 DEF ReceiverOnCloseReceived, StartReceiverClose
    <2> QED
      BY <1>2, <2>1 DEF Side
  <1>7. CASE SendAck
    <2>1. PICK next \in {"reading", "ended", "failed"} : loop' = [loop EXCEPT !["R"] = next]
      BY <1>7 DEF SendAck, WriteResults
    <2> QED
      BY <1>2, <2>1 DEF Side
  <1>8. CASE ReceiveAsync
    <2>1. UNCHANGED loop \/ \E next \in {"failed", "leaving", "callback"} : loop' = [loop EXCEPT !["R"] = next]
      BY <1>8 DEF ReceiveAsync, AfterDelivery
    <2> QED
      BY <1>2, <2>1 DEF Side
  <1>9. CASE PingLoop \/ PipeWorldSend \/ StartSender \/ SenderClose \/ UserClose \/ ReceiverClose
             \/ (\E m \in Messages : SendAsync(m)) \/ Break \/ UNCHANGED vars
    <2>1. UNCHANGED loop
      BY <1>9 DEF PingLoop, SendPing, PingTimeout, PingEnd, PipeWorldSend, PipeReceive, PipeSend, PipeClose,
                  StartSender, StartClose, StartCancel, StartEnd, SenderClose, UserCloseCancel, CloseWorldEnd,
                  UserClose, ReceiverClose, SendAsync, Break, vars
    <2> QED
      BY <2>1
  <1> QED
    BY <1>1, <1>3, <1>4, <1>5, <1>6, <1>7, <1>8, <1>9, <1>10 DEF Next, SenderLoop, ReceiverLoop, Side

LEMMA AcceptNext ==
  ASSUME TypeInv, PingInv, Accepting, [Next]_vars
  PROVE  Accepting'
  <1> USE DEF TypeInv, TypeOK, ConnectionOK
  <1>1. written' = <<>> \/ pipe' # "off"
    <2>1. CASE Handshake
      BY <2>1 DEF Handshake, HandshakeClientOpen, HandshakeServer, HandshakeClientAck, Started, Accepting, senderVars
    <2>2. CASE ~Handshake
      <3>1. SUFFICES ASSUME pipe' = "off" PROVE written' = <<>>
        OBVIOUS
      <3>2. pipe = "off" /\ ~PipeSend
        BY <2>2, <3>1, PipeStarts DEF PipeSend
      <3>3. UNCHANGED written
        BY <2>2, <3>2, SenderUntouched DEF SendAsync, PipeWorldSend, PipeReceive, PipeClose
      <3> QED
        BY <3>2, <3>3 DEF Accepting
    <2> QED
      BY <2>1, <2>2
  <1>2. ASSUME loop'["R"] = "accept" PROVE client' = "S" /\ pipe' = "off"
    <2>1. loop["R"] = "accept" /\ client = "S" /\ client' = "S" /\ pipe = "off" /\ Other(client) = "R"
      BY <1>2, AcceptStays DEF Accepting, Other
    <2>2. wire["S"] = <<>>
      BY <2>1 DEF PingInv, Handshaking
    <2>3. CASE Handshake
      <3>1. ~HandshakeClientAck
        BY <2>1, <2>2 DEF HandshakeClientAck
      <3>2. HandshakeClientOpen
        <4>1. HandshakeServer => loop'["R"] # "accept"
          BY <2>1 DEF HandshakeServer, Started, ReceiveHeader, Side
        <4> QED
          BY <1>2, <2>3, <3>1, <4>1 DEF Handshake
      <3> QED
        BY <2>1, <3>2 DEF HandshakeClientOpen, senderVars
    <2>4. CASE ~Handshake
      BY <2>1, <2>4, PipeStarts
    <2> QED
      BY <2>1, <2>3, <2>4
  <1> QED
    BY <1>1, <1>2 DEF Accepting

(* What is taken of the beginning of what is written is messages only. *)
LEMMA FlowPrefixed ==
  ASSUME TypeInv, Flow, ~Dead
  PROVE  Read(Taken) = Taken /\ Prefixed
  <1>1. PICK rest \in Seq(Messages), lost \in Seq(Messages) : written = Taken \o (rest \o lost)
    BY DEF Flow
  <1>2. rest \o lost \in Seq(Messages)
    BY ConcatProperties
  <1>3. \A i \in DOMAIN Taken : Taken[i] # Fault
    BY <1>1, <1>2, TakenType, MessageSeqs, NoFault
  <1>4. Read(Taken) = Taken
    BY <1>3, TakenType, ReadIs
  <1> QED
    BY <1>1, <1>2, <1>4 DEF Prefixed

LEMMA WholeKept ==
  ASSUME UNCHANGED stream, wire["R"] \in Seq(Packet),
         \/ wire'["R"] = wire["R"]
         \/ \E p \in Packet : p.op # "CLOSE" /\ wire'["R"] = Append(wire["R"], p)
         \/ wire["R"] # <<>> /\ wire'["R"] = Tail(wire["R"])
  PROVE  Whole' => Whole
  <1> DEFINE old == wire["R"]
             new == wire'["R"]
  <1>1. /\ Whole <=> ~broken \/ \E i \in DOMAIN old : old[i].op = "CLOSE"
        /\ Whole' <=> ~broken \/ \E i \in DOMAIN new : new[i].op = "CLOSE"
    BY DEF Whole, broken
  <1> HIDE DEF old, new
  <1>2. old \in Seq(Packet) /\ DOMAIN old = 1..Len(old) /\ Len(old) \in Nat
    BY DEF old
  <1>3. CASE new = old
    BY <1>1, <1>3
  <1>4. ASSUME NEW p \in Packet, p.op # "CLOSE", new = Append(old, p)
        PROVE  Whole' => Whole
    <2>1. \A i \in DOMAIN new : new[i] = p \/ (i \in DOMAIN old /\ new[i] = old[i])
      BY <1>2, <1>4
    <2> QED
      BY <1>1, <1>4, <2>1
  <1>5. CASE old # <<>> /\ new = Tail(old)
    <2>1. \A i \in DOMAIN new : i + 1 \in DOMAIN old /\ new[i] = old[i + 1]
      BY <1>2, <1>5
    <2> QED
      BY <1>1, <2>1
  <1> QED
    BY <1>3, <1>4, <1>5 DEF old, new

(* Packets of another kind do not disturb the flow. *)
LEMMA ChatFlows ==
  ASSUME TypeInv, FlowInv, [Next]_vars, ~Carrying
  PROVE  Flow' /\ Prefixed'
  <1> USE DEF FlowInv
  <1>1. UNCHANGED written /\ Taken' = Taken /\ UNCHANGED stream /\ wire["R"] \in Seq(Packet)
    BY TakenKept, StaysBroken DEF Carrying, TypeInv, TypeOK, ConnectionOK, Side
  <1>2. Prefixed'
    BY <1>1 DEF Prefixed
  <1>3. SUFFICES ASSUME ~Dead' PROVE Flow'
    BY <1>2 DEF Flow
  <1>4. ~Dead /\ ~Over(loop'["R"])
    BY <1>3, StaysDead DEF Dead
  <1>5. PICK rest \in Seq(Messages), lost \in Seq(Messages) :
          written = Taken \o (rest \o lost) /\ Carries(wire["R"], rest) /\ (Whole => lost = <<>>)
    BY <1>4 DEF Flow
  <1>7. Whole' => Whole
    <2>1. \A op \in Chatter : Simple(op) \in Packet /\ Simple(op).op # "CLOSE"
      BY SimpleType DEF Simple, Chatter
    <2> QED
      BY <1>1, <2>1, NextChats, WholeKept DEF Chats
  <1>6. Carries(wire'["R"], rest)
    <2>1. CASE wire'["R"] = wire["R"]
      BY <1>5, <2>1
    <2>2. ASSUME NEW op \in Chatter, wire'["R"] = Append(wire["R"], Simple(op))
          PROVE  Carries(wire'["R"], rest)
      <3>1. Simple(op) \in Packet /\ Simple(op).op # "MSG"
        BY SimpleType DEF Simple, Chatter
      <3> QED
        BY <1>1, <1>5, <2>2, <3>1, CarriesAppendOther
    <2>3. CASE wire["R"] # <<>> /\ wire'["R"] = Tail(wire["R"]) /\
               (Head(wire["R"]).op \in Chatter \/ loop["R"] = "accept")
      <3>1. Head(wire["R"]).op # "MSG"
        <4>1. SUFFICES ASSUME loop["R"] = "accept", Head(wire["R"]).op = "MSG" PROVE FALSE
          BY <2>3 DEF Chatter
        <4>2. Taken \o (rest \o lost) = <<>>
          BY <1>5, <4>1 DEF Accepting
        <4>3. rest = <<>>
          <5>1. rest \in Seq(Items) /\ lost \in Seq(Items) /\ rest \o lost \in Seq(Items)
            BY MessageSeqs, ConcatProperties
          <5>2. rest \o lost = <<>>
            BY <4>2, <5>1, TakenType, ConcatEqualIffEmpty
          <5> QED
            BY <5>1, <5>2, ConcatEqualIffEmpty
        <4>4. MsgAt(wire["R"]) = {}
          BY <1>1, <1>5, <4>3, CarriesNothing
        <4> QED
          BY <1>1, <2>3, <4>1, <4>4, TailAt
      <3> QED
        BY <1>1, <1>5, <2>3, <3>1, CarriesTailOther
    <2> QED
      BY <1>4, <2>1, <2>2, <2>3, NextChats DEF Chats
  <1> QED
    BY <1>1, <1>5, <1>6, <1>7 DEF Flow

(* PipeWorldSend writes a message, or tries to. *)
LEMMA SendFlows ==
  ASSUME TypeInv, TaskInv, CloseLast, FlowInv, [Next]_vars, PipeSend
  PROVE  Flow' /\ Prefixed'
  <1> USE DEF FlowInv, TypeInv, TypeOK
  <1> DEFINE m == Head(current)
  <1>1. m \in Messages /\ current = <<m>>
    BY DEF PipeSend, SenderOK, AtMostOne
  <1>2. Taken' = Taken /\ UNCHANGED stream /\ (Dead' <=> Dead)
    BY DEF PipeSend, receiverVars, Taken, Dead
  <1>3. m \notin ToSet(written)
    <2>1. m \in ToSet(current)
      BY <1>1, FewSet
    <2>2. sendTask[m] = "open"
      BY <1>1, <2>1 DEF TaskInv, SendTaskIsTrue
    <2> QED
      BY <1>1, <2>2 DEF TaskInv, SendTaskIsTrue
  <1>4. PICK result \in {"ok", "failed", "cancelled"} :
          /\ Write("S", Msg(m), result)
          /\ written' = IF result = "ok" THEN Append(written, m) ELSE written
    BY DEF PipeSend, WriteResults
  <1>5. wire["R"] \in Seq(Packet) /\
        wire'["R"] = IF result = "ok" /\ ~broken THEN Append(wire["R"], Msg(m)) ELSE wire["R"]
    BY <1>4 DEF Write, ConnectionOK, Side, Other
  <1> HIDE DEF m
  <1>6. CASE result # "ok"
    BY <1>2, <1>4, <1>5, <1>6 DEF Flow, Prefixed, Whole, broken
  <1>7. CASE result = "ok"
    <2>1. written' = Append(written, m)
      BY <1>4, <1>7
    <2>2. Prefixed'
      <3>1. PICK after \in Seq(Messages) : written = Read(Taken) \o after
        BY DEF Prefixed
      <3>2. Read(Taken) \in Seq(Items)
        BY TakenType DEF Read, Front
      <3>3. Append(written, m) = Read(Taken) \o Append(after, m)
        BY <1>1, <3>1, <3>2, MessageSeqs, AppendItems
      <3>4. Append(after, m) \in Seq(Messages)
        BY <1>1
      <3> QED
        BY <1>2, <2>1, <3>3, <3>4 DEF Prefixed
    <2>3. SUFFICES ASSUME ~Dead PROVE Flow'
      BY <1>2, <2>2 DEF Flow
    <2>4. PICK rest \in Seq(Messages), lost \in Seq(Messages) :
            written = Taken \o (rest \o lost) /\ Carries(wire["R"], rest) /\ (Whole => lost = <<>>)
      BY <2>3 DEF Flow
    <2>5. rest \in Seq(Items) /\ lost \in Seq(Items) /\ rest \o lost \in Seq(Items) /\ m \in Items
      BY <1>1, MessageSeqs, ConcatProperties DEF Items
    <2>6. Append(written, m) = Taken \o (rest \o Append(lost, m))
      <3>1. Append(rest \o lost, m) = rest \o Append(lost, m)
        BY <1>1, <2>5, AppendItems
      <3>2. Append(Taken \o (rest \o lost), m) = Taken \o Append(rest \o lost, m)
        BY <1>1, <2>5, TakenType, AppendItems, ZenonT(40)
      <3> QED
        BY <2>4, <3>1, <3>2
    <2>7. CASE broken
      <3>2. \A i \in DOMAIN wire["R"] : wire["R"][i].op # "CLOSE"
        BY DEF PipeSend, CloseLast
      <3>1. Append(lost, m) \in Seq(Messages) /\ wire'["R"] = wire["R"] /\ ~Whole'
        BY <1>1, <1>2, <1>5, <2>7, <3>2 DEF broken, Whole
      <3> QED
        BY <1>2, <2>1, <2>4, <2>6, <3>1 DEF Flow
    <2>8. CASE ~broken
      <3>1. lost = <<>> /\ wire'["R"] = Append(wire["R"], Msg(m))
        BY <1>5, <1>7, <2>4, <2>8 DEF Whole
      <3>2. rest \o lost = rest /\ m \notin ToSet(rest)
        <4>1. rest \o lost = rest
          BY <3>1, ConcatEmptySeq
        <4>2. \A i \in 1..Len(rest) : i + Len(Taken) \in DOMAIN written /\ written[i + Len(Taken)] = rest[i]
          <5>1. written = Taken \o rest
            BY <2>4, <4>1
          <5> QED
            BY <2>5, <5>1, TakenType, ConcatProperties
        <4> QED
          BY <1>3, <4>1, <4>2 DEF ToSet
      <3>3. Carries(wire'["R"], Append(rest, m))
        BY <1>1, <1>5, <2>4, <3>1, <3>2, CarriesAppend
      <3>4. Append(rest, m) \in Seq(Messages) /\ <<>> \in Seq(Messages) /\ Append(rest, m) \o <<>> = Append(rest, m)
        BY <1>1, EmptySeq, ConcatEmptySeq
      <3>5. Append(written, m) = Taken \o (Append(rest, m) \o <<>>)
        <4>1. Append(Taken \o rest, m) = Taken \o Append(rest, m)
          BY <1>1, <2>5, TakenType, AppendItems, ZenonT(40)
        <4> QED
          BY <2>4, <3>2, <3>4, <4>1
      <3> QED
        BY <1>2, <2>1, <3>3, <3>4, <3>5 DEF Flow
    <2> QED
      BY <2>7, <2>8
  <1> QED
    BY <1>6, <1>7

(* A break may lose what is on its way. *)
LEMMA BreakFlows ==
  ASSUME TypeInv, FlowInv, [Next]_vars, Break
  PROVE  Flow' /\ Prefixed'
  <1> USE DEF FlowInv
  <1>1. UNCHANGED written /\ Taken' = Taken /\ (Dead' <=> Dead)
    BY DEF Break, senderVars, receiverVars, Taken, Dead
  <1>2. Prefixed'
    BY <1>1 DEF Prefixed
  <1>3. wire'["R"] = wire["R"] \/ wire'["R"] = <<>>
    BY DEF Break, TypeInv, TypeOK, ConnectionOK, Side
  <1>4. broken'
    BY MessageAssumption DEF Break, broken
  <1>5. SUFFICES ASSUME ~Dead PROVE Flow'
    BY <1>1, <1>2 DEF Flow
  <1>6. PICK rest \in Seq(Messages), lost \in Seq(Messages) :
          written = Taken \o (rest \o lost) /\ Carries(wire["R"], rest) /\ (Whole => lost = <<>>)
    BY <1>5 DEF Flow
  <1>7. CASE wire'["R"] = wire["R"]
    <2>1. Whole' => Whole
      BY <1>4, <1>7 DEF Whole
    <2> QED
      BY <1>1, <1>6, <1>7, <2>1 DEF Flow
  <1>8. CASE wire'["R"] = <<>>
    <2>1. rest \o lost \in Seq(Messages) /\ <<>> \in Seq(Messages) /\ <<>> \o (rest \o lost) = rest \o lost
      BY EmptySeq, ConcatEmptySeq, ConcatProperties
    <2>2. Carries(wire'["R"], <<>>)
      BY <1>8, NothingCarried
    <2>3. ~Whole'
      BY <1>4, <1>8 DEF Whole
    <2> QED
      BY <1>1, <1>6, <2>1, <2>2, <2>3 DEF Flow
  <1> QED
    BY <1>3, <1>7, <1>8

(* CLOSE is written ... *)
LEMMA CloseFlows ==
  ASSUME TypeInv, FlowInv, [Next]_vars, PipeClose
  PROVE  Flow' /\ Prefixed'
  <1> USE DEF FlowInv
  <1>1. UNCHANGED written /\ Taken' = Taken /\ (Dead' <=> Dead) /\ UNCHANGED stream
    BY DEF PipeClose, receiverVars, Taken, Dead
  <1>2. Prefixed'
    BY <1>1 DEF Prefixed
  <1>3. wire["R"] \in Seq(Packet)
        /\ (wire'["R"] = wire["R"] \/ wire'["R"] = Append(wire["R"], Simple("CLOSE")))
    BY WriteFor DEF PipeClose, TypeInv, TypeOK, ConnectionOK, Side
  <1>4. SUFFICES ASSUME ~Dead PROVE Flow'
    BY <1>1, <1>2 DEF Flow
  <1>5. PICK rest \in Seq(Messages), lost \in Seq(Messages) :
          written = Taken \o (rest \o lost) /\ Carries(wire["R"], rest) /\ (Whole => lost = <<>>)
    BY <1>4 DEF Flow
  <1>6. Simple("CLOSE") \in Packet /\ Simple("CLOSE").op # "MSG"
    BY SimpleType DEF Simple
  <1>7. Carries(wire'["R"], rest)
    BY <1>3, <1>5, <1>6, CarriesAppendOther
  <1>8. Whole' => Whole
    <2>1. ~broken \/ UNCHANGED wire
      BY DEF PipeClose, Write
    <2> QED
      BY <1>1, <2>1 DEF Whole, broken
  <1> QED
    BY <1>1, <1>5, <1>7, <1>8 DEF Flow

(* ... and read, which ends the loop. *)
LEMMA ClosedFlows ==
  ASSUME TypeInv, FlowInv, [Next]_vars, ReceiverOnCloseReceived
  PROVE  Flow' /\ Prefixed'
  <1>1. UNCHANGED written /\ Taken' = Taken
    BY DEF ReceiverOnCloseReceived, senderVars, Taken
  <1>2. Dead'
    BY DEF ReceiverOnCloseReceived, Dead, Over, TypeInv, TypeOK, ConnectionOK, Side
  <1> QED
    BY <1>1, <1>2 DEF FlowInv, Flow, Prefixed

(* What is delivered is taken, and an exception is the last. *)
LEMMA DeliverTakes ==
  ASSUME TypeInv, inWorld = <<>>, NEW item \in Items, Deliver(item)
  PROVE  Taken' = Append(got, item) /\ (item = Fault => Dead')
  <1>1. Append(got, item) \in Seq(Items) /\ Append(got, item) = got \o <<item>>
    BY TakenType, AppendIsConcat
  <1>2. CASE receive = "pending"
    <2>1. got' = Append(got, item) /\ inWorld' = <<>> /\ \E next \in AfterDelivery(item) : loop' = [loop EXCEPT !["R"] = next]
      BY <1>2 DEF Deliver
    <2>2. Taken' = Append(got, item)
      BY <1>1, <2>1, ConcatEmptySeq DEF Taken
    <2>3. item = Fault => Dead'
      BY <2>1 DEF AfterDelivery, Dead, Over, TypeInv, TypeOK, ConnectionOK, Side
    <2> QED
      BY <2>2, <2>3
  <1>3. CASE receive # "pending"
    <2>1. got' = got /\ inWorld' = <<item>>
      BY <1>3 DEF Deliver
    <2> QED
      BY <1>1, <2>1 DEF Taken, Dead
  <1> QED
    BY <1>2, <1>3

LEMMA FaultFlows ==
  ASSUME TypeInv, Flow, ~Dead, inWorld = <<>>, UNCHANGED written, NEW packets, SendFault(packets)
  PROVE  Flow' /\ Prefixed'
  <1>1. Taken = got /\ Read(Taken) = Taken /\ Prefixed
    BY FlowPrefixed, TakenType, ConcatEmptySeq DEF Taken
  <1>2. CASE Deliver(Fault)
    <2>1. Taken' = Append(got, Fault) /\ Dead'
      BY <1>2, DeliverTakes DEF Items
    <2>2. Read(Taken') = Read(Taken)
      BY <1>1, <2>1, TakenType, ReadIs
    <2> QED
      BY <1>1, <2>1, <2>2 DEF Flow, Prefixed
  <1>3. CASE UNCHANGED receiverVars /\ \E next \in {"ended", "failed"} : loop' = [loop EXCEPT !["R"] = next]
    <2>1. Taken' = Taken /\ Dead'
      BY <1>3 DEF receiverVars, Taken, Dead, Over, TypeInv, TypeOK, ConnectionOK, Side
    <2> QED
      BY <1>1, <2>1 DEF Flow, Prefixed
  <1> QED
    BY <1>2, <1>3 DEF SendFault

(* OnMsgReceived takes the first message of those on their way, or fails   *)
(* and takes no more.                                                      *)
LEMMA MsgFlows ==
  ASSUME TypeInv, TaskInv, FlowInv, [Next]_vars, OnMsgReceived
  PROVE  Flow' /\ Prefixed'
  <1> USE DEF FlowInv
  <1> DEFINE m == Head(wire["R"]).msg
  <1>1. /\ loop["R"] = "reading" /\ wire["R"] # <<>> /\ Head(wire["R"]).op = "MSG"
        /\ wire["R"] \in Seq(Packet) /\ loop \in [Side -> LoopStates] /\ "R" \in Side
    BY DEF OnMsgReceived, Reads, TypeInv, TypeOK, ConnectionOK, Side
  <1>2. inWorld = <<>> /\ ~Dead /\ Taken = got /\ UNCHANGED written /\ UNCHANGED stream
    <2>1. inWorld = <<>>
      BY <1>1 DEF TypeInv, TypeOK, ReceiverOK
    <2>2. Taken = got
      BY <2>1, TakenType, ConcatEmptySeq DEF Taken
    <2>3. ~Dead
      BY <1>1, <2>1 DEF Dead, Over
    <2> QED
      BY <2>1, <2>2, <2>3 DEF OnMsgReceived, senderVars
  <1>3. wire'["R"] = Tail(wire["R"])
    BY MsgConsumes
  <1>4. PICK rest \in Seq(Messages), lost \in Seq(Messages) :
          written = Taken \o (rest \o lost) /\ Carries(wire["R"], rest) /\ (Whole => lost = <<>>)
    BY <1>2 DEF Flow
  <1>5. rest \in Seq(Items) /\ lost \in Seq(Items) /\ rest \o lost \in Seq(Items)
    BY MessageSeqs, ConcatProperties
  <1>6. Distinct(rest)
    <2>1. /\ Len(Taken) \in Nat /\ Len(rest) \in Nat /\ Len(lost) \in Nat
          /\ DOMAIN written = 1..Len(Taken) + (Len(rest) + Len(lost))
          /\ \A i \in 1..Len(rest) : written[Len(Taken) + i] = rest[i]
      <3>1. Len(rest \o lost) = Len(rest) + Len(lost) /\ \A i \in 1..Len(rest) : (rest \o lost)[i] = rest[i]
        BY <1>5, ConcatProperties
      <3>2. Len(written) = Len(Taken) + Len(rest \o lost)
            /\ \A i \in 1..Len(written) :
                 written[i] = IF i <= Len(Taken) THEN Taken[i] ELSE (rest \o lost)[i - Len(Taken)]
        BY <1>4, <1>5, TakenType, ConcatProperties
      <3>3. Len(Taken) \in Nat /\ Len(rest) \in Nat /\ Len(lost) \in Nat /\ DOMAIN written = 1..Len(written)
        BY <1>5, TakenType
      <3>4. ASSUME NEW i \in 1..Len(rest) PROVE written[Len(Taken) + i] = rest[i]
        <4>1. Len(Taken) + i \in 1..Len(written) /\ ~(Len(Taken) + i <= Len(Taken)) /\ (Len(Taken) + i) - Len(Taken) = i
          BY <3>1, <3>2, <3>3
        <4> QED
          BY <3>1, <3>2, <4>1
      <3> QED
        BY <3>1, <3>2, <3>3, <3>4
    <2>2. DOMAIN rest = 1..Len(rest)
      OBVIOUS
    <2>3. Distinct(written)
      BY DEF TaskInv, AtOnePlace
    <2> SUFFICES ASSUME NEW i \in 1..Len(rest), NEW j \in 1..Len(rest), i # j PROVE rest[i] # rest[j]
      BY <2>2 DEF Distinct
    <2>4. Len(Taken) + i \in DOMAIN written /\ Len(Taken) + j \in DOMAIN written /\ Len(Taken) + i # Len(Taken) + j
      BY <2>1
    <2> QED
      BY <2>1, <2>3, <2>4 DEF Distinct
  <1>7. rest # <<>> /\ m = Head(rest) /\ Carries(wire'["R"], Tail(rest))
    BY <1>1, <1>3, <1>4, <1>6, CarriesTail
  <1>8. Whole' => Whole
    BY <1>1, <1>2, <1>3, WholeKept
  <1>9. CASE Taken' = Taken /\ Dead'
    BY <1>2, <1>9 DEF Flow, Prefixed
  <1>11. CASE Taken' = Append(got, m)
    <2>1. Tail(rest) \in Seq(Messages) /\ Tail(rest) \in Seq(Items)
      BY <1>7, MessageSeqs
    <2>2. written = Append(Taken, m) \o (Tail(rest) \o lost)
      <3>1. Taken \o (rest \o lost) = Append(Taken, Head(rest)) \o (Tail(rest) \o lost)
        <4>1. Taken \in Seq(Items)
          BY TakenType
        <4>2. rest # <<>>
          BY <1>7
        <4> QED
          BY <1>5, <4>1, <4>2, MoveHead
      <3> QED
        BY <1>4, <1>7, <3>1
    <2>3. Flow'
      BY <1>2, <1>4, <1>7, <1>8, <1>11, <2>1, <2>2 DEF Flow
    <2>4. Prefixed'
      <3>1. m \in Messages
        BY <1>7
      <3>2. Append(Taken, m) \in Seq(Items) /\ Tail(rest) \o lost \in Seq(Messages)
        BY <2>1, <3>1, TakenType, ConcatProperties DEF Items
      <3>3. \A i \in DOMAIN Append(Taken, m) : Append(Taken, m)[i] # Fault
        BY <2>2, <3>2, TakenType, MessageSeqs, NoFault
      <3>4. Read(Append(Taken, m)) = Append(Taken, m)
        BY <3>2, <3>3, ReadIs
      <3> QED
        BY <1>2, <1>11, <2>2, <3>2, <3>4 DEF Prefixed
    <2> QED
      BY <2>3, <2>4
  <1>12. CASE loop' = [loop EXCEPT !["R"] = "ended"] /\ UNCHANGED receiverVars
    <2>1. Taken' = Taken /\ Dead'
      BY <1>1, <1>12 DEF receiverVars, Taken, Dead, Over
    <2> QED
      BY <1>9, <2>1
  <1>13. CASE Deliver(m)
    <2>1. m \in Items
      BY <1>7 DEF Items
    <2> QED
      BY <1>2, <1>11, <1>13, <2>1, DeliverTakes
  <1>14. CASE SendFault([wire EXCEPT !["R"] = Tail(@)])
    BY <1>2, <1>14, FaultFlows
  <1> QED
    BY <1>12, <1>13, <1>14 DEF OnMsgReceived

(* The consumer's callback has ended, well or not. *)
LEMMA CallbackFlows ==
  ASSUME TypeInv, FlowInv, [Next]_vars, CallbackEnds
  PROVE  Flow' /\ Prefixed'
  <1> USE DEF FlowInv
  <1>1. loop["R"] = "callback" /\ UNCHANGED <<written, stream>>
    BY DEF CallbackEnds, senderVars
  <1>2. inWorld = <<>> /\ ~Dead
    <2>1. inWorld = <<>>
      BY <1>1 DEF TypeInv, TypeOK, ReceiverOK
    <2> QED
      BY <1>1, <2>1 DEF Dead, Over
  <1>3. CASE UNCHANGED <<wire, receiverVars>>
    <2>1. Taken' = Taken /\ UNCHANGED wire
      BY <1>3 DEF receiverVars, Taken
    <2> QED
      BY <1>1, <1>2, <2>1 DEF Flow, Prefixed, Whole, broken
  <1>4. CASE SendFault(wire)
    BY <1>1, <1>2, <1>4, FaultFlows
  <1> QED
    BY <1>3, <1>4 DEF CallbackEnds

LEMMA FlowNext ==
  TypeInv /\ TaskInv /\ PingInv /\ CloseLast /\ FlowInv /\ [Next]_vars => (CloseLast /\ FlowInv)'
  BY AcceptNext, CloseStaysLast, ChatFlows, SendFlows, BreakFlows, CloseFlows, ClosedFlows,
     MsgFlows, CallbackFlows DEF FlowInv, Carrying

LEMMA FlowInvariant == Spec => [](TypeInv /\ TaskInv /\ PingInv /\ CloseLast /\ FlowInv)
  BY TypeInvariant, TaskInit, TaskNext, PingInit, PingNext, CloseLastInit, FlowInit, FlowNext, PTL DEF Spec

LEMMA PrefixIs ==
  ASSUME NEW S, NEW s \in Seq(S), NEW t \in Seq(S)
  PROVE  IsPrefix(s, s \o t) /\ SubSeq(s \o t, Len(s) + 1, Len(s \o t)) = t
  <1> DEFINE whole == s \o t
  <1>1. /\ whole \in Seq(S) /\ Len(whole) = Len(s) + Len(t) /\ Len(s) \in Nat /\ Len(t) \in Nat
        /\ \A i \in 1..Len(s) : whole[i] = s[i]
        /\ \A i \in 1..Len(t) : whole[Len(s) + i] = t[i]
    <2>1. whole \in Seq(S) /\ Len(whole) = Len(s) + Len(t) /\ Len(s) \in Nat /\ Len(t) \in Nat
          /\ \A i \in 1..Len(s) + Len(t) : whole[i] = IF i <= Len(s) THEN s[i] ELSE t[i - Len(s)]
      BY ConcatProperties
    <2> HIDE DEF whole
    <2>2. \A i \in 1..Len(s) : whole[i] = s[i]
      BY <2>1
    <2>3. \A i \in 1..Len(t) : Len(s) + i \in 1..Len(s) + Len(t) /\ ~(Len(s) + i <= Len(s)) /\ (Len(s) + i) - Len(s) = i
      BY <2>1
    <2> QED
      BY <2>1, <2>2, <2>3
  <1> HIDE DEF whole
  <1>2. \A i \in 1..Len(s) : s[i] \in S /\ \A j \in 1..Len(t) : t[j] \in S
    OBVIOUS
  <1>3. SubSeq(whole, 1, Len(s)) = s
    <2>1. /\ SubSeq(whole, 1, Len(s)) \in Seq(S) /\ Len(SubSeq(whole, 1, Len(s))) = Len(s)
          /\ \A i \in 1..Len(s) : SubSeq(whole, 1, Len(s))[i] = whole[i]
      BY <1>1
    <2> QED
      BY <1>1, <2>1, SeqEqual
  <1>4. SubSeq(whole, Len(s) + 1, Len(whole)) = t
    <2> DEFINE part == SubSeq(whole, Len(s) + 1, Len(whole))
    <2>1. part \in Seq(S) /\ Len(part) = Len(t)
          /\ \A i \in 1..Len(t) : part[i] = whole[Len(s) + i]
      BY <1>1
    <2> QED
      BY <1>1, <2>1, SeqEqual
  <1>5. IsPrefix(s, whole)
    BY <1>1, <1>3, SubSeqFull DEF IsPrefix
  <1> QED
    BY <1>4, <1>5 DEF whole

(* What the consumer gets is an initial part of what PipeWorldSend wrote,  *)
(* each message once, whatever breaks or fails (OnMsgReceived, one packet  *)
(* at a time, waits for its consumer or ends the loop).                    *)
THEOREM FlowHasNoHoles == Spec => []NoHoles
  <1>1. TypeInv /\ TaskInv /\ FlowInv => NoHoles
    <2> SUFFICES ASSUME TypeInv, TaskInv, FlowInv PROVE NoHoles
      OBVIOUS
    <2>1. PICK after \in Seq(Messages) : written = Read(Taken) \o after
      BY DEF FlowInv, Prefixed
    <2>2. Read(Taken) \in Seq(Items)
      BY TakenType DEF Read, Front
    <2>3. IsPrefix(Read(Taken), written)
      BY <2>1, <2>2, MessageSeqs, PrefixIs
    <2> QED
      BY <2>3 DEF NoHoles, Taken, TaskInv, AtOnePlace
  <1> QED
    BY <1>1, FlowInvariant, PTL

(* While the stream is up and the receiver takes packets, every message    *)
(* written is taken or on its way, in the order of writing: no step of     *)
(* either receive loop drops one (OnMsgReceived, PipeSend).                *)
THEOREM FlowMissesNothing == Spec => []NothingMissing
  <1>1. TypeInv /\ FlowInv => NothingMissing
    <2> SUFFICES ASSUME TypeInv, FlowInv, ~broken, ~Over(loop["R"]), inWorld # <<Fault>>
                 PROVE  /\ IsPrefix(Taken, written)
                        /\ Carries(wire["R"], SubSeq(written, Len(Taken) + 1, Len(written)))
      BY DEF NothingMissing, Taken
    <2>1. PICK rest \in Seq(Messages), lost \in Seq(Messages) :
            written = Taken \o (rest \o lost) /\ Carries(wire["R"], rest) /\ lost = <<>>
      BY DEF FlowInv, Flow, Dead, Whole
    <2>2. written = Taken \o rest
      BY <2>1, ConcatEmptySeq
    <2>3. IsPrefix(Taken, written) /\ SubSeq(written, Len(Taken) + 1, Len(written)) = rest
      BY <2>2, TakenType, MessageSeqs, PrefixIs
    <2> QED
      BY <2>1, <2>3
  <1> QED
    BY <1>1, FlowInvariant, PTL

-----------------------------------------------------------------------------
(***************************************************************************)
(* CLOSE                                                                   *)
(***************************************************************************)

(* CLOSE is written once the world is closed and empty with no send failed: *)
(* a cancelled send goes to write it too, but that is cancelled as well.   *)
Finished == queue = <<>> /\ addingDone /\ \A m \in Messages : sendTask[m] # "failed"

FinishInv ==
  /\ pipe = "close" => ~token["S"] \/ Finished
  /\ pipe = "ended" => Finished
  /\ \A m \in Messages : sendTask[m] = "failed" => pipe = "failed" \/ (pipe = "close" /\ ~token["S"])

(* A loop that CLOSE has ended has delivered everything. *)
Complete == loop["R"] = "closed" => pipe = "ended" /\ got = written

LEMMA FinishInit == Init => FinishInv /\ Complete
  BY DEF Init, FinishInv, Complete, Side

LEMMA FinishNext ==
  ASSUME TypeInv, CloseInv, FinishInv, [Next]_vars
  PROVE  FinishInv'
  <1> USE DEF TypeInv, TypeOK, FinishInv
  <1>1. (addingDone => addingDone') /\ (token'["S"] => token["S"])
    BY PipeMoves DEF Side
  <1>2. CASE UNCHANGED <<pipe, queue, sendTask>>
    BY <1>1, <1>2 DEF Finished
  <1>3. CASE pipe = "off" /\ pipe' = "receive" /\ UNCHANGED sendTask
    BY <1>3
  <1>4. CASE PipeReceive
    <2>1. pipe = "receive" /\ pipe' \in {"pending", "send"} /\ UNCHANGED sendTask
      BY <1>4 DEF PipeReceive
    <2> QED
      BY <2>1
  <1>5. CASE PipeSend
    <2>1. pipe = "send" /\ UNCHANGED <<queue, token>>
      BY <1>5 DEF PipeSend, worldVars
    <2>2. \A m \in Messages : sendTask[m] # "failed"
      BY <2>1
    <2>3. PICK result \in WriteResults("S") \cup {"failed"} :
            /\ sendTask' = [sendTask EXCEPT ![Head(current)] = SendOutcome(result)]
            /\ pipe' = AfterSend(result)
      BY <1>5 DEF PipeSend
    <2>4. CASE result = "ok"
      BY <2>2, <2>3, <2>4 DEF AfterSend, SendOutcome, SenderOK
    <2>5. CASE result = "cancelled"
      <3>1. ~token["S"] /\ pipe' = "close"
        BY <2>3, <2>5 DEF AfterSend, WriteResults
      <3> QED
        BY <2>1, <3>1
    <2>6. CASE result = "failed"
      BY <2>3, <2>6 DEF AfterSend
    <2> QED
      BY <2>3, <2>4, <2>5, <2>6 DEF WriteResults
  <1>6. CASE PipeClose
    <2>1. UNCHANGED <<queue, addingDone, sendTask, token>> /\ pipe = "close"
      BY <1>6 DEF PipeClose, worldVars
    <2>2. PICK result \in WriteResults("S") : pipe' = IF result = "ok" THEN "ended" ELSE "failed"
      BY <1>6 DEF PipeClose
    <2>3. CASE result = "ok"
      <3>1. token["S"]
        BY <2>3 DEF WriteResults
      <3> QED
        BY <2>1, <2>2, <2>3, <3>1 DEF Finished
    <2>4. CASE result # "ok"
      BY <2>2, <2>4
    <2> QED
      BY <2>3, <2>4
  <1>7. ASSUME NEW m \in Messages, SendAsync(m) PROVE FinishInv'
    <2>1. \A n \in Messages : sendTask'[n] = "failed" => sendTask[n] = "failed"
      BY <1>7 DEF SendAsync, SenderOK
    <2>2. CASE pipe = "pending"
      BY <1>7, <2>1, <2>2 DEF SendAsync
    <2>3. CASE pipe # "pending"
      <3>1. UNCHANGED pipe /\ (addingDone => UNCHANGED queue)
        BY <1>7, <2>3 DEF SendAsync
      <3> QED
        BY <1>1, <2>1, <3>1 DEF Finished
    <2> QED
      BY <2>2, <2>3
  <1>8. ASSUME NEW k \in Closer, CloseWorldEnd(k) PROVE FinishInv'
    <2>1. closes[k] = "poll" /\ queue = <<>> /\ UNCHANGED <<queue, addingDone, sendTask, token>>
          /\ pipe' = IF pipe = "pending" THEN "close" ELSE pipe
      BY <1>8 DEF CloseWorldEnd
    <2>2. addingDone
      BY <2>1 DEF CloseInv, Drained
    <2> QED
      BY <2>1, <2>2 DEF Finished
  <1> QED
    BY <1>2, <1>3, <1>4, <1>5, <1>6, <1>7, <1>8, PipeMoves

(* Only CLOSE ends the receive loop so. *)
LEMMA LoopEnds ==
  ASSUME TypeInv, [Next]_vars, loop'["R"] = "closed", loop["R"] # "closed"
  PROVE  ReceiverOnCloseReceived
  <1> USE DEF TypeInv, TypeOK, ConnectionOK
  <1>1. ASSUME NEW y \in Side, NEW next, next # "closed", loop' = [loop EXCEPT ![y] = next]
        PROVE  FALSE
    BY <1>1 DEF Side
  <1>2. CASE Handshake
    <2>1. client \in Side /\ Other(client) \in Side
      BY OtherSide
    <2>2. CASE HandshakeClientOpen
      BY <1>1, <2>1, <2>2 DEF HandshakeClientOpen
    <2>3. CASE HandshakeServer
      BY <1>1, <2>1, <2>3 DEF HandshakeServer, Started, ReceiveHeader
    <2>4. CASE HandshakeClientAck
      BY <1>1, <2>1, <2>4 DEF HandshakeClientAck, Started, ReceiveHeader
    <2> QED
      BY <1>2, <2>2, <2>3, <2>4 DEF Handshake
  <1>3. ASSUME NEW y \in Side, LoopStep(y) PROVE FALSE
    <2>1. CASE EndOfStream(y)
      BY <1>1, <2>1 DEF EndOfStream
    <2>2. CASE OnPingReceived(y)
      <3>1. PICK next \in {"reading", "ended", "failed"} : loop' = [loop EXCEPT ![y] = next]
        BY <2>2 DEF OnPingReceived, WriteResults
      <3> QED
        BY <1>1, <3>1
    <2>3. CASE OnPongReceived(y) \/ OnAckReceived(y) \/ OnErrReceived(y)
      BY <1>1, <2>3 DEF OnPongReceived, OnAckReceived, OnErrReceived, ReceiveHeader
    <2> QED
      BY <1>3, <2>1, <2>2, <2>3 DEF LoopStep
  <1>4. CASE SenderOnCloseReceived \/ SenderLoopEnd
    <2>1. loop'["R"] = loop["R"]
      BY <1>4 DEF SenderOnCloseReceived, SenderLoopEnd, Side
    <2> QED
      BY <2>1
  <1>5. CASE OnMsgReceived \/ CallbackEnds
    <2>1. "closed" \notin AfterMsg
      BY DEF AfterMsg
    <2> QED
      BY <1>1, <1>5, <2>1, MsgLoop DEF Side
  <1>6. CASE SendAck \/ StartReceiverClose
    <2>1. PICK next \in {"reading", "ended", "failed"} : loop' = [loop EXCEPT !["R"] = next]
      BY <1>6 DEF SendAck, StartReceiverClose, WriteResults
    <2> QED
      BY <1>1, <2>1 DEF Side
  <1>7. CASE ReceiveAsync
    <2>1. UNCHANGED loop \/ \E next \in {"failed", "leaving", "callback"} : loop' = [loop EXCEPT !["R"] = next]
      BY <1>7 DEF ReceiveAsync, AfterDelivery
    <2> QED
      BY <1>1, <2>1 DEF Side
  <1>8. CASE PingLoop \/ PipeWorldSend \/ StartSender \/ SenderClose \/ UserClose \/ ReceiverClose
             \/ (\E m \in Messages : SendAsync(m)) \/ Break \/ UNCHANGED vars
    <2>1. UNCHANGED loop
      BY <1>8 DEF PingLoop, SendPing, PingTimeout, PingEnd, PipeWorldSend, PipeReceive, PipeSend, PipeClose,
                  StartSender, StartClose, StartCancel, StartEnd, SenderClose, UserCloseCancel, CloseWorldEnd,
                  UserClose, ReceiverClose, SendAsync, Break, vars
    <2> QED
      BY <2>1
  <1> QED
    BY <1>2, <1>3, <1>4, <1>5, <1>6, <1>7, <1>8 DEF Next, SenderLoop, ReceiverLoop, Side

LEMMA CompleteNext ==
  ASSUME TypeInv, FlowInv, CloseLast, Complete, [Next]_vars
  PROVE  Complete'
  <1> USE DEF TypeInv, TypeOK
  <1> SUFFICES ASSUME loop'["R"] = "closed" PROVE pipe' = "ended" /\ got' = written'
    BY DEF Complete
  <1>2. CASE loop["R"] = "closed"
    <2>1. pipe = "ended" /\ got = written /\ inWorld = <<>>
      BY <1>2 DEF Complete, ReceiverOK
    <2>2. ~PipeReceive /\ ~PipeSend /\ ~PipeClose
      BY <2>1 DEF PipeReceive, PipeSend, PipeClose
    <2>3. UNCHANGED pipe
      <3>1. ASSUME NEW m \in Messages, SendAsync(m) PROVE UNCHANGED pipe
        BY <2>1, <3>1 DEF SendAsync
      <3>2. ASSUME NEW k \in Closer, CloseWorldEnd(k) PROVE UNCHANGED pipe
        BY <2>1, <3>2 DEF CloseWorldEnd
      <3> QED
        BY <2>1, <2>2, <3>1, <3>2, PipeMoves
    <2>4. ~OnMsgReceived /\ ~CallbackEnds
      BY <1>2 DEF OnMsgReceived, CallbackEnds, Reads
    <2>5. UNCHANGED written /\ Taken' = Taken
      BY <2>2, <2>4, TakenKept
    <2>6. got' = got
      <3>1. TypeInv'
        BY TypeNext
      <3>2. inWorld' = <<>>
        BY <3>1 DEF ReceiverOK
      <3>3. Taken = got /\ Taken' = got'
        BY <2>1, <3>1, <3>2, TakenType, TypeNext, ConcatEmptySeq DEF Taken, ReceiverOK
      <3> QED
        BY <2>5, <3>3
    <2> QED
      BY <2>1, <2>3, <2>5, <2>6
  <1>3. CASE loop["R"] # "closed"
    <2>2. ReceiverOnCloseReceived
      BY <1>3, LoopEnds
    <2>3. /\ loop["R"] = "reading" /\ wire["R"] # <<>> /\ Head(wire["R"]).op = "CLOSE"
          /\ UNCHANGED <<pipe, written, got>> /\ wire["R"] \in Seq(Packet)
      BY <2>2 DEF ReceiverOnCloseReceived, Reads, senderVars, ConnectionOK, Side
    <2>4. inWorld = <<>> /\ ~Dead /\ Taken = got
      BY <2>3, TakenType, ConcatEmptySeq DEF ReceiverOK, Dead, Over, Taken
    <2>6. DOMAIN wire["R"] = 1..Len(wire["R"]) /\ Len(wire["R"]) \in Nat \ {0} /\ wire["R"][1].op = "CLOSE"
      BY <2>3, TailAt
    <2>5. PICK rest \in Seq(Messages), lost \in Seq(Messages) :
            written = Taken \o (rest \o lost) /\ Carries(wire["R"], rest) /\ lost = <<>>
      <3>1. Whole
        BY <2>6 DEF Whole
      <3> QED
        BY <2>4, <3>1 DEF FlowInv, Flow
    <2>7. pipe = "ended" /\ \A j \in DOMAIN wire["R"] : j > 1 => wire["R"][j].op # "MSG"
      BY <2>6 DEF CloseLast
    <2>8. MsgAt(wire["R"]) = {}
      BY <2>6, <2>7 DEF MsgAt
    <2>9. rest = <<>>
      BY <2>3, <2>5, <2>8, CarriesNothing
    <2>10. written = got
      <3>1. rest \o lost = <<>>
        BY <2>5, <2>9, EmptySeq, ConcatEmptySeq
      <3> QED
        BY <2>4, <2>5, <3>1, TakenType, ConcatEmptySeq
    <2> QED
      BY <2>3, <2>7, <2>10
  <1> QED
    BY <1>2, <1>3

(* A receive loop that the sender's CLOSE has ended has given its consumer *)
(* all that was written, and no message waits in the sender or has failed: *)
(* PipeWorldSend writes CLOSE last (PipeWorldSend, OnCloseReceived).       *)
THEOREM ClosedIsComplete == Spec => []CloseIsComplete
  <1>1. Spec => [](TypeInv /\ TaskInv /\ CloseInv /\ FinishInv /\ Complete)
    <2>1. TypeInv /\ FlowInv /\ CloseLast /\ CloseInv /\ FinishInv /\ Complete /\ [Next]_vars
          => (CloseInv /\ FinishInv /\ Complete)'
      BY CloseNext, FinishNext, CompleteNext
    <2> QED
      BY <2>1, FlowInvariant, CloseInit, FinishInit, PTL DEF Spec
  <1>2. TypeInv /\ TaskInv /\ FinishInv /\ Complete => CloseIsComplete
    <2> SUFFICES ASSUME TypeInv, TaskInv, FinishInv, Complete, loop["R"] = "closed"
                 PROVE  /\ got = written /\ inWorld = <<>>
                        /\ pipe = "ended" /\ queue = <<>>
                        /\ \A m \in Messages : sendTask[m] \in {"none", "ok", "cancelled"}
      BY DEF CloseIsComplete
    <2>1. got = written /\ pipe = "ended" /\ Finished /\ queue = <<>>
      BY DEF Complete, FinishInv, Finished
    <2>2. inWorld = <<>> /\ current = <<>>
      BY <2>1 DEF TypeInv, TypeOK, ReceiverOK, SenderOK
    <2>3. ASSUME NEW m \in Messages PROVE sendTask[m] \in {"none", "ok", "cancelled"}
      <3>1. sendTask[m] # "failed"
        BY <2>1 DEF Finished
      <3>2. sendTask[m] # "open"
        BY <2>1, <2>2, FewSet DEF TaskInv, SendTaskIsTrue
      <3> QED
        BY <3>1, <3>2 DEF TypeInv, TypeOK, SenderOK
    <2> QED
      BY <2>1, <2>2, <2>3
  <1> QED
    BY <1>1, <1>2, PTL
=============================================================================
