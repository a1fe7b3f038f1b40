----------------------- MODULE CommonEventToolProofs -----------------------
(***************************************************************************)
(* What a call is on the other side of the wire, and what becomes of a     *)
(* command line of the cem tool: what it asks for, who gets the event and  *)
(* which lines of a dump are shown, for any calls, command lines,          *)
(* subscribers and tables.                                                 *)
(***************************************************************************)
EXTENDS CommonEventTool, SelectionProofs, SequenceTheorems

-----------------------------------------------------------------------------
(* Sequences *)

LEMMA Joined ==
    ASSUME NEW S, NEW s \in Seq(S), NEW t \in Seq(S)
    PROVE  /\ s \o t \in Seq(S) /\ Len(s \o t) = Len(s) + Len(t)
           /\ \A i \in 1..Len(s) : (s \o t)[i] = s[i]
           /\ \A i \in 1..Len(t) : (s \o t)[Len(s) + i] = t[i]
OBVIOUS

LEMMA MinFacts ==
    ASSUME NEW T, T \subseteq Nat, T # {}
    PROVE  Min(T) \in T /\ \A x \in T : Min(T) <= x
BY LeastNumber DEF Min

LEMMA Tuples ==
    ASSUME NEW T, NEW a \in T, NEW b \in T, NEW c \in T, NEW d \in T, NEW e \in T
    PROVE  /\ <<a>> \in Seq(T) /\ Len(<<a>>) = 1 /\ <<a>>[1] = a
           /\ <<a, b>> \in Seq(T) /\ Len(<<a, b>>) = 2 /\ <<a, b>>[1] = a
           /\ <<a, b, c>> \in Seq(T) /\ Len(<<a, b, c>>) = 3
           /\ <<a, b, c, d>> \in Seq(T) /\ Len(<<a, b, c, d>>) = 4
           /\ <<a, b, c, d, e>> \in Seq(T) /\ Len(<<a, b, c, d, e>>) = 5
OBVIOUS

LEMMA Appended ==
    ASSUME NEW S, NEW s \in Seq(S), NEW x \in S
    PROVE  /\ Append(s, x) \in Seq(S) /\ Len(s) \in Nat /\ Len(Append(s, x)) = Len(s) + 1
           /\ Append(s, x)[Len(s) + 1] = x
           /\ \A i \in 1..Len(s) : Append(s, x)[i] = s[i] /\ s[i] \in S
OBVIOUS

\* What is read up to a NUL of a string that was written with one at its end.
LEMMA ReadUpToNul ==
    ASSUME NEW d \in Bytes
    PROVE  UpToNul(Append(d, 0)) = UpToNul(d) /\ UpToNul(d) \in Bytes
<1> DEFINE t == Append(d, 0)
           n == Len(d)
           nuls == {i \in 1..Len(d) : d[i] = 0}
           more == {i \in 1..Len(t) : t[i] = 0}
<1>1. /\ d \in Seq(0..255) /\ n \in Nat /\ t \in Seq(0..255) /\ Len(t) = n + 1 /\ t[n + 1] = 0
      /\ \A i \in 1..n : t[i] = d[i] /\ d[i] \in 0..255
  <2> DEFINE B == 0..255
  <2>1. d \in Seq(B) /\ 0 \in B
    BY DEF Bytes
  <2> HIDE DEF B
  <2>2. /\ Append(d, 0) \in Seq(B) /\ Len(d) \in Nat /\ Len(Append(d, 0)) = Len(d) + 1
        /\ Append(d, 0)[Len(d) + 1] = 0
        /\ \A i \in 1..Len(d) : Append(d, 0)[i] = d[i] /\ d[i] \in B
    BY <2>1, Appended
  <2> QED
    BY <2>1, <2>2 DEF B
<1> HIDE DEF t, n
<1>2. more = nuls \cup {n + 1}
  BY <1>1 DEF n
<1>3. ASSUME NEW k \in 1..n + 1
      PROVE  SubSeq(t, 1, k - 1) = SubSeq(d, 1, k - 1) /\ SubSeq(d, 1, k - 1) \in Seq(0..255)
  <2>1. \A i \in 1..k - 1 : t[i] = d[i] /\ t[i] \in 0..255 /\ d[i] \in 0..255
    <3>1. \A i \in 1..k - 1 : i \in 1..n
      BY <1>1
    <3> QED
      BY <1>1, <3>1
  <2>2. k - 1 \in Int /\ 1 \in Int
    BY <1>1
  <2>3. /\ SubSeq(t, 1, k - 1) \in Seq(0..255)
        /\ Len(SubSeq(t, 1, k - 1)) = IF 1 <= k - 1 THEN k - 1 - 1 + 1 ELSE 0
        /\ \A i \in 1..k - 1 - 1 + 1 : SubSeq(t, 1, k - 1)[i] = t[1 + i - 1]
    BY <2>1, <2>2, SubSeqProperties
  <2>4. /\ SubSeq(d, 1, k - 1) \in Seq(0..255)
        /\ Len(SubSeq(d, 1, k - 1)) = IF 1 <= k - 1 THEN k - 1 - 1 + 1 ELSE 0
        /\ \A i \in 1..k - 1 - 1 + 1 : SubSeq(d, 1, k - 1)[i] = d[1 + i - 1]
    BY <2>1, <2>2, SubSeqProperties
  <2>5. \A i \in 1..Len(SubSeq(t, 1, k - 1)) : SubSeq(t, 1, k - 1)[i] = SubSeq(d, 1, k - 1)[i]
    BY <2>1, <2>2, <2>3, <2>4
  <2> QED
    BY <2>3, <2>4, <2>5, SeqEqual
<1>4. UpToNul(d) = IF nuls = {} THEN d ELSE SubSeq(d, 1, Min(nuls) - 1)
  BY DEF UpToNul
<1>5. UpToNul(t) = SubSeq(t, 1, Min(more) - 1)
  BY <1>2 DEF UpToNul
<1>6. CASE nuls = {}
  <2>1. Min(more) = n + 1
    <3>1. more = {n + 1} /\ more \subseteq Nat /\ more # {}
      BY <1>1, <1>2, <1>6
    <3> QED
      BY <3>1, MinFacts
  <2> HIDE DEF nuls, more
  <2>2. SubSeq(d, 1, n + 1 - 1) = d
    BY <1>1, SubSeqFull DEF n
  <2>3. SubSeq(t, 1, n + 1 - 1) = SubSeq(d, 1, n + 1 - 1)
    BY <1>1, <1>3
  <2> QED
    <3>1. UpToNul(d) = d
      BY <1>4, <1>6
    <3>2. Min(more) - 1 = n + 1 - 1
      BY <1>1, <2>1
    <3>3. UpToNul(t) = SubSeq(t, 1, n + 1 - 1)
      BY <1>5, <3>2
    <3> QED
      BY <2>2, <2>3, <3>1, <3>3 DEF t
<1>7. CASE nuls # {}
  <2>1. nuls \subseteq Nat /\ nuls \subseteq 1..n /\ more \subseteq Nat /\ more # {}
    BY <1>1, <1>2 DEF n
  <2>2. Min(nuls) \in nuls /\ (\A x \in nuls : Min(nuls) <= x) /\ Min(more) \in more /\ \A x \in more : Min(more) <= x
    BY <1>7, <2>1, MinFacts
  <2> HIDE DEF nuls, more
  <2>3. Min(nuls) \in 1..n /\ Min(nuls) \in more /\ (Min(more) \in nuls \/ Min(more) = n + 1)
    BY <1>2, <2>1, <2>2
  <2>4. Min(more) <= Min(nuls) /\ (Min(more) \in nuls => Min(nuls) <= Min(more))
    BY <2>2, <2>3
  <2>5. Min(more) \in Nat /\ Min(nuls) \in Nat
    BY <2>1, <2>2
  <2>6. Min(more) = Min(nuls) /\ Min(nuls) \in 1..n + 1
    BY <1>1, <2>3, <2>4, <2>5
  <2> QED
    BY <1>3, <1>4, <1>5, <1>7, <2>6 DEF t, Bytes
<1> QED
  BY <1>6, <1>7

LEMMA ReadUid ==
    ASSUME NEW u \in 0..2 ^ INT_BITS - 1
    PROVE  AsUid(AsInt32(u)) = u
<1> DEFINE M == 2 ^ INT_BITS
<1>1. M \in Int
  BY WireAssumption
<1>2. u \in 0..M - 1
  OBVIOUS
<1>3. AsInt32(u) = u - M \/ AsInt32(u) = u
  BY DEF AsInt32
<1>4. AsUid(AsInt32(u)) = AsInt32(u) % M
  BY DEF AsUid
<1> HIDE DEF M
<1>5. (u - M) % M = u /\ u % M = u
  BY <1>1, <1>2
<1> QED
  BY <1>3, <1>4, <1>5

-----------------------------------------------------------------------------
(* What the stubs read is what the proxies wrote *)

\* An event, wherever a parcel begins with one.
LEMMA ReadEvent ==
    ASSUME NEW d, IsEvent(d), NEW S, NEW rest \in Seq(S)
    PROVE  /\ ReadData(WriteData(d) \o rest, 1) = CarriedEvent(d)
           /\ \A i \in 1..Len(rest) : (WriteData(d) \o rest)[4 + i] = rest[i]
<1> DEFINE w == WriteData(d)
           T == {w[1], w[2], w[3], w[4]} \cup S
<1>1. w = <<Len(d.data) + 1, Append(d.data, 0), d.code, d.want>>
  BY DEF WriteData
<1>2. Len(w) = 4 /\ w[2] = Append(d.data, 0) /\ w[3] = d.code /\ w[4] = d.want
  BY <1>1
<1>3a. w \in Seq(T) /\ rest \in Seq(T)
  BY <1>1
<1> HIDE DEF w, T
<1>3b. /\ \A i \in 1..Len(w) : (w \o rest)[i] = w[i]
       /\ \A i \in 1..Len(rest) : (w \o rest)[Len(w) + i] = rest[i]
  BY <1>3a, Joined
<1>3. (w \o rest)[2] = w[2] /\ (w \o rest)[3] = w[3] /\ (w \o rest)[4] = w[4]
  <2>1. 2 \in 1..Len(w) /\ 3 \in 1..Len(w) /\ 4 \in 1..Len(w)
    BY <1>2
  <2> QED
    BY <2>1, <1>3b
<1>4. \A i \in 1..Len(rest) : (w \o rest)[4 + i] = rest[i]
  BY <1>2, <1>3b
<1>5. ReadData(w \o rest, 1) = [data |-> UpToNul(d.data), code |-> d.code, want |-> d.want]
  <2>1. /\ ReadData(w \o rest, 1) = [data |-> UpToNul((w \o rest)[1 + 1]), code |-> (w \o rest)[1 + 2],
                                     want |-> (w \o rest)[1 + 3]]
        /\ d.data \in Bytes
    BY DEF ReadData, IsEvent
  <2>2. 1 + 1 = 2 /\ 1 + 2 = 3 /\ 1 + 3 = 4
    OBVIOUS
  <2>3. UpToNul(Append(d.data, 0)) = UpToNul(d.data)
    BY <2>1, ReadUpToNul
  <2> QED
    BY <1>2, <1>3, <2>1, <2>2, <2>3
<1>6. d = [data |-> d.data, code |-> d.code, want |-> d.want]
  BY DEF IsEvent
<1>7. CarriedEvent(d) = [data |-> UpToNul(d.data), code |-> d.code, want |-> d.want]
  BY <1>6 DEF CarriedEvent
<1> QED
  BY <1>4, <1>5, <1>7 DEF w

\* What a notification carries after the event: its two flags.
LEMMA ReadNotified ==
    ASSUME NEW r, IsEvent(r.event)
    PROVE  /\ ReadData(WriteNotify(r), 1) = CarriedEvent(r.event)
           /\ WriteNotify(r)[5] = r.ordered
           /\ WriteNotify(r)[6] = r.sticky
<1> DEFINE rest == <<r.ordered, r.sticky>>
           S == {r.ordered, r.sticky}
           w == WriteData(r.event)
           q == WriteNotify(r)
<1>1. rest \in Seq(S) /\ Len(rest) = 2 /\ rest[1] = r.ordered /\ rest[2] = r.sticky
  OBVIOUS
<1>2. Len(w) = 4 /\ w \in Seq({w[1], w[2], w[3], w[4]})
  BY DEF WriteData
<1>3. q = w \o rest
  BY DEF WriteNotify
<1> HIDE DEF rest, S, q
<1>4. ReadData(q, 1) = CarriedEvent(r.event)
  BY <1>1, <1>3, ReadEvent
<1> HIDE DEF w
<1>5. q[4 + 1] = r.ordered /\ q[4 + 2] = r.sticky
  <2> DEFINE T == {w[1], w[2], w[3], w[4]} \cup S
  <2>1. w \in Seq(T) /\ rest \in Seq(T)
    BY <1>1, <1>2
  <2> HIDE DEF T
  <2>2. \A i \in 1..Len(rest) : (w \o rest)[Len(w) + i] = rest[i]
    BY <2>1, Joined
  <2>3. Len(w) = 4 /\ Len(rest) = 2 /\ rest[1] = r.ordered /\ rest[2] = r.sticky
    BY <1>1, <1>2
  <2>4. \A i \in 1..Len(rest) : q[Len(w) + i] = rest[i]
    BY ONLY <1>3, <2>2, Zenon
  <2> QED
    BY ONLY <2>3, <2>4
<1>6. q[5] = r.ordered /\ q[6] = r.sticky
  BY ONLY <1>5
<1> QED
  BY <1>4, <1>6 DEF q

\* The event, its publish information and what follows the last subscriber are
\* where the stub looks for them, with a last subscriber and without.
LEMMA ReadPublished ==
    ASSUME NEW r, IsEvent(r.event), IsPublishInfo(r.info), NEW S, NEW rest \in Seq(S)
    PROVE  LET p == WritePublish(r) \o rest IN
           /\ ReadData(p, 1) = CarriedEvent(r.event)
           /\ ReadPublishInfo(p, 5) = CarriedInfo(r.info)
           /\ \A i \in 1..Len(rest) : p[AfterLast(p) + (i - 1)] = rest[i]
<1> DEFINE p == WritePublish(r) \o rest
           l == WriteLast(r)
           w1 == Len(r.event.data) + 1
           w2 == Append(r.event.data, 0)
           w3 == r.event.code
           w4 == r.event.want
           n1 == Texts(r.info.permissions)
           n2 == r.info.ordered
           n3 == r.info.sticky
           x == r.last
<1>1. l \in {<<FALSE>>, <<TRUE, r.last>>}
  BY DEF WriteLast
<1>2. p = ((<<w1, w2, w3, w4>> \o <<n1, n2, n3>>) \o l) \o rest
  BY DEF WritePublish, WriteData, WritePublishInfo
<1>7. l \in {<<FALSE>>, <<TRUE, x>>} /\ rest \in Seq(S)
  BY <1>1
<1> HIDE DEF p, l, w1, w2, w3, w4, n1, n2, n3, x
<1>3. /\ p[2] = w2 /\ p[3] = w3 /\ p[4] = w4 /\ p[5] = n1 /\ p[6] = n2 /\ p[7] = n3 /\ p[8] = l[1]
      /\ (l[1] = FALSE /\ Len(l) = 1) \/ (l[1] = TRUE /\ Len(l) = 2)
      /\ Len(rest) \in Nat /\ \A i \in 1..Len(rest) : p[7 + Len(l) + i] = rest[i]
  <2> DEFINE T == {w1, w2, w3, w4, n1, n2, n3, x, TRUE, FALSE} \cup S
             w == <<w1, w2, w3, w4>>
             n == <<n1, n2, n3>>
             a == w \o n
             b == a \o l
  <2>12. p = b \o rest
    BY <1>2
  <2>1. w \in Seq(T) /\ Len(w) = 4 /\ w[2] = w2 /\ w[3] = w3 /\ w[4] = w4
    OBVIOUS
  <2>2. n \in Seq(T) /\ Len(n) = 3 /\ n[1] = n1 /\ n[2] = n2 /\ n[3] = n3
    OBVIOUS
  <2>3. l \in Seq(T) /\ ((l[1] = FALSE /\ Len(l) = 1) \/ (l[1] = TRUE /\ Len(l) = 2))
    <3>1. CASE l = <<FALSE>>
      BY <3>1
    <3>2. CASE l = <<TRUE, x>>
      BY <3>2
    <3> QED
      BY <1>7, <3>1, <3>2
  <2>4. rest \in Seq(T)
    <3>1. S \subseteq T
      OBVIOUS
    <3> HIDE DEF T
    <3> QED
      BY <3>1
  <2> HIDE DEF T, w, n, a, b
  <2>5. /\ a \in Seq(T) /\ Len(a) = Len(w) + Len(n)
        /\ \A i \in 1..Len(w) : a[i] = w[i]
        /\ \A i \in 1..Len(n) : a[Len(w) + i] = n[i]
    <3>1. w \in Seq(T) /\ n \in Seq(T)
      BY <2>1, <2>2
    <3>2. w \o n \in Seq(T) /\ Len(w \o n) = Len(w) + Len(n)
      BY <3>1, Joined
    <3>3. /\ \A i \in 1..Len(w) : (w \o n)[i] = w[i]
          /\ \A i \in 1..Len(n) : (w \o n)[Len(w) + i] = n[i]
      BY <3>1, Joined
    <3> QED
      BY <3>2, <3>3 DEF a
  <2>6. Len(a) = 7 /\ a[2] = w2 /\ a[3] = w3 /\ a[4] = w4 /\ a[5] = n1 /\ a[6] = n2 /\ a[7] = n3
    <3>1. a[2] = w[2] /\ a[3] = w[3] /\ a[4] = w[4] /\ a[4 + 1] = n[1] /\ a[4 + 2] = n[2] /\ a[4 + 3] = n[3]
      BY <2>1, <2>2, <2>5
    <3> QED
      BY <2>1, <2>2, <2>5, <3>1
  <2>7. /\ b \in Seq(T) /\ Len(b) = Len(a) + Len(l)
        /\ \A i \in 1..Len(a) : b[i] = a[i]
        /\ \A i \in 1..Len(l) : b[Len(a) + i] = l[i]
    <3>1. a \in Seq(T) /\ l \in Seq(T)
      BY <2>3, <2>5
    <3>2. a \o l \in Seq(T) /\ Len(a \o l) = Len(a) + Len(l)
      BY <3>1, Joined
    <3>3. /\ \A i \in 1..Len(a) : (a \o l)[i] = a[i]
          /\ \A i \in 1..Len(l) : (a \o l)[Len(a) + i] = l[i]
      BY <3>1, Joined
    <3> QED
      BY <3>2, <3>3 DEF b
  <2>8. /\ Len(b) = 7 + Len(l) /\ Len(l) \in Nat /\ Len(l) >= 1
        /\ b[2] = w2 /\ b[3] = w3 /\ b[4] = w4 /\ b[5] = n1 /\ b[6] = n2 /\ b[7] = n3 /\ b[8] = l[1]
    <3>1. b[2] = a[2] /\ b[3] = a[3] /\ b[4] = a[4] /\ b[5] = a[5] /\ b[6] = a[6] /\ b[7] = a[7] /\ b[7 + 1] = l[1]
      BY <2>3, <2>6, <2>7
    <3> QED
      BY <2>3, <2>6, <2>7, <3>1
  <2>9. /\ \A i \in 1..Len(b) : p[i] = b[i]
        /\ \A i \in 1..Len(rest) : p[Len(b) + i] = rest[i]
    <3>1. b \in Seq(T) /\ rest \in Seq(T)
      BY <2>4, <2>7
    <3>2. /\ \A i \in 1..Len(b) : (b \o rest)[i] = b[i]
          /\ \A i \in 1..Len(rest) : (b \o rest)[Len(b) + i] = rest[i]
      BY <3>1, Joined
    <3> QED
      BY <2>12, <3>2
  <2>10. /\ p[2] = b[2] /\ p[3] = b[3] /\ p[4] = b[4] /\ p[5] = b[5] /\ p[6] = b[6] /\ p[7] = b[7] /\ p[8] = b[8]
    BY <2>8, <2>9
  <2>11. Len(rest) \in Nat
    OBVIOUS
  <2> QED
    BY <2>3, <2>8, <2>9, <2>10, <2>11
<1>4. ReadData(p, 1) = CarriedEvent(r.event)
  <2>1. UpToNul(w2) = UpToNul(r.event.data)
    BY ReadUpToNul DEF IsEvent, w2
  <2>2. ReadData(p, 1) = [data |-> UpToNul(p[2]), code |-> p[3], want |-> p[4]]
    BY DEF ReadData
  <2>3. r.event = [data |-> r.event.data, code |-> r.event.code, want |-> r.event.want]
    BY DEF IsEvent
  <2>4. CarriedEvent(r.event) = [data |-> UpToNul(r.event.data), code |-> r.event.code, want |-> r.event.want]
    BY <2>3 DEF CarriedEvent
  <2> QED
    BY <1>3, <2>1, <2>2, <2>4 DEF w3, w4
<1>5. ReadPublishInfo(p, 5) = CarriedInfo(r.info)
  <2>1. ReadPublishInfo(p, 5) = [permissions |-> p[5], ordered |-> p[6], sticky |-> p[7]]
    BY DEF ReadPublishInfo
  <2>2. r.info = [permissions |-> r.info.permissions, ordered |-> r.info.ordered, sticky |-> r.info.sticky]
    BY DEF IsPublishInfo
  <2>3. CarriedInfo(r.info) = [permissions |-> n1, ordered |-> r.info.ordered, sticky |-> r.info.sticky]
    BY <2>2 DEF CarriedInfo, n1
  <2> QED
    BY <1>3, <2>1, <2>3 DEF n2, n3
<1>6. ASSUME NEW i \in 1..Len(rest) PROVE p[AfterLast(p) + (i - 1)] = rest[i]
  <2>1. AfterLast(p) = 8 + Len(l) /\ Len(l) \in Nat
    <3>1. p[8] = l[1] /\ ((l[1] = FALSE /\ Len(l) = 1) \/ (l[1] = TRUE /\ Len(l) = 2))
      BY <1>3
    <3>2. (p[8] = FALSE /\ Len(l) = 1) \/ (p[8] = TRUE /\ Len(l) = 2)
      BY <3>1
    <3>3. CASE p[8] = FALSE /\ Len(l) = 1
      BY <3>3 DEF AfterLast
    <3>4. CASE p[8] = TRUE /\ Len(l) = 2
      BY <3>4 DEF AfterLast
    <3> QED
      BY <3>2, <3>3, <3>4
  <2>2. 8 + Len(l) + (i - 1) = 7 + Len(l) + i
    BY <1>3, <2>1
  <2> QED
    BY <1>3, <2>1, <2>2
<1> QED
  BY <1>4, <1>5, <1>6 DEF p

LEMMA ReadSubscribed ==
    ASSUME NEW n, IsSubscribeInfo(n), NEW listener
    PROVE  /\ ReadSubscribeInfo(Append(WriteSubscribeInfo(n), listener), 1) = CarriedSubscription(n)
           /\ Append(WriteSubscribeInfo(n), listener)[9] = listener
<1> DEFINE a1 == Str8ToStr16(n.permission)
           a5 == Str8ToStr16(n.deviceId)
           b1 == Texts(n.skills.entities)
           b2 == Texts(n.skills.events)
           b3 == Texts(n.skills.schemes)
           a == <<a1, n.priority, n.user, n.threadMode, a5>>
           b == <<b1, b2, b3>>
           p == Append(WriteSubscribeInfo(n), listener)
           S == {a1, n.priority, n.user, n.threadMode, a5, b1, b2, b3, listener}
<1>1. p = Append(a \o b, listener)
  BY DEF WriteSubscribeInfo, WriteSkills
<1> HIDE DEF a1, a5, b1, b2, b3, p
<1>2. /\ a \in Seq(S) /\ Len(a) = 5 /\ a[1] = a1 /\ a[2] = n.priority /\ a[3] = n.user
      /\ a[4] = n.threadMode /\ a[5] = a5
  OBVIOUS
<1>3. b \in Seq(S) /\ Len(b) = 3 /\ b[1] = b1 /\ b[2] = b2 /\ b[3] = b3 /\ listener \in S
  OBVIOUS
<1> HIDE DEF a, b, S
<1>11. a \in Seq(S) /\ b \in Seq(S)
  BY <1>2, <1>3
<1>4. a \o b \in Seq(S) /\ Len(a \o b) = Len(a) + Len(b)
  BY <1>11, Joined
<1>5. /\ \A i \in 1..Len(a) : (a \o b)[i] = a[i]
      /\ \A i \in 1..Len(b) : (a \o b)[Len(a) + i] = b[i]
  BY <1>11, Joined
<1> DEFINE c == a \o b
<1>6. /\ c \in Seq(S) /\ Len(c) = 8 /\ c[1] = a1 /\ c[2] = n.priority /\ c[3] = n.user /\ c[4] = n.threadMode
      /\ c[5] = a5 /\ c[6] = b1 /\ c[7] = b2 /\ c[8] = b3
  <2>1. /\ c[1] = a[1] /\ c[2] = a[2] /\ c[3] = a[3] /\ c[4] = a[4] /\ c[5] = a[5]
        /\ c[5 + 1] = b[1] /\ c[5 + 2] = b[2] /\ c[5 + 3] = b[3]
    <3>1. Len(a) = 5 /\ Len(b) = 3
      BY <1>2, <1>3
    <3>2. (\A i \in 1..5 : c[i] = a[i]) /\ \A i \in 1..3 : c[5 + i] = b[i]
      BY <1>5, <3>1
    <3>3. c[1] = a[1] /\ c[2] = a[2] /\ c[3] = a[3] /\ c[4] = a[4] /\ c[5] = a[5]
      <4>1. 1 \in 1..5 /\ 2 \in 1..5 /\ 3 \in 1..5 /\ 4 \in 1..5 /\ 5 \in 1..5
        OBVIOUS
      <4> HIDE DEF c
      <4> QED
        BY <3>2, <4>1
    <3>4. 1 \in 1..3 /\ 2 \in 1..3 /\ 3 \in 1..3
      OBVIOUS
    <3>5. c[5 + 1] = b[1] /\ c[5 + 2] = b[2] /\ c[5 + 3] = b[3]
      BY <3>2, <3>4
    <3> QED
      BY <3>3, <3>5
  <2>2. 5 + 1 = 6 /\ 5 + 2 = 7 /\ 5 + 3 = 8
    OBVIOUS
  <2> QED
    BY <1>2, <1>3, <1>4, <2>1, <2>2
<1> HIDE DEF c
<1>7. /\ Append(c, listener)[Len(c) + 1] = listener
      /\ \A i \in 1..Len(c) : Append(c, listener)[i] = c[i] /\ c[i] \in S
  <2>1. c \in Seq(S) /\ listener \in S
    BY <1>3, <1>6
  <2> QED
    BY <2>1, Appended
<1>8. p = Append(c, listener)
  BY <1>1 DEF c
<1>9. /\ p[9] = listener /\ p[1] = c[1] /\ p[2] = c[2] /\ p[3] = c[3] /\ p[4] = c[4] /\ p[5] = c[5]
      /\ p[6] = c[6] /\ p[7] = c[7] /\ p[8] = c[8]
  BY <1>6, <1>7, <1>8
<1>10. ReadSubscribeInfo(p, 1) =
          [permission |-> p[1], priority |-> p[2], user |-> p[3], threadMode |-> p[4], deviceId |-> p[5],
           skills |-> [entities |-> p[6], events |-> p[7], schemes |-> p[8]]]
  BY DEF ReadSubscribeInfo, ReadSkills
<1>12. CarriedSkills(n.skills) = [entities |-> b1, events |-> b2, schemes |-> b3]
  BY DEF CarriedSkills, b1, b2, b3
<1>13. CarriedSubscription(n) =
           [permission |-> a1, priority |-> n.priority, user |-> n.user, threadMode |-> n.threadMode,
            deviceId |-> a5, skills |-> CarriedSkills(n.skills)]
  BY DEF CarriedSubscription, a1, a5
<1> QED
  BY <1>6, <1>9, <1>10, <1>12, <1>13 DEF p

\* Whatever call is written, the stub reads what Carried says.
LEMMA ReadIsCarried ==
    ASSUME NEW r, IsCall(r)
    PROVE  ReadRequest(r.op, WriteRequest(r)) = Carried(r)
<1> DEFINE p == WriteRequest(r)
           event == CarriedEvent(r.event)
           info == CarriedInfo(r.info)
<1>1. CASE r.op = "publish"
  <2> DEFINE rest == <<r.user>>
             q == WritePublish(r) \o rest
  <2>1. /\ IsEvent(r.event) /\ IsPublishInfo(r.info)
        /\ r = [op |-> r.op, event |-> r.event, info |-> r.info, last |-> r.last, user |-> r.user]
    BY <1>1 DEF IsCall
  <2>2. p = q
    BY <1>1 DEF WriteRequest
  <2>3. rest \in Seq({r.user}) /\ Len(rest) = 1 /\ rest[1] = r.user
    OBVIOUS
  <2> HIDE DEF p, rest
  <2>4. rest \in Seq({r.user}) /\ IsEvent(r.event) /\ IsPublishInfo(r.info)
    BY <2>1, <2>3
  <2>5. ReadData(q, 1) = event /\ ReadPublishInfo(q, 5) = info
    BY <2>4, ReadPublished
  <2>6. \A i \in 1..Len(rest) : q[AfterLast(q) + (i - 1)] = rest[i]
    BY <2>4, ReadPublished
  <2> HIDE DEF q
  <2>7. q[AfterLast(q)] = r.user
    <3>1. q[AfterLast(q) + (1 - 1)] = r.user
      BY <2>3, <2>6
    <3>2. AfterLast(q) + (1 - 1) = AfterLast(q)
      BY DEF AfterLast
    <3> QED
      BY <3>1, <3>2
  <2>8. ReadRequest(r.op, q) = [op |-> "publish", event |-> event, info |-> info, last |-> None, user |-> r.user]
    BY <1>1, <2>5, <2>7 DEF ReadRequest, ReadPublish
  <2>9. Carried(r) = [r EXCEPT !.last = None, !.event = CarriedEvent(@), !.info = CarriedInfo(@)]
    BY <1>1 DEF Carried
  <2>10. [r EXCEPT !.last = None, !.event = CarriedEvent(@), !.info = CarriedInfo(@)] =
            [op |-> r.op, event |-> event, info |-> info, last |-> None, user |-> r.user]
    <3>1. DOMAIN r = {"op", "event", "info", "last", "user"}
      BY <2>1
    <3>2. [r EXCEPT !.last = None, !.event = CarriedEvent(@), !.info = CarriedInfo(@)] =
              [f \in {"op", "event", "info", "last", "user"} |->
                  IF f = "info" THEN info ELSE IF f = "event" THEN event ELSE IF f = "last" THEN None ELSE r[f]]
      BY <3>1
    <3> QED
      BY <3>2
  <2> QED
    BY <1>1, <2>2, <2>8, <2>9, <2>10 DEF p
<1>2. CASE r.op = "publishAs"
  <2> DEFINE u == AsInt32(r.uid)
             rest == <<u, r.user>>
             q == WritePublish(r) \o rest
  <2>1. /\ IsEvent(r.event) /\ IsPublishInfo(r.info) /\ r.uid \in 0..2 ^ INT_BITS - 1
        /\ r = [op |-> r.op, event |-> r.event, info |-> r.info, last |-> r.last, uid |-> r.uid, user |-> r.user]
    BY <1>2 DEF IsCall
  <2>2. p = q
    BY <1>2 DEF WriteRequest
  <2>3. rest \in Seq({u, r.user}) /\ Len(rest) = 2 /\ rest[1] = u /\ rest[2] = r.user
    OBVIOUS
  <2> HIDE DEF p, rest, u
  <2>4. rest \in Seq({u, r.user}) /\ IsEvent(r.event) /\ IsPublishInfo(r.info)
    BY <2>1, <2>3
  <2>5. ReadData(q, 1) = event /\ ReadPublishInfo(q, 5) = info
    BY <2>4, ReadPublished
  <2>6. \A i \in 1..Len(rest) : q[AfterLast(q) + (i - 1)] = rest[i]
    BY <2>4, ReadPublished
  <2> HIDE DEF q
  <2>7. q[AfterLast(q)] = u /\ q[AfterLast(q) + 1] = r.user
    <3>1. q[AfterLast(q) + (1 - 1)] = u /\ q[AfterLast(q) + (2 - 1)] = r.user
      BY <2>3, <2>6
    <3>2. AfterLast(q) + (1 - 1) = AfterLast(q) /\ AfterLast(q) + (2 - 1) = AfterLast(q) + 1
      BY DEF AfterLast
    <3> QED
      BY <3>1, <3>2
  <2>8. AsUid(u) = r.uid
    BY <2>1, ReadUid DEF u
  <2>9. ReadRequest(r.op, q) =
            [op |-> "publishAs", event |-> event, info |-> info, last |-> None, uid |-> r.uid, user |-> r.user]
    BY <1>2, <2>5, <2>7, <2>8 DEF ReadRequest, ReadPublishAs, ReadUidAndUser
  <2>10. Carried(r) = [r EXCEPT !.last = None, !.event = CarriedEvent(@), !.info = CarriedInfo(@)]
    BY <1>2 DEF Carried
  <2>11. [r EXCEPT !.last = None, !.event = CarriedEvent(@), !.info = CarriedInfo(@)] =
            [op |-> r.op, event |-> event, info |-> info, last |-> None, uid |-> r.uid, user |-> r.user]
    <3>1. DOMAIN r = {"op", "event", "info", "last", "uid", "user"}
      BY <2>1
    <3>2. [r EXCEPT !.last = None, !.event = CarriedEvent(@), !.info = CarriedInfo(@)] =
              [f \in {"op", "event", "info", "last", "uid", "user"} |->
                  IF f = "info" THEN info ELSE IF f = "event" THEN event ELSE IF f = "last" THEN None ELSE r[f]]
      BY <3>1
    <3> QED
      BY <3>2
  <2> QED
    BY <1>2, <2>2, <2>9, <2>10, <2>11 DEF p
<1>3. CASE r.op = "subscribe"
  <2> DEFINE q == Append(WriteSubscribeInfo(r.info), r.listener)
  <2>1. IsSubscribeInfo(r.info) /\ r = [op |-> r.op, info |-> r.info, listener |-> r.listener]
    BY <1>3 DEF IsCall
  <2>2. p = q
    BY <1>3 DEF WriteRequest
  <2>3. ReadSubscribeInfo(q, 1) = CarriedSubscription(r.info) /\ q[9] = r.listener
    BY <2>1, ReadSubscribed
  <2> HIDE DEF p, q
  <2>4. ReadRequest(r.op, q) = [op |-> r.op, info |-> CarriedSubscription(r.info), listener |-> r.listener]
    BY <1>3, <2>3 DEF ReadRequest
  <2>5. Carried(r) = [r EXCEPT !.info = CarriedSubscription(@)]
    BY <1>3 DEF Carried
  <2>6. [r EXCEPT !.info = CarriedSubscription(@)]
            = [op |-> r.op, info |-> CarriedSubscription(r.info), listener |-> r.listener]
    BY <2>1
  <2> QED
    BY <2>2, <2>4, <2>5, <2>6 DEF p
<1>4. CASE r.op = "unsubscribe"
  <2>1. p = <<r.listener>> /\ Carried(r) = r /\ r = [op |-> r.op, listener |-> r.listener]
    BY <1>4 DEF WriteRequest, Carried, IsCall
  <2> QED
    BY <1>4, <2>1 DEF ReadRequest
<1>5. CASE r.op = "getSticky"
  <2>1. p = <<Str8ToStr16(r.name)>> /\ r = [op |-> r.op, name |-> r.name]
    BY <1>5 DEF WriteRequest, IsCall
  <2>2. Carried(r) = [r EXCEPT !.name = Str8ToStr16(@)]
    BY <1>5 DEF Carried
  <2>3. Carried(r) = [op |-> r.op, name |-> Str8ToStr16(r.name)]
    BY <2>1, <2>2
  <2> QED
    BY <1>5, <2>1, <2>3 DEF ReadRequest
<1>6. CASE r.op = "dump"
  <2>1. p = <<Str8ToStr16(r.name), r.user>> /\ r = [op |-> r.op, name |-> r.name, user |-> r.user]
    BY <1>6 DEF WriteRequest, IsCall
  <2>2. Carried(r) = [r EXCEPT !.name = Str8ToStr16(@)]
    BY <1>6 DEF Carried
  <2>3. Carried(r) = [op |-> r.op, name |-> Str8ToStr16(r.name), user |-> r.user]
    BY <2>1, <2>2
  <2> QED
    BY <1>6, <2>1, <2>3 DEF ReadRequest
<1>7. CASE r.op = "finish"
  <2>1. /\ p = <<r.listener, r.code, Str8ToStr16(r.data), r.abort>>
        /\ r = [op |-> r.op, listener |-> r.listener, code |-> r.code, data |-> r.data, abort |-> r.abort]
    BY <1>7 DEF WriteRequest, IsCall
  <2>2. Carried(r) = [r EXCEPT !.data = Str8ToStr16(@)]
    BY <1>7 DEF Carried
  <2>3. Carried(r) = [op |-> r.op, listener |-> r.listener, code |-> r.code, data |-> Str8ToStr16(r.data),
                      abort |-> r.abort]
    BY <2>1, <2>2
  <2> QED
    BY <1>7, <2>1, <2>3 DEF ReadRequest
<1>8. CASE r.op \in {"freeze", "unfreeze"}
  <2>1. p = <<AsInt32(r.uid)>> /\ Carried(r) = r
    BY <1>8 DEF WriteRequest, Carried
  <2>2. r = [op |-> r.op, uid |-> r.uid] /\ r.uid \in 0..2 ^ INT_BITS - 1
    BY <1>8 DEF IsCall
  <2>3. AsUid(AsInt32(r.uid)) = r.uid
    BY <2>2, ReadUid
  <2>4. ReadRequest(r.op, p) = [op |-> r.op, uid |-> AsUid(p[1])]
    BY <1>8 DEF ReadRequest
  <2> QED
    BY <2>1, <2>2, <2>3, <2>4
<1>9. CASE r.op = "notify"
  <2> DEFINE q == WriteNotify(r)
  <2>1. IsEvent(r.event) /\ r = [op |-> r.op, event |-> r.event, ordered |-> r.ordered, sticky |-> r.sticky]
    BY <1>9 DEF IsCall
  <2>2. p = q
    BY <1>9 DEF WriteRequest
  <2>3. ReadData(q, 1) = event /\ q[5] = r.ordered /\ q[6] = r.sticky
    BY <2>1, ReadNotified
  <2> HIDE DEF p, q
  <2>4. ReadRequest(r.op, q) = [op |-> "notify", event |-> event, ordered |-> r.ordered, sticky |-> r.sticky]
    BY <1>9, <2>3 DEF ReadRequest, ReadNotify
  <2>5. Carried(r) = [r EXCEPT !.event = CarriedEvent(@)]
    BY <1>9 DEF Carried
  <2>6. [r EXCEPT !.event = CarriedEvent(@)] =
            [op |-> r.op, event |-> event, ordered |-> r.ordered, sticky |-> r.sticky]
    BY <2>1
  <2> QED
    BY <1>9, <2>2, <2>4, <2>5, <2>6 DEF p
<1> QED
  BY <1>1, <1>2, <1>3, <1>4, <1>5, <1>6, <1>7, <1>8, <1>9 DEF IsCall

-----------------------------------------------------------------------------
(* The inductive invariant *)

\* What was asked is what is in the parcel, and what was served or answered
\* was read from it.
WireInv ==
    /\ asked = None => parcel = None
    /\ asked # None => IsCall(asked) /\ parcel = WriteRequest(asked)
    /\ parcel = None => served = None /\ reply = None /\ answer = None
    /\ served # None \/ reply # None \/ (answer # None /\ answer.ret) => served = ReadRequest(asked.op, parcel)

\* The options read so far and what they add up to.
Before(o, n) == {i \in 1..n : line.options[i].option = o}
LastBefore(o, n, otherwise) == IF Before(o, n) # {} THEN line.options[Max(Before(o, n))].value ELSE otherwise
ReadUpTo(n) ==
    [action |-> LastBefore("e", n, Empty), sticky |-> Before("s", n) # {}, ordered |-> Before("o", n) # {},
     code |-> Atoi(LastBefore("c", n, Empty)), data |-> LastBefore("d", n, <<>>),
     user |-> IF Before("u", n) # {} THEN Atoi(LastBefore("u", n, Empty)) ELSE ALL_USER]

OptionsType ==
    [action : EventNames, sticky : BOOLEAN, ordered : BOOLEAN, code : Int, data : Bytes, user : Int]

LineInv ==
    /\ line \in CommandLines \cup {None} /\ options \in OptionsType
    /\ line = None => output = None

OptionsInv ==
    line # None =>
        /\ at \in 0..Len(line.options)
        /\ line.cmd # "publish" => options = NoOptions
        /\ line.cmd = "publish" /\ result = "ERR_OK" =>
               options = ReadUpTo(at) /\ \A i \in 1..at : ~Refuses(line.options[i])
        /\ line.cmd = "publish" /\ result # "ERR_OK" /\ output = None =>
               \E i \in 1..Len(line.options) : Refuses(line.options[i])

\* The command line asks for a publication.
Asks == ~Given("?") /\ ~Given("h") /\ LastValue("e", Empty) # Empty

Publication ==
    [op |-> "publish",
     event |-> [data |-> LastValue("d", <<>>), code |-> Atoi(LastValue("c", Empty)),
                want |-> [action |-> LastValue("e", Empty), entities |-> {}, scheme |-> Empty]],
     info |-> [permissions |-> <<>>, ordered |-> Given("o"), sticky |-> Given("s")],
     last |-> None, user |-> UserAsked]

DumpName == IF FirstOption.option = "e" THEN FirstOption.value ELSE Empty
DumpUser == IF FirstOption.option = "u" THEN Atoi(FirstOption.value) ELSE ALL_USER

\* A dump that was made, and what is answered and printed of it.
Dumped == DumpState(Subscribers, State, Str8ToStr16(DumpName), DumpUser)
Taken == SubSeq(<<Len(Dumped)>> \o Dumped, 2, 1 + LinesTaken((<<Len(Dumped)>> \o Dumped)[1]))

AskedInv ==
    line # None /\ asked # None =>
        \/ /\ line.cmd = "publish" /\ Asks /\ output # "help"
           /\ asked = Publication /\ asked \in PublishCalls
        \/ /\ line.cmd = "dump" /\ FirstOption.option \in {"a", "e", "u"}
           /\ asked = [op |-> "dump", name |-> DumpName, user |-> DumpUser]
           /\ output = None \/ output = Failed \/ output = Taken

OutputInv ==
    line # None /\ line.cmd = "publish" /\ output # None =>
        /\ output = "help" => ~Asks
        /\ output # "help" => asked # None
        /\ output = "published" => answer # None /\ answer.ret

DumpInv ==
    line # None /\ line.cmd = "dump" =>
        /\ reply # None => reply = <<Len(Dumped)>> \o Dumped
        /\ answer # None /\ answer.ret => answer.value = Taken

IInv == WireInv /\ LineInv /\ OptionsInv /\ AskedInv /\ OutputInv /\ DumpInv /\ EntitledReceive

-----------------------------------------------------------------------------
(* What the options of a command line add up to *)

LEMMA AtoiFacts == \A t : Atoi(t) \in Int /\ Atoi(Empty) = 0
BY ToolAssumption DEF Atoi

LEMMA CallsOfTheTool ==
    /\ \A r \in PublishCalls : IsCall(r) /\ r # None
    /\ \A r \in DumpCalls : IsCall(r) /\ r # None
<1>1. ASSUME NEW r \in PublishCalls PROVE IsCall(r) /\ r # None
  <2>1. r.op = "publish" /\ r = [op |-> r.op, event |-> r.event, info |-> r.info, last |-> r.last, user |-> r.user]
    BY DEF PublishCalls
  <2>2. r.event = [data |-> r.event.data, code |-> r.event.code, want |-> r.event.want] /\ r.event.data \in Bytes
    BY DEF PublishCalls
  <2>3. r.info = [permissions |-> r.info.permissions, ordered |-> r.info.ordered, sticky |-> r.info.sticky]
    BY DEF PublishCalls
  <2> QED
    BY <2>1, <2>2, <2>3, ToolAssumption DEF IsCall, IsEvent, IsPublishInfo
<1>2. ASSUME NEW r \in DumpCalls PROVE IsCall(r) /\ r # None
  <2>1. r.op = "dump" /\ r = [op |-> r.op, name |-> r.name, user |-> r.user]
    BY DEF DumpCalls
  <2> QED
    BY <2>1, ToolAssumption DEF IsCall
<1> QED
  BY <1>1, <1>2

LEMMA ApplyType ==
    ASSUME options \in OptionsType, NEW o \in Options
    PROVE  Apply(o) \in OptionsType
<1>1. o.option = "e" => o.value \in EventNames
  BY DEF EventNames
<1>2. o.option = "d" => o.value \in Bytes
  <2>1. Seq(1..255) \subseteq Seq(0..255)
    OBVIOUS
  <2> QED
    BY <2>1, ToolAssumption DEF Bytes
<1>3. Atoi(o.value) \in Int
  BY AtoiFacts
<1> QED
  BY <1>1, <1>2, <1>3 DEF Apply, OptionsType

LEMMA OptionOfLine ==
    ASSUME line \in CommandLines
    PROVE  line.options \in Seq(Options) /\ Len(line.options) \in Nat
BY ToolAssumption

\* One option more.
LEMMA OneMore ==
    ASSUME NEW n \in Nat, NEW o, NEW otherwise
    PROVE  /\ Before(o, n + 1) = IF line.options[n + 1].option = o THEN Before(o, n) \cup {n + 1} ELSE Before(o, n)
           /\ LastBefore(o, n + 1, otherwise) =
                  IF line.options[n + 1].option = o THEN line.options[n + 1].value ELSE LastBefore(o, n, otherwise)
<1>1. 1..n + 1 = 1..n \cup {n + 1}
  OBVIOUS
<1>2. Before(o, n + 1) = IF line.options[n + 1].option = o THEN Before(o, n) \cup {n + 1} ELSE Before(o, n)
  BY <1>1 DEF Before
<1>3. CASE line.options[n + 1].option = o
  <2> DEFINE B == Before(o, n + 1)
  <2>1. n + 1 \in B /\ B \subseteq 1..n + 1
    BY <1>3 DEF Before
  <2> HIDE DEF B
  <2>2. n + 1 \in B /\ (\A y \in B : n + 1 >= y) /\ \A x \in B : x >= n + 1 => x = n + 1
    BY <2>1
  <2>3. Max(B) = n + 1
    BY <2>2 DEF Max
  <2> QED
    BY <1>2, <1>3, <2>1, <2>3 DEF LastBefore, B
<1>4. CASE line.options[n + 1].option # o
  BY <1>2, <1>4 DEF LastBefore
<1> QED
  BY <1>2, <1>3, <1>4

LEMMA NoneRead == ReadUpTo(0) = NoOptions
<1>1. \A o : Before(o, 0) = {}
  BY DEF Before
<1> QED
  BY <1>1, AtoiFacts DEF ReadUpTo, LastBefore, NoOptions

\* An option is applied to what those before it add up to.
LEMMA ApplyReadsOn ==
    ASSUME NEW n \in Nat, options = ReadUpTo(n)
    PROVE  Apply(line.options[n + 1]) = ReadUpTo(n + 1)
<1> DEFINE o == line.options[n + 1]
           m == n + 1
           e == LastBefore("e", m, Empty)
           s == Before("s", m) # {}
           q == Before("o", m) # {}
           c == LastBefore("c", m, Empty)
           d == LastBefore("d", m, <<>>)
           user == IF Before("u", m) # {} THEN Atoi(LastBefore("u", m, Empty)) ELSE ALL_USER
<1>1. e = IF o.option = "e" THEN o.value ELSE options.action
  BY OneMore DEF ReadUpTo
<1>2. s = (o.option = "s" \/ options.sticky) /\ q = (o.option = "o" \/ options.ordered)
  BY OneMore DEF ReadUpTo
<1>3. Atoi(c) = IF o.option = "c" THEN Atoi(o.value) ELSE options.code
  BY OneMore DEF ReadUpTo
<1>4. d = IF o.option = "d" THEN o.value ELSE options.data
  BY OneMore DEF ReadUpTo
<1>5. user = IF o.option = "u" THEN Atoi(o.value) ELSE options.user
  BY OneMore DEF ReadUpTo
<1>6. ReadUpTo(m) = [action |-> e, sticky |-> s, ordered |-> q, code |-> Atoi(c), data |-> d,
                     user |-> user]
  BY DEF ReadUpTo
<1>7. /\ options = [action |-> options.action, sticky |-> options.sticky, ordered |-> options.ordered,
                    code |-> options.code, data |-> options.data, user |-> options.user]
      /\ options.sticky \in BOOLEAN /\ options.ordered \in BOOLEAN
  BY DEF ReadUpTo
<1> HIDE DEF o, e, s, q, c, d, user, m
<1>8. CASE o.option = "e"
  <2>1. Apply(o) = [options EXCEPT !.action = o.value]
    BY <1>8 DEF Apply
  <2>2. Apply(o) =
                [action |-> o.value, sticky |-> options.sticky, ordered |-> options.ordered, code |-> options.code,
                 data |-> options.data, user |-> options.user]
    BY <1>7, <2>1
  <2>3. /\ e = o.value /\ s = options.sticky /\ q = options.ordered
        /\ Atoi(c) = options.code /\ d = options.data /\ user = options.user
    BY <1>1, <1>2, <1>3, <1>4, <1>5, <1>7, <1>8
  <2> QED
    BY <1>6, <2>2, <2>3 DEF o, m
<1>9. CASE o.option = "s"
  <2>1. Apply(o) = [options EXCEPT !.sticky = TRUE]
    BY <1>9 DEF Apply
  <2>2. Apply(o) =
                [action |-> options.action, sticky |-> TRUE, ordered |-> options.ordered, code |-> options.code,
                 data |-> options.data, user |-> options.user]
    BY <1>7, <2>1
  <2>3. /\ e = options.action /\ s = TRUE /\ q = options.ordered
        /\ Atoi(c) = options.code /\ d = options.data /\ user = options.user
    BY <1>1, <1>2, <1>3, <1>4, <1>5, <1>7, <1>9
  <2> QED
    BY <1>6, <2>2, <2>3 DEF o, m
<1>10. CASE o.option = "o"
  <2>1. Apply(o) = [options EXCEPT !.ordered = TRUE]
    BY <1>10 DEF Apply
  <2>2. Apply(o) =
                [action |-> options.action, sticky |-> options.sticky, ordered |-> TRUE, code |-> options.code,
                 data |-> options.data, user |-> options.user]
    BY <1>7, <2>1
  <2>3. /\ e = options.action /\ s = options.sticky /\ q = TRUE
        /\ Atoi(c) = options.code /\ d = options.data /\ user = options.user
    BY <1>1, <1>2, <1>3, <1>4, <1>5, <1>7, <1>10
  <2> QED
    BY <1>6, <2>2, <2>3 DEF o, m
<1>11. CASE o.option = "c"
  <2>1. Apply(o) = [options EXCEPT !.code = Atoi(o.value)]
    BY <1>11 DEF Apply
  <2>2. Apply(o) =
                [action |-> options.action, sticky |-> options.sticky, ordered |-> options.ordered, code |-> Atoi(o.value),
                 data |-> options.data, user |-> options.user]
    BY <1>7, <2>1
  <2>3. /\ e = options.action /\ s = options.sticky /\ q = options.ordered
        /\ Atoi(c) = Atoi(o.value) /\ d = options.data /\ user = options.user
    BY <1>1, <1>2, <1>3, <1>4, <1>5, <1>7, <1>11
  <2> QED
    BY <1>6, <2>2, <2>3 DEF o, m
<1>12. CASE o.option = "d"
  <2>1. Apply(o) = [options EXCEPT !.data = o.value]
    BY <1>12 DEF Apply
  <2>2. Apply(o) =
                [action |-> options.action, sticky |-> options.sticky, ordered |-> options.ordered, code |-> options.code,
                 data |-> o.value, user |-> options.user]
    BY <1>7, <2>1
  <2>3. /\ e = options.action /\ s = options.sticky /\ q = options.ordered
        /\ Atoi(c) = options.code /\ d = o.value /\ user = options.user
    BY <1>1, <1>2, <1>3, <1>4, <1>5, <1>7, <1>12
  <2> QED
    BY <1>6, <2>2, <2>3 DEF o, m
<1>13. CASE o.option = "u"
  <2>1. Apply(o) = [options EXCEPT !.user = Atoi(o.value)]
    BY <1>13 DEF Apply
  <2>2. Apply(o) =
                [action |-> options.action, sticky |-> options.sticky, ordered |-> options.ordered, code |-> options.code,
                 data |-> options.data, user |-> Atoi(o.value)]
    BY <1>7, <2>1
  <2>3. /\ e = options.action /\ s = options.sticky /\ q = options.ordered
        /\ Atoi(c) = options.code /\ d = options.data /\ user = Atoi(o.value)
    BY <1>1, <1>2, <1>3, <1>4, <1>5, <1>7, <1>13
  <2> QED
    BY <1>6, <2>2, <2>3 DEF o, m
<1>14. CASE o.option \notin {"e", "s", "o", "c", "d", "u"}
  <2>1. Apply(o) = options
    BY <1>14 DEF Apply
  <2>2. /\ e = options.action /\ s = options.sticky /\ q = options.ordered
        /\ Atoi(c) = options.code /\ d = options.data /\ user = options.user
    BY <1>1, <1>2, <1>3, <1>4, <1>5, <1>7, <1>14
  <2> QED
    BY <1>6, <1>7, <2>1, <2>2 DEF o, m
<1> QED
  BY <1>8, <1>9, <1>10, <1>11, <1>12, <1>13, <1>14 DEF o, m

\* The last values on the line are those of all its options.
LEMMA AllRead ==
    ASSUME NEW n, n = Len(line.options), options = ReadUpTo(n)
    PROVE  /\ options.action = LastValue("e", Empty) /\ options.data = LastValue("d", <<>>)
           /\ options.code = Atoi(LastValue("c", Empty)) /\ options.user = UserAsked
           /\ options.ordered = Given("o") /\ options.sticky = Given("s")
BY DEF ReadUpTo, LastBefore, Before, LastValue, Given, Places, UserAsked

LEMMA RefusedIsGiven ==
    /\ (\E i \in 1..Len(line.options) : Refuses(line.options[i])) => Given("?") \/ Given("h")
    /\ (\A i \in 1..Len(line.options) : ~Refuses(line.options[i])) => ~Given("?") /\ ~Given("h")
BY DEF Refuses, Given, Places

-----------------------------------------------------------------------------
(* Every step keeps the invariant *)

\* The actions, by what they do to the line, the options and the output.
Idle == UNCHANGED <<line, at, options, result, output>>

LEMMA StepKinds ==
    ASSUME [Next]_vars
    PROVE  /\ line' = line
           /\ \/ Idle
              \/ ReadPublishOption \/ RefusePublish \/ RefuseDump \/ RunAsHelpCommand \/ PrintResult
           /\ \/ UNCHANGED wireVars
              \/ AskPublish \/ AskDump
              \/ line = None /\ \E r \in Requests : Ask(r)
              \/ \E x : Serve(x)
              \/ SendFails \/ Return
           /\ UNCHANGED receivers \/ ServePublish
<1>1. CASE UNCHANGED vars
  BY <1>1 DEF vars, toolVars, Idle
<1>2. CASE ReadPublishOption
  BY <1>2 DEF ReadPublishOption
<1>3. CASE RefusePublish
  BY <1>3 DEF RefusePublish, PrintHelp
<1>4. CASE AskPublish
  BY <1>4 DEF AskPublish, toolVars, Idle
<1>5. CASE RefuseDump
  BY <1>5 DEF RefuseDump, PrintHelp
<1>6. CASE AskDump
  BY <1>6 DEF AskDump, toolVars, Idle
<1>7. CASE RunAsHelpCommand
  BY <1>7 DEF RunAsHelpCommand
<1>8. CASE PrintResult
  BY <1>8 DEF PrintResult
<1>9. CASE AskOther
  BY <1>9 DEF AskOther, toolVars, Idle
<1>10. CASE ServePublish
  BY <1>10 DEF ServePublish, Idle
<1>11. CASE ServeDump
  BY <1>11 DEF ServeDump, toolVars, Idle
<1>12. CASE ServeOther
  BY <1>12 DEF ServeOther, toolVars, Idle
<1>13. CASE Wire
  BY <1>13 DEF Wire, toolVars, Idle
<1> QED
  BY <1>1, <1>2, <1>3, <1>4, <1>5, <1>6, <1>7, <1>8, <1>9, <1>10, <1>11, <1>12, <1>13 DEF Next

\* What a command asks for.
LEMMA AskedPublish ==
    ASSUME LineInv, AskPublish
    PROVE  asked' \in PublishCalls /\ Ask(asked')
<1>1. Ask([op |-> "publish",
           event |-> [data |-> options.data, code |-> options.code,
                      want |-> [action |-> options.action, entities |-> {}, scheme |-> Empty]],
           info |-> [permissions |-> <<>>, ordered |-> options.ordered, sticky |-> options.sticky],
           last |-> None, user |-> options.user])
  BY DEF AskPublish
<1>2. asked' = [op |-> "publish",
                event |-> [data |-> options.data, code |-> options.code,
                           want |-> [action |-> options.action, entities |-> {}, scheme |-> Empty]],
                info |-> [permissions |-> <<>>, ordered |-> options.ordered, sticky |-> options.sticky],
                last |-> None, user |-> options.user]
  BY <1>1 DEF Ask
<1>3. /\ options.action \in EventNames /\ options.sticky \in BOOLEAN /\ options.ordered \in BOOLEAN
      /\ options.code \in Int /\ options.data \in Bytes /\ options.user \in Int
  BY DEF LineInv, OptionsType
<1>4. asked'.event \in [data : Bytes, code : Int, want : [action : EventNames, entities : {{}}, scheme : {Empty}]]
  BY <1>2, <1>3
<1>5. asked'.info \in [permissions : {<<>>}, ordered : BOOLEAN, sticky : BOOLEAN]
  BY <1>2, <1>3
<1>6. asked' = [op |-> "publish", event |-> asked'.event, info |-> asked'.info, last |-> None, user |-> options.user]
  BY <1>2
<1> QED
  BY <1>1, <1>2, <1>3, <1>4, <1>5, <1>6 DEF PublishCalls

LEMMA AskedDump ==
    ASSUME LineInv, OptionsInv, AskDump
    PROVE  /\ asked' = [op |-> "dump", name |-> DumpName, user |-> DumpUser]
           /\ asked' \in DumpCalls /\ Ask(asked')
<1> DEFINE o == FirstOption
<1>1. line # None /\ line.cmd = "dump" /\ o.option \in {"a", "e", "u"} /\ options = NoOptions /\ line \in CommandLines
  BY DEF AskDump, Reading, OptionsInv, LineInv
<1>2. o \in Options
  <2>1. CASE line.options = <<>>
    BY <1>1, <2>1, ToolAssumption DEF FirstOption
  <2>2. CASE line.options # <<>>
    <3>1. line.options \in Seq(Options)
      BY <1>1, OptionOfLine
    <3> QED
      BY <2>2, <3>1 DEF FirstOption
  <2> QED
    BY <2>1, <2>2
<1>3. Apply(o).action = DumpName /\ Apply(o).user = DumpUser
  <2>1. options = [action |-> Empty, sticky |-> FALSE, ordered |-> FALSE, code |-> 0, data |-> <<>>, user |-> ALL_USER]
    BY <1>1 DEF NoOptions
  <2> HIDE DEF o
  <2>2. CASE o.option = "a"
    BY <2>1, <2>2 DEF Apply, DumpName, DumpUser, o
  <2>3. CASE o.option = "e"
    BY <2>1, <2>3 DEF Apply, DumpName, DumpUser, o
  <2>4. CASE o.option = "u"
    BY <2>1, <2>4 DEF Apply, DumpName, DumpUser, o
  <2> QED
    BY <1>1, <2>2, <2>3, <2>4
<1>4. DumpName \in EventNames /\ DumpUser \in Int
  BY <1>2, AtoiFacts DEF DumpName, DumpUser, EventNames, ALL_USER
<1>5. Ask([op |-> "dump", name |-> DumpName, user |-> DumpUser])
  BY <1>3 DEF AskDump
<1> QED
  BY <1>4, <1>5 DEF Ask, DumpCalls

LEMMA WireStep ==
    ASSUME IInv, [Next]_vars
    PROVE  WireInv'
<1>1. WireInv
  BY DEF IInv
<1>2. CASE UNCHANGED wireVars
  BY <1>1, <1>2 DEF WireInv, wireVars
<1>3. ASSUME NEW r, IsCall(r), r # None, Ask(r)
      PROVE  WireInv'
  BY <1>1, <1>3 DEF WireInv, Ask
<1>4. ASSUME NEW x, Serve(x)
      PROVE  WireInv'
  BY <1>1, <1>4 DEF WireInv, Serve
<1>5. CASE SendFails
  BY <1>1, <1>5 DEF WireInv, SendFails, Failure
<1>6. CASE Return
  BY <1>1, <1>6 DEF WireInv, Return
<1>7. CASE AskPublish
  BY <1>3, <1>7, AskedPublish, CallsOfTheTool DEF IInv
<1>8. CASE AskDump
  BY <1>3, <1>8, AskedDump, CallsOfTheTool DEF IInv
<1>9. CASE \E r \in Requests : Ask(r)
  BY <1>3, <1>9, ToolAssumption
<1> QED
  BY <1>2, <1>4, <1>5, <1>6, <1>7, <1>8, <1>9, StepKinds

LEMMA LineStep ==
    ASSUME IInv, [Next]_vars
    PROVE  LineInv'
<1>1. LineInv /\ line' = line
  BY StepKinds DEF IInv
<1>2. CASE Idle
  BY <1>1, <1>2 DEF LineInv, Idle
<1>3. CASE ReadPublishOption
  <2>1. line \in CommandLines /\ line # None /\ options' = Apply(line.options[at + 1]) /\ output' = output
        /\ at < Len(line.options) /\ at \in 0..Len(line.options)
    BY <1>1, <1>3 DEF ReadPublishOption, Reading, LineInv, IInv, OptionsInv, More
  <2>2. line.options[at + 1] \in Options
    BY <2>1, OptionOfLine
  <2> QED
    BY <1>1, <2>1, <2>2, ApplyType DEF LineInv
<1>4. CASE RefusePublish \/ RefuseDump
  BY <1>1, <1>4 DEF RefusePublish, RefuseDump, PrintHelp, LineInv, Reading
<1>5. CASE RunAsHelpCommand \/ PrintResult
  BY <1>1, <1>5 DEF RunAsHelpCommand, PrintResult, LineInv, Reading
<1> QED
  BY <1>2, <1>3, <1>4, <1>5, StepKinds

LEMMA OptionsStep ==
    ASSUME IInv, [Next]_vars
    PROVE  OptionsInv'
<1>1. LineInv /\ OptionsInv /\ line' = line
  BY StepKinds DEF IInv
<1>6. at' = at => ReadUpTo(at)' = ReadUpTo(at)
  BY <1>1 DEF ReadUpTo, LastBefore, Before, Atoi
<1>2. CASE Idle
  BY <1>1, <1>2, <1>6 DEF OptionsInv, Idle, Refuses
<1>3. CASE ReadPublishOption
  <2> DEFINE o == line.options[at + 1]
  <2>1. /\ line \in CommandLines /\ line # None /\ line.cmd = "publish"
        /\ at < Len(line.options) /\ at \in 0..Len(line.options) /\ Len(line.options) \in Nat
    BY <1>1, <1>3, OptionOfLine DEF ReadPublishOption, Reading, LineInv, OptionsInv, More
  <2>2. /\ options' = Apply(o) /\ output' = output /\ output = None
        /\ result' = IF Refuses(o) THEN "ERR_INVALID_VALUE" ELSE result
        /\ at' = IF o.option = "?" THEN Len(line.options) ELSE at + 1
    BY <1>3 DEF ReadPublishOption, Reading
  <2>3. at' \in 0..Len(line'.options) /\ at + 1 \in 1..Len(line.options)
    BY <1>1, <2>1, <2>2
  <2>4. CASE Refuses(o)
    <3>1. result' # "ERR_OK" /\ \E i \in 1..Len(line'.options) : Refuses(line'.options[i])
      BY <1>1, <2>2, <2>3, <2>4
    <3>2. line'.cmd = "publish"
      BY <1>1, <2>1
    <3> QED
      BY <2>3, <3>1, <3>2 DEF OptionsInv, Refuses
  <2>5. CASE ~Refuses(o)
    <3>1. result' = result /\ at' = at + 1 /\ line'.cmd = "publish" /\ output' = None
      BY <1>1, <2>1, <2>2, <2>5 DEF Refuses
    <3>2. CASE result = "ERR_OK"
      <4>1. options = ReadUpTo(at) /\ (\A i \in 1..at : ~Refuses(line.options[i])) /\ at \in Nat
        BY <1>1, <2>1, <3>2 DEF OptionsInv
      <4>2. options' = ReadUpTo(at + 1)
        BY <2>2, <4>1, ApplyReadsOn
      <4>3. ReadUpTo(at)' = ReadUpTo(at + 1)
        BY <1>1, <3>1 DEF ReadUpTo, LastBefore, Before, Atoi
      <4>4. \A i \in 1..at + 1 : ~Refuses(line.options[i])
        BY <2>5, <4>1
      <4>5. \A i \in 1..at' : ~Refuses(line'.options[i])
        BY <1>1, <3>1, <4>4
      <4> QED
        BY <2>3, <3>1, <3>2, <4>2, <4>3, <4>5 DEF OptionsInv, Refuses
    <3>3. CASE result # "ERR_OK"
      <4>1. \E i \in 1..Len(line'.options) : Refuses(line'.options[i])
        BY <1>1, <2>1, <2>2, <3>3 DEF OptionsInv
      <4> QED
        BY <2>3, <3>1, <3>3, <4>1 DEF OptionsInv, Refuses
    <3> QED
      BY <3>2, <3>3
  <2> QED
    BY <2>4, <2>5
<1>4. CASE RefusePublish \/ RefuseDump
  <2>1. result' # "ERR_OK" /\ output' # None /\ at' = at /\ options' = options
    BY <1>4, ToolAssumption DEF RefusePublish, RefuseDump, PrintHelp
  <2> QED
    BY <1>1, <2>1 DEF OptionsInv
<1>5. CASE RunAsHelpCommand \/ PrintResult
  <2>1. result' = result /\ at' = at /\ options' = options /\ (output' = None => output = None)
    BY <1>5 DEF RunAsHelpCommand, PrintResult, Reading
  <2> QED
    BY <1>1, <1>6, <2>1 DEF OptionsInv, Refuses
<1> QED
  BY <1>2, <1>3, <1>4, <1>5, StepKinds

\* The line stays, and with it what it asks for.
LEMMA SameLine ==
    ASSUME line' = line
    PROVE  /\ Asks' = Asks /\ Publication' = Publication
           /\ FirstOption' = FirstOption /\ DumpName' = DumpName /\ DumpUser' = DumpUser
           /\ Dumped' = Dumped /\ Taken' = Taken
<1>1. /\ FirstOption' = FirstOption /\ \A o : Places(o)' = Places(o)
  BY DEF FirstOption, Places
<1>2. DumpName' = DumpName /\ DumpUser' = DumpUser
  BY <1>1 DEF DumpName, DumpUser, Atoi
<1>3. Dumped' = Dumped
  BY <1>2 DEF Dumped
<1> QED
  BY <1>1, <1>2, <1>3 DEF Asks, Publication, Given, Places, LastValue, UserAsked, Atoi, Taken

\* A command that publishes has read its whole line, and asks for what it says.
LEMMA AskedIsPublication ==
    ASSUME IInv, AskPublish
    PROVE  asked' = Publication /\ Asks
<1>1. /\ line # None /\ line \in CommandLines /\ line.cmd = "publish" /\ ~More
      /\ result = "ERR_OK" /\ options.action # Empty
  BY DEF AskPublish, Reading, IInv, LineInv
<1>2. at \in 0..Len(line.options) /\ options = ReadUpTo(at) /\ \A i \in 1..at : ~Refuses(line.options[i])
  BY <1>1 DEF IInv, OptionsInv
<1>3. at = Len(line.options)
  BY <1>1, <1>2, OptionOfLine DEF More
<1>4. /\ options.action = LastValue("e", Empty) /\ options.data = LastValue("d", <<>>)
      /\ options.code = Atoi(LastValue("c", Empty)) /\ options.user = UserAsked
      /\ options.ordered = Given("o") /\ options.sticky = Given("s")
  BY <1>2, <1>3, AllRead
<1>5. ~Given("?") /\ ~Given("h")
  BY <1>2, <1>3, RefusedIsGiven
<1>6. Asks
  BY <1>1, <1>4, <1>5 DEF Asks
<1>7. asked' = [op |-> "publish",
                event |-> [data |-> options.data, code |-> options.code,
                           want |-> [action |-> options.action, entities |-> {}, scheme |-> Empty]],
                info |-> [permissions |-> <<>>, ordered |-> options.ordered, sticky |-> options.sticky],
                last |-> None, user |-> options.user]
  BY DEF AskPublish, Ask
<1> QED
  BY <1>4, <1>6, <1>7 DEF Publication

LEMMA RefusedAsksNot ==
    ASSUME IInv, RefusePublish
    PROVE  ~Asks
<1>1. /\ line # None /\ line \in CommandLines /\ line.cmd = "publish" /\ ~More /\ output = None
      /\ line.options = <<>> \/ result # "ERR_OK" \/ options.action = Empty
  BY DEF RefusePublish, Reading, IInv, LineInv
<1>2. CASE line.options = <<>>
  <2>1. ~Given("e")
    BY <1>2 DEF Given, Places
  <2> QED
    BY <2>1 DEF Asks, LastValue
<1>3. CASE result # "ERR_OK"
  <2>1. \E i \in 1..Len(line.options) : Refuses(line.options[i])
    BY <1>1, <1>3 DEF IInv, OptionsInv
  <2> QED
    BY <2>1, RefusedIsGiven DEF Asks
<1>4. CASE result = "ERR_OK" /\ options.action = Empty
  <2>1. at \in 0..Len(line.options) /\ options = ReadUpTo(at)
    BY <1>1, <1>4 DEF IInv, OptionsInv
  <2>2. at = Len(line.options)
    BY <1>1, <2>1, OptionOfLine DEF More
  <2> QED
    BY <1>4, <2>1, <2>2, AllRead DEF Asks
<1> QED
  BY <1>1, <1>2, <1>3, <1>4

\* A call and an answer stay; there is no answer without a call.
LEMMA WireKeeps ==
    ASSUME IInv, [Next]_vars
    PROVE  /\ asked # None => asked' = asked
           /\ answer # None => answer' = answer /\ asked # None
<1>1. WireInv
  BY DEF IInv
<1>2. answer # None => asked # None
  BY <1>1 DEF WireInv
<1>3. CASE UNCHANGED wireVars
  BY <1>2, <1>3 DEF wireVars
<1>4. ASSUME NEW r, Ask(r)
      PROVE  asked = None /\ answer' = answer
  BY <1>4 DEF Ask
<1>5. CASE AskPublish
  BY <1>2, <1>4, <1>5, AskedPublish DEF IInv
<1>6. CASE AskDump
  BY <1>2, <1>4, <1>6, AskedDump DEF IInv
<1>7. CASE \E r \in Requests : Ask(r)
  BY <1>2, <1>4, <1>7
<1>8. CASE \E x : Serve(x)
  BY <1>2, <1>8 DEF Serve
<1>9. CASE SendFails \/ Return
  BY <1>2, <1>9 DEF SendFails, Return
<1> QED
  BY <1>3, <1>5, <1>6, <1>7, <1>8, <1>9, StepKinds

\* A refused request prints neither of the words.
LEMMA FailedIsNoWord == Failed # "help" /\ Failed # "published"
BY ToolAssumption

LEMMA AskedStep ==
    ASSUME IInv, [Next]_vars
    PROVE  AskedInv'
<1>1. AskedInv /\ line' = line
  BY StepKinds DEF IInv
<1>2. /\ Asks' = Asks /\ Publication' = Publication
      /\ FirstOption' = FirstOption /\ DumpName' = DumpName /\ DumpUser' = DumpUser /\ Taken' = Taken
  BY <1>1, SameLine
<1>3. CASE AskPublish
  <2>1. asked' = Publication /\ Asks /\ asked' \in PublishCalls
    BY <1>3, AskedIsPublication, AskedPublish DEF IInv
  <2>2. line.cmd = "publish" /\ output' = None
    BY <1>3 DEF AskPublish, Reading, toolVars
  <2> QED
    BY <1>1, <1>2, <2>1, <2>2, ToolAssumption DEF AskedInv
<1>4. CASE AskDump
  <2>1. asked' = [op |-> "dump", name |-> DumpName, user |-> DumpUser]
    BY <1>4, AskedDump DEF IInv
  <2>2. line.cmd = "dump" /\ output' = None /\ FirstOption.option \in {"a", "e", "u"}
    BY <1>4 DEF AskDump, Reading, toolVars
  <2> QED
    BY <1>1, <1>2, <2>1, <2>2 DEF AskedInv
<1>5. CASE \E r \in Requests : line = None /\ Ask(r)
  BY <1>1, <1>5 DEF AskedInv
<1>6. CASE asked' = asked
  <2>1. CASE output' = output
    BY <1>1, <1>2, <1>6, <2>1 DEF AskedInv
  <2>2. CASE RefusePublish \/ RefuseDump \/ RunAsHelpCommand
    <3>1. asked = None
      BY <2>2 DEF RefusePublish, RefuseDump, RunAsHelpCommand, Reading
    <3> QED
      BY <1>6, <3>1 DEF AskedInv
  <2>3. CASE PrintResult
    <3>1. /\ answer # None
          /\ output' = IF ~answer.ret THEN Failed
                       ELSE IF line.cmd = "publish" THEN "published" ELSE answer.value
      BY <2>3 DEF PrintResult
    <3>2. asked # None /\ line # None
      BY <2>3, WireKeeps, <3>1 DEF PrintResult
    <3>3. CASE line.cmd = "publish"
      BY <1>1, <1>2, <1>6, <3>1, <3>2, <3>3, FailedIsNoWord DEF AskedInv
    <3>4. CASE line.cmd = "dump"
      <4>1. output' = Failed \/ output' = Taken
        BY <3>1, <3>2, <3>4 DEF IInv, DumpInv
      <4> QED
        BY <1>1, <1>2, <1>6, <3>2, <3>4, <4>1 DEF AskedInv
    <3> QED
      BY <1>1, <3>2, <3>3, <3>4 DEF AskedInv
  <2> QED
    BY <2>1, <2>2, <2>3, StepKinds DEF Idle, ReadPublishOption
<1>7. asked' = asked \/ AskPublish \/ AskDump \/ \E r \in Requests : line = None /\ Ask(r)
  BY StepKinds DEF wireVars, Serve, SendFails, Return
<1> QED
  BY <1>3, <1>4, <1>5, <1>6, <1>7

LEMMA OutputStep ==
    ASSUME IInv, [Next]_vars
    PROVE  OutputInv'
<1>1. OutputInv /\ line' = line
  BY StepKinds DEF IInv
<1>2. Asks' = Asks
  BY <1>1, SameLine
<1>3. (asked # None => asked' = asked) /\ (answer # None => answer' = answer /\ asked # None)
  BY WireKeeps
<1>4. CASE output' = output
  BY <1>1, <1>2, <1>3, <1>4 DEF OutputInv
<1>5. CASE RefusePublish
  <2>1. ~Asks /\ output' = "help"
    BY <1>5, RefusedAsksNot DEF RefusePublish, PrintHelp
  <2> QED
    BY <1>2, <2>1 DEF OutputInv
<1>6. CASE RefuseDump \/ RunAsHelpCommand
  BY <1>1, <1>6 DEF RefuseDump, RunAsHelpCommand, OutputInv
<1>7. CASE PrintResult
  <2>1. /\ answer # None
        /\ output' = IF ~answer.ret THEN Failed
                     ELSE IF line.cmd = "publish" THEN "published" ELSE answer.value
    BY <1>7 DEF PrintResult
  <2> QED
    BY <1>1, <1>3, <2>1, FailedIsNoWord DEF OutputInv
<1> QED
  BY <1>4, <1>5, <1>6, <1>7, StepKinds DEF Idle, ReadPublishOption

LEMMA DumpStep ==
    ASSUME IInv, [Next]_vars
    PROVE  DumpInv'
<1>1. DumpInv /\ AskedInv /\ WireInv /\ line' = line
  BY StepKinds DEF IInv
<1>2. Dumped' = Dumped /\ Taken' = Taken
  BY <1>1, SameLine
<1>3. SUFFICES ASSUME line # None, line.cmd = "dump"
               PROVE  DumpInv'
  BY <1>1 DEF DumpInv
<1>4. asked # None => asked = [op |-> "dump", name |-> DumpName, user |-> DumpUser]
  BY <1>1, <1>3 DEF AskedInv
<1>5. CASE reply' = reply /\ answer' = answer
  BY <1>1, <1>2, <1>5 DEF DumpInv
<1>6. CASE ServeDump
  <2> DEFINE call == ReadRequest("dump", parcel)
  <2>1. parcel # None /\ answer' = answer
    BY <1>6 DEF ServeDump, Serve
  <2>2. asked # None /\ parcel = WriteRequest(asked)
    BY <1>1, <2>1 DEF WireInv
  <2>3. parcel = <<Str8ToStr16(DumpName), DumpUser>> /\ asked.op = "dump"
    BY <1>4, <2>2 DEF WriteRequest
  <2>4. call.name = Str8ToStr16(DumpName) /\ call.user = DumpUser
    BY <2>3 DEF ReadRequest
  <2>5. reply' = WriteReply("dump", [ret |-> TRUE, value |-> DumpState(Subscribers, State, call.name, call.user)])
    BY <1>6, <2>3 DEF ServeDump, Serve
  <2> HIDE DEF call
  <2>6. reply' = <<Len(Dumped)>> \o Dumped
    BY <2>4, <2>5 DEF WriteReply, Dumped
  <2> QED
    BY <1>1, <1>2, <2>1, <2>6 DEF DumpInv
<1>7. CASE SendFails
  BY <1>1, <1>2, <1>7 DEF DumpInv, SendFails, Failure
<1>8. CASE Return
  <2>1. reply # None /\ reply' = reply /\ answer' = ReadReply(asked.op, reply)
    BY <1>8 DEF Return
  <2>2. asked.op = "dump" /\ reply = <<Len(Dumped)>> \o Dumped
    <3>1. asked # None
      BY <1>1, <2>1 DEF WireInv
    <3> QED
      BY <1>1, <1>3, <1>4, <2>1, <3>1 DEF DumpInv
  <2>3. answer'.value = SubSeq(reply, 2, 1 + LinesTaken(reply[1]))
    BY <2>1, <2>2 DEF ReadReply
  <2>4. answer'.value = Taken
    BY <2>2, <2>3 DEF Taken
  <2> QED
    BY <1>1, <1>2, <2>1, <2>2, <2>4 DEF DumpInv
<1>9. (reply' = reply /\ answer' = answer) \/ ServeDump \/ SendFails \/ Return
  <2>1. CASE UNCHANGED wireVars
    BY <2>1 DEF wireVars
  <2>2. CASE \E r : Ask(r)
    BY <2>2 DEF Ask
  <2>3. CASE Next /\ \E x : Serve(x)
    BY <1>3, <2>3 DEF Next, ReadPublishOption, RefusePublish, PrintHelp, AskPublish, RefuseDump, AskDump, RunAsHelpCommand,
       PrintResult, AskOther, ServePublish, ServeOther, Wire, Serve, Ask, SendFails, Return, wireVars
  <2>4. CASE AskPublish \/ AskDump
    BY <2>2, <2>4, AskedPublish, AskedDump DEF IInv
  <2> QED
    BY <2>1, <2>2, <2>3, <2>4, StepKinds DEF vars
<1> QED
  BY <1>5, <1>6, <1>7, <1>8, <1>9

-----------------------------------------------------------------------------
(* Who gets an event: the names of an entry do not stay for the next *)

LEMMA TableIsTheMap ==
    ASSUME NEW i \in 1..Len(CommonEventMap)
    PROVE  /\ PermissionTable[i].event = CommonEventMap[i].event
           /\ PermissionTable[i].state = CommonEventMap[i].state
           /\ PermissionTable[i].names = CommonEventMap[i].names
<1> DEFINE N == Len(CommonEventMap)
           left == CHOOSE f : f = [k \in 0..N |->
                       IF k = 0 THEN <<>> ELSE ClearNames(AddPermission(f[k - 1], CommonEventMap[k]).names)]
<1>1. PermissionTable = [k \in 1..N |-> AddPermission(left[k - 1], CommonEventMap[k])]
  BY DEF PermissionTable
<1>2. \E f : f = [k \in 0..N |->
                     IF k = 0 THEN <<>> ELSE ClearNames(AddPermission(f[k - 1], CommonEventMap[k]).names)]
  <2> DEFINE f == [k \in 0..N |-> <<>>]
  <2>1. f = [k \in 0..N |->
                IF k = 0 THEN <<>> ELSE ClearNames(AddPermission(f[k - 1], CommonEventMap[k]).names)]
    BY DEF ClearNames
  <2> HIDE DEF f
  <2> QED
    BY <2>1
<1>3. left = [k \in 0..N |->
                 IF k = 0 THEN <<>> ELSE ClearNames(AddPermission(left[k - 1], CommonEventMap[k]).names)]
  BY <1>2
<1> HIDE DEF left
<1>4. \A k \in 0..N : left[k] = <<>>
  BY <1>3 DEF ClearNames
<1>5. i - 1 \in 0..N
  BY CommonEventMapAssumption
<1>6. PermissionTable[i] = AddPermission(<<>>, CommonEventMap[i])
  BY <1>1, <1>4, <1>5
<1>7. <<>> \o CommonEventMap[i].names = CommonEventMap[i].names
  <2>1. CommonEventMap[i] \in ToSet(CommonEventMap)
    BY CommonEventMapAssumption DEF ToSet
  <2>2. CommonEventMap[i].names \in Seq(ToSet(CommonEventMap[i].names))
    BY <2>1, CommonEventMapAssumption
  <2> QED
    BY <2>2
<1> QED
  BY <1>6, <1>7 DEF AddPermission

\* The permissions of an event, and what its entry asks for.
LEMMA PermissionIsTheEntry ==
    ASSUME NEW s, NEW action
    PROVE  CheckSubscriberPermission(s, action) <=> Meets(s, action)
<1> DEFINE known == {i \in 1..Len(CommonEventMap) : PermissionTable[i].event = action}
           p == GetEventPermission(action)
<1>1. DOMAIN CommonEventMap = 1..Len(CommonEventMap) /\ Len(CommonEventMap) \in Nat
  BY CommonEventMapAssumption
<1>2. CASE known = {}
  <2>1. p.names = <<>>
    BY <1>2 DEF GetEventPermission
  <2>2. \A i \in DOMAIN CommonEventMap : CommonEventMap[i].event # action
    BY <1>1, <1>2, TableIsTheMap
  <2> QED
    BY <2>1, <2>2 DEF CheckSubscriberPermission, Meets, ToSet
<1>3. ASSUME NEW k \in known
      PROVE  CheckSubscriberPermission(s, action) <=> Meets(s, action)
  <2> DEFINE e == CommonEventMap[k]
  <2>1. k \in 1..Len(CommonEventMap) /\ e.event = action
    BY <1>3, TableIsTheMap
  <2>2. known = {k}
    <3>1. ASSUME NEW j \in known PROVE j = k
      <4>1. j \in 1..Len(CommonEventMap) /\ CommonEventMap[j].event = action
        BY TableIsTheMap
      <4> QED
        BY <2>1, <4>1, CommonEventMapAssumption
    <3> QED
      BY <3>1
  <2>3. Min(known) = k
    <3>1. known \subseteq Nat /\ known # {}
      BY <1>1, <2>1, <2>2
    <3> HIDE DEF known
    <3> QED
      BY <2>2, <3>1, MinFacts
  <2>4. p.names = e.names /\ p.state = e.state
    <3>1. p = PermissionTable[k]
      BY <2>2, <2>3 DEF GetEventPermission
    <3> QED
      BY <2>1, <3>1, TableIsTheMap
  <2>5. e \in ToSet(CommonEventMap)
    BY <1>1, <2>1 DEF ToSet
  <2>6. /\ e.names \in Seq(ToSet(e.names))
        /\ (e.state = "DEFAULT" /\ Len(e.names) <= 1) \/ e.state = "AND" \/ (e.state = "OR" /\ e.names # <<>>)
    BY <2>5, CommonEventMapAssumption
  <2>7. Meets(s, action) <=>
            (Trusted(s) \/ IF e.state = "OR" THEN \E n \in ToSet(e.names) : n \in s.granted
                           ELSE \A n \in ToSet(e.names) : n \in s.granted)
    <3>1. \A i \in DOMAIN CommonEventMap : CommonEventMap[i].event = action => i = k
      BY <1>1, <2>1, CommonEventMapAssumption
    <3> QED
      BY <1>1, <2>1, <3>1 DEF Meets
  <2> DEFINE T == ToSet(e.names)
  <2>8. CheckSubscriberPermission(s, action) <=>
            \/ T = {}
            \/ Trusted(s)
            \/ Len(e.names) = 1 /\ T \subseteq s.granted
            \/ e.state = "AND" /\ T \subseteq s.granted
            \/ e.state = "OR" /\ T \cap s.granted # {}
    BY <2>4 DEF CheckSubscriberPermission
  <2>9. Len(e.names) \in Nat /\ (T = {} <=> Len(e.names) = 0) /\ (Len(e.names) = 1 => T = {e.names[1]})
    <3> DEFINE q == e.names
    <3>1. q \in Seq(T)
      BY <2>6
    <3>2. DOMAIN q = 1..Len(q) /\ Len(q) \in Nat
      BY <3>1
    <3>3. T = {q[i] : i \in 1..Len(q)}
      BY <3>2 DEF ToSet
    <3> HIDE DEF T, q
    <3>4. (T = {} <=> Len(q) = 0) /\ (Len(q) = 1 => T = {q[1]})
      <4>1. Len(q) = 0 => 1..Len(q) = {}
        BY <3>2
      <4>2. Len(q) # 0 => 1 \in 1..Len(q)
        BY <3>2
      <4>3. Len(q) = 1 => 1..Len(q) = {1}
        BY <3>2
      <4> QED
        BY <3>3, <4>1, <4>2, <4>3
    <3> QED
      BY <3>2, <3>4 DEF q
  <2>10. e.state = "OR" => Len(e.names) # 0
    BY <2>6, <2>9
  <2> HIDE DEF T, e
  <2>11. CASE e.state = "OR"
    BY <2>7, <2>8, <2>9, <2>10, <2>11 DEF T
  <2>12. CASE e.state = "AND"
    BY <2>7, <2>8, <2>9, <2>12 DEF T
  <2>13. CASE e.state = "DEFAULT" /\ Len(e.names) <= 1
    <3>1. Len(e.names) = 0 \/ Len(e.names) = 1
      <4> DEFINE n == Len(e.names)
      <4>1. n \in Nat /\ n <= 1
        BY <2>9, <2>13
      <4> HIDE DEF n
      <4>2. n = 0 \/ n = 1
        BY <4>1
      <4> QED
        BY <4>2 DEF n
    <3>2. T = {} \/ (Len(e.names) = 1 /\ T = {e.names[1]})
      BY <2>9, <3>1
    <3>3. e.state # "OR" /\ e.state # "AND"
      BY <2>13
    <3>4. Meets(s, action) <=> Trusted(s) \/ T \subseteq s.granted
      BY <2>7, <3>3 DEF T
    <3>5. CheckSubscriberPermission(s, action) <=>
              T = {} \/ Trusted(s) \/ (Len(e.names) = 1 /\ T \subseteq s.granted)
      BY <2>8, <3>3
    <3> QED
      BY <3>2, <3>4, <3>5
  <2> QED
    BY <2>6, <2>11, <2>12, <2>13
<1> QED
  BY <1>2, <1>3

LEMMA EntitledStep ==
    ASSUME IInv, [Next]_vars
    PROVE  EntitledReceive'
<1>1. EntitledReceive /\ AskedInv /\ WireInv /\ line' = line
  BY StepKinds DEF IInv
<1>2. CASE UNCHANGED receivers
  <2>1. /\ LastValue("e", Empty)' = LastValue("e", Empty) /\ UserAsked' = UserAsked
        /\ MayBeSent' = MayBeSent /\ \A user : IsMeant(user)' = IsMeant(user)
    BY <1>1 DEF LastValue, Given, Places, UserAsked, Atoi, MayBeSent, IsMeant
  <2> QED
    BY <1>1, <1>2, <2>1 DEF EntitledReceive, Meets
<1>3. CASE ServePublish
  <2>1. /\ line # None /\ line.cmd = "publish" /\ parcel # None /\ served' = ReadRequest(asked.op, parcel)
        /\ receivers' = {i \in DOMAIN Subscribers :
                            /\ PublishAllowed(served')
                            /\ GetsEvent(Subscribers[i], line.by, served'.event, served'.info,
                                         UserMeant(served'.user))}
    BY <1>3 DEF ServePublish, Serve
  <2>2. asked # None /\ IsCall(asked) /\ parcel = WriteRequest(asked)
    BY <1>1, <2>1 DEF WireInv
  <2>3. asked = Publication /\ LastValue("e", Empty) # Empty
    BY <1>1, <2>1, <2>2 DEF AskedInv, Asks
  <2>4. served' = Carried(asked)
    BY <2>1, <2>2, ReadIsCarried
  <2>5. /\ served'.event.want = [action |-> LastValue("e", Empty), entities |-> {}, scheme |-> Empty]
        /\ ToSet(served'.info.permissions) = {} /\ served'.user = UserAsked
        /\ served'.info.sticky = Given("s")
    <3>1. asked.op = "publish" /\ DOMAIN asked = {"op", "event", "info", "last", "user"}
      BY <2>3 DEF Publication
    <3>2. Carried(asked) = [asked EXCEPT !.last = None, !.event = CarriedEvent(@), !.info = CarriedInfo(@)]
      BY <3>1 DEF Carried
    <3>3. /\ Carried(asked).event = CarriedEvent(asked.event) /\ Carried(asked).info = CarriedInfo(asked.info)
          /\ Carried(asked).user = asked.user
      BY <3>1, <3>2
    <3>4. CarriedEvent(asked.event).want = [action |-> LastValue("e", Empty), entities |-> {}, scheme |-> Empty]
      BY <2>3 DEF Publication, CarriedEvent
    <3>5. CarriedInfo(asked.info).permissions = Texts(<<>>)
      BY <2>3 DEF Publication, CarriedInfo
    <3>6. ToSet(Texts(<<>>)) = {}
      BY DEF Texts, ToSet
    <3>7. asked.user = UserAsked
      BY <2>3 DEF Publication
    <3>8. CarriedInfo(asked.info).sticky = Given("s")
      BY <2>3 DEF Publication, CarriedInfo
    <3> QED
      BY <2>4, <3>3, <3>4, <3>5, <3>6, <3>7, <3>8
  <2> DEFINE a == LastValue("e", Empty)
             user == UserMeant(served'.user)
             Named(s) == a \in ToSet(s.skills.events) /\ (s.skills.schemes = <<>> \/ Empty \in ToSet(s.skills.schemes))
             Permitted(s) == (s.permission = Empty \/ s.permission \in line.by.granted) /\ Meets(s, a)
  <2>6. ~line.by.proxy /\ line.by.user \in Nat
    <3>1. line \in CommandLines
      BY <2>1 DEF IInv, LineInv
    <3>2. \A l \in CommandLines : ~l.by.proxy /\ l.by.user \in Nat
      BY ToolAssumption
    <3> QED
      BY ONLY <3>1, <3>2
  <2>7. PublishAllowed(served') <=> MayBeSent
    <3>1. MayAddress(served'.user) <=>
              UserAsked >= UNDEFINED_USER /\ (line.by.system \/ UserAsked = UNDEFINED_USER)
      BY <2>5, Zenon DEF MayAddress
    <3>2. (served'.info.sticky => line.by.sticky) <=> (Given("s") => line.by.sticky)
      BY <2>5, Zenon
    <3>3. served'.event.want.action = LastValue("e", Empty)
      BY <2>5
    <3> QED
      BY <3>1, <3>2, <3>3, Zenon DEF PublishAllowed, MayBeSent
  <2>8. ASSUME MayBeSent, NEW u
        PROVE  CheckSubscriberByUserId(u, Trusted(line.by), user) <=> IsMeant(u)
    <3>1. CheckSubscriberByUserId(u, Trusted(line.by), user) <=>
              u = ALL_USER \/ u = user \/ (line.by.system /\ (user \in {UNDEFINED_USER, ALL_USER} \/ u \in 0..99))
      BY <2>6 DEF CheckSubscriberByUserId, Trusted, SUBSCRIBE_USER_SYSTEM_BEGIN, SUBSCRIBE_USER_SYSTEM_END
    <3>2. UserAsked = UNDEFINED_USER \/ line.by.system
      BY <2>8 DEF MayBeSent
    <3>3. user = IF UserAsked = UNDEFINED_USER
                 THEN IF line.by.system THEN ALL_USER ELSE line.by.user
                 ELSE IF UserAsked = CURRENT_USER THEN line.by.user ELSE UserAsked
      BY <2>5 DEF UserMeant, UNDEFINED_USER, CURRENT_USER
    <3> HIDE DEF user
    <3> QED
      BY <2>6, <3>1, <3>2, <3>3 DEF IsMeant, ALL_USER, CURRENT_USER, UNDEFINED_USER
  <2>9. ASSUME NEW s
        PROVE  GetsEvent(s, line.by, served'.event, served'.info, user) <=>
                   Named(s) /\ CheckSubscriberByUserId(s.user, Trusted(line.by), user) /\ Permitted(s)
    <3> DEFINE w == served'.event.want
    <3>1. w.action = a /\ w.entities = {} /\ w.scheme = Empty /\ a # Empty
      BY <2>3, <2>5
    <3>2. Match(s.skills, w) <=> Named(s)
      BY <3>1 DEF Match, MatchEvent, MatchEntity, MatchScheme
    <3>3. CheckPermission(s, line.by, w.action, served'.info) <=> Permitted(s)
      BY <2>5, <3>1, PermissionIsTheEntry
      DEF CheckPermission, CheckSubscriberRequiredPermission, CheckPublisherRequiredPermissions
    <3> HIDE DEF w, user, Named, Permitted
    <3> QED
      BY <3>2, <3>3 DEF GetsEvent, w
  <2>10. receivers' = {i \in DOMAIN Subscribers :
                         /\ MayBeSent /\ IsMeant(Subscribers[i].user)
                         /\ Named(Subscribers[i]) /\ Permitted(Subscribers[i])}
    <3> HIDE DEF user, Named, Permitted
    <3>1. \A s : (PublishAllowed(served') /\ GetsEvent(s, line.by, served'.event, served'.info, user)) <=>
                  (MayBeSent /\ IsMeant(s.user) /\ Named(s) /\ Permitted(s))
      BY <2>7, <2>8, <2>9
    <3>2. receivers' = {i \in DOMAIN Subscribers :
                          /\ PublishAllowed(served')
                          /\ GetsEvent(Subscribers[i], line.by, served'.event, served'.info, user)}
      BY <2>1 DEF user
    <3> QED
      BY <3>1, <3>2
  <2>11. EntitledReceive' <=>
            (receivers' # None => receivers' = {i \in DOMAIN Subscribers :
                                      /\ MayBeSent /\ IsMeant(Subscribers[i].user)
                                      /\ Named(Subscribers[i]) /\ Permitted(Subscribers[i])})
    BY <1>1 DEF EntitledReceive, LastValue, Given, Places, UserAsked, Atoi, Meets, MayBeSent, IsMeant
  <2> HIDE DEF Named, Permitted
  <2> QED
    BY <2>10, <2>11
<1> QED
  BY <1>2, <1>3, StepKinds

-----------------------------------------------------------------------------
(* What a dump shows *)

LEMMA SetOfJoined ==
    ASSUME NEW S, NEW s \in Seq(S), NEW t \in Seq(S)
    PROVE  /\ s \o t \in Seq(S) /\ Len(s \o t) = Len(s) + Len(t)
           /\ ToSet(s \o t) = ToSet(s) \cup ToSet(t)
<1> DEFINE u == s \o t
<1>1. u \in Seq(S) /\ Len(u) = Len(s) + Len(t)
  BY Joined
<1>2. (\A i \in 1..Len(s) : u[i] = s[i]) /\ \A i \in 1..Len(t) : u[Len(s) + i] = t[i]
  BY Joined
<1>3. /\ DOMAIN s = 1..Len(s) /\ DOMAIN t = 1..Len(t) /\ Len(s) \in Nat /\ Len(t) \in Nat
  OBVIOUS
<1>4. DOMAIN u = 1..Len(s) + Len(t)
  BY <1>1
<1> HIDE DEF u
<1>5. ASSUME NEW i \in DOMAIN u
      PROVE  u[i] \in ToSet(s) \cup ToSet(t)
  <2>1. CASE i <= Len(s)
    BY <1>2, <1>3, <1>4, <2>1 DEF ToSet
  <2>2. CASE i > Len(s)
    <3>1. i - Len(s) \in 1..Len(t) /\ Len(s) + (i - Len(s)) = i
      BY <1>3, <1>4, <2>2
    <3>2. u[i] = t[i - Len(s)]
      BY <1>2, <3>1
    <3> QED
      BY <1>3, <3>1, <3>2 DEF ToSet
  <2> QED
    BY <1>3, <1>4, <2>1, <2>2
<1>6. ASSUME NEW i \in DOMAIN s
      PROVE  s[i] \in ToSet(u)
  <2>1. i \in DOMAIN u /\ u[i] = s[i]
    BY <1>2, <1>3, <1>4
  <2> QED
    BY <2>1 DEF ToSet
<1>7. ASSUME NEW i \in DOMAIN t
      PROVE  t[i] \in ToSet(u)
  <2>1. Len(s) + i \in DOMAIN u /\ u[Len(s) + i] = t[i]
    BY <1>2, <1>3, <1>4
  <2> QED
    BY <2>1 DEF ToSet
<1>8. ToSet(u) = ToSet(s) \cup ToSet(t)
  BY <1>5, <1>6, <1>7 DEF ToSet
<1> QED
  BY <1>1, <1>8 DEF u

LEMMA AllSelected ==
    ASSUME NEW S, NEW s \in Seq(S), NEW wanted, ToSet(s) \subseteq wanted
    PROVE  Len(Selected(s, wanted)) = Len(s)
<1>1. PICK f : IsUpTo(f, s, wanted, Len(s)) /\ Selected(s, wanted) = f[Len(s)]
  BY SelectedIsUpTo
<1>2. \A i \in 0..Len(s) : f[i] = IF i = 0 THEN <<>> ELSE Chosen(s, wanted, f[i - 1], i)
  BY <1>1 DEF IsUpTo
<1>3. \A i \in 1..Len(s) : s[i] \in wanted /\ s[i] \in S
  BY DEF ToSet
<1> DEFINE T == {n \in Nat : n \in 0..Len(s) => f[n] \in Seq(S) /\ Len(f[n]) = n}
<1>4. 0 \in T
  <2>1. f[0] = <<>>
    BY <1>2
  <2>2. <<>> \in Seq(S) /\ Len(<<>>) = 0
    OBVIOUS
  <2> QED
    BY <2>1, <2>2
<1>5. ASSUME NEW n \in Nat, n \in T
      PROVE  n + 1 \in T
  <2> SUFFICES ASSUME n + 1 \in 0..Len(s) PROVE f[n + 1] \in Seq(S) /\ Len(f[n + 1]) = n + 1
    OBVIOUS
  <2>1. n \in 0..Len(s) /\ n + 1 \in 1..Len(s)
    OBVIOUS
  <2>2. f[n] \in Seq(S) /\ Len(f[n]) = n
    BY <1>5, <2>1
  <2>3. f[n + 1] = Append(f[n], s[n + 1])
    <3>1. f[n + 1] = Chosen(s, wanted, f[n], n + 1)
      BY <1>2
    <3>2. s[n + 1] \in wanted
      BY <1>3, <2>1
    <3> QED
      BY <3>1, <3>2 DEF Chosen
  <2>4. s[n + 1] \in S
    BY <1>3, <2>1
  <2>5. Append(f[n], s[n + 1]) \in Seq(S) /\ Len(Append(f[n], s[n + 1])) = Len(f[n]) + 1
    BY <2>2, <2>4, Appended
  <2> QED
    BY <2>2, <2>3, <2>5
<1>6. Nat \subseteq T
  <2> HIDE DEF T
  <2> QED
    BY <1>4, <1>5, Induction
<1>7. Len(s) \in Nat
  OBVIOUS
<1> QED
  BY <1>1, <1>6, <1>7

\* The records that lines are about, but for those of subscribers.
RecordsOf(lines) == {l.record : l \in {k \in lines : "record" \in DOMAIN k /\ k.title # "Subscribers"}}

Titles == {"Subscribers", "Sticky Events", "Pending Events", "History Events"}
LineOf(S) == [title : Titles] \cup [title : Titles, record : S]

LEMMA LinesFacts ==
    ASSUME NEW S, NEW records \in Seq(S), NEW title \in Titles
    PROVE  /\ Lines(title, records) \in Seq(LineOf(S))
           /\ Len(Lines(title, records)) = IF Len(records) = 0 THEN 1 ELSE Len(records)
           /\ RecordsOf(ToSet(Lines(title, records))) = IF title = "Subscribers" THEN {} ELSE ToSet(records)
<1> DEFINE lines == Lines(title, records)
<1>1. CASE records = <<>>
  <2>1. lines = <<[title |-> title]>> /\ [title |-> title] \in LineOf(S)
    BY <1>1 DEF Lines, LineOf
  <2>2. ToSet(lines) = {[title |-> title]} /\ ToSet(records) = {}
    BY <1>1, <2>1 DEF ToSet
  <2>3. "record" \notin DOMAIN [title |-> title]
    OBVIOUS
  <2>4. RecordsOf({[title |-> title]}) = {}
    BY <2>3 DEF RecordsOf
  <2> QED
    <3>1. lines \in Seq(LineOf(S)) /\ Len(lines) = 1 /\ Len(records) = 0
      <4> DEFINE x == [title |-> title]
      <4>1. x \in LineOf(S) /\ lines = <<x>>
        BY <2>1
      <4> HIDE DEF x, lines
      <4>2. <<x>> \in Seq(LineOf(S)) /\ Len(<<x>>) = 1
        BY <4>1, Tuples
      <4>3. Len(records) = 0
        BY <1>1
      <4> QED
        BY <4>1, <4>2, <4>3
    <3>2. RecordsOf(ToSet(lines)) = {} /\ ToSet(records) = {}
      BY <2>2, <2>4
    <3> HIDE DEF lines
    <3> QED
      BY <3>1, <3>2 DEF lines
<1>2. CASE records # <<>>
  <2> DEFINE one(i) == [title |-> title, record |-> records[i]]
  <2>1. lines = [i \in 1..Len(records) |-> one(i)] /\ Len(records) \in Nat /\ DOMAIN records = 1..Len(records)
    BY <1>2 DEF Lines
  <2>2. \A i \in 1..Len(records) : one(i) \in LineOf(S)
    BY DEF LineOf
  <2>3. lines \in Seq(LineOf(S)) /\ Len(lines) = Len(records)
    <3> HIDE DEF one, lines
    <3> QED
      BY <2>1, <2>2
  <2>4. ToSet(lines) = {one(i) : i \in 1..Len(records)}
    BY <2>1 DEF ToSet
  <2>5. \A i \in 1..Len(records) : "record" \in DOMAIN one(i) /\ one(i).title = title /\ one(i).record = records[i]
    OBVIOUS
  <2> HIDE DEF one, lines
  <2>6. RecordsOf(ToSet(lines)) = IF title = "Subscribers" THEN {} ELSE {records[i] : i \in 1..Len(records)}
    <3>1. CASE title = "Subscribers"
      BY <2>4, <2>5, <3>1 DEF RecordsOf
    <3>2. CASE title # "Subscribers"
      <4>1. {k \in ToSet(lines) : "record" \in DOMAIN k /\ k.title # "Subscribers"} = ToSet(lines)
        BY <2>4, <2>5, <3>2
      <4> QED
        BY <2>4, <2>5, <3>2, <4>1 DEF RecordsOf
    <3> QED
      BY <3>1, <3>2
  <2> QED
    <3>1. ToSet(records) = {records[i] : i \in 1..Len(records)}
      BY <2>1 DEF ToSet
    <3>2. RecordsOf(ToSet(lines)) = IF title = "Subscribers" THEN {} ELSE ToSet(records)
      BY <2>6, <3>1
    <3>3. Len(lines) = Len(records) /\ Len(records) # 0
      BY <1>2, <2>3
    <3> QED
      BY <2>3, <3>2, <3>3 DEF lines
<1> QED
  BY <1>1, <1>2

LEMMA RecordsOfUnion ==
    ASSUME NEW A, NEW B
    PROVE  RecordsOf(A \cup B) = RecordsOf(A) \cup RecordsOf(B) /\ (A \subseteq B => RecordsOf(A) \subseteq RecordsOf(B))
BY DEF RecordsOf

LEMMA AskedFacts ==
    ASSUME NEW S, NEW records \in Seq(S), NEW event, NEW user
    PROVE  /\ EventRecordsAsked(records, event, user) \in Seq(S)
           /\ ToSet(EventRecordsAsked(records, event, user)) =
                  {r \in ToSet(records) : event \in {Empty, r.action} /\ user \in {ALL_USER, r.user}}
           /\ event = Empty /\ user = ALL_USER => Len(EventRecordsAsked(records, event, user)) = Len(records)
           /\ SubscriberRecordsAsked(records, event, user) \in Seq(S)
           /\ event = Empty /\ user = ALL_USER => Len(SubscriberRecordsAsked(records, event, user)) = Len(records)
<1> DEFINE W == {r \in ToSet(records) : event \in {Empty, r.action} /\ user \in {ALL_USER, r.user}}
           V == {s \in ToSet(records) :
                    IF event = Empty THEN user \in {ALL_USER, s.user}
                    ELSE /\ event \in ToSet(s.skills.events)
                         /\ user = ALL_USER \/ CheckSubscriberByUserId(s.user, TRUE, user)}
<1>1. /\ EventRecordsAsked(records, event, user) = Selected(records, W)
      /\ SubscriberRecordsAsked(records, event, user) = Selected(records, V)
  BY DEF EventRecordsAsked, SubscriberRecordsAsked
<1>2. W \subseteq ToSet(records)
  OBVIOUS
<1>3. event = Empty /\ user = ALL_USER => ToSet(records) \subseteq W /\ ToSet(records) \subseteq V
  OBVIOUS
<1> HIDE DEF W, V
<1>4. Selected(records, W) \in Seq(S) /\ ToSet(Selected(records, W)) = W /\ Selected(records, V) \in Seq(S)
  <2>1. Selected(records, W) \in Seq(S) /\ ToSet(Selected(records, W)) = ToSet(records) \cap W
    BY SelectedFacts
  <2>2. Selected(records, V) \in Seq(S)
    BY SelectedFacts
  <2> QED
    BY <1>2, <2>1, <2>2
<1>5. event = Empty /\ user = ALL_USER =>
          Len(Selected(records, W)) = Len(records) /\ Len(Selected(records, V)) = Len(records)
  BY <1>3, AllSelected
<1> QED
  BY <1>1, <1>4, <1>5 DEF W

\* The events that the service holds, and those that a dump was asked for.
Held == State.sticky \o State.unordered \o State.ordered \o State.history
Wanted == {r \in ToSet(Held) : Str8ToStr16(DumpName) \in {Empty, r.action} /\ DumpUser \in {ALL_USER, r.user}}

LEMMA DumpedFacts ==
    /\ \E S : Dumped \in Seq(S)
    /\ RecordsOf(ToSet(Dumped)) = Wanted
    /\ Len(Held) \in Nat
    /\ FirstOption.option = "a" => Len(Dumped) >= Len(Lines("Subscribers", Subscribers)) + Len(Held)
<1> DEFINE name == Str8ToStr16(DumpName)
           Asked(records) == EventRecordsAsked(records, name, DumpUser)
           s1 == State.sticky
           s2 == State.unordered
           s3 == State.ordered
           s4 == State.history
           S == ToSet(s1) \cup ToSet(s2) \cup ToSet(s3) \cup ToSet(s4)
           T == ToSet(Subscribers)
           R == LineOf(S) \cup LineOf(T)
           b == SubscriberRecordsAsked(Subscribers, name, DumpUser)
           l0 == Lines("Subscribers", b)
           l1 == Lines("Sticky Events", Asked(s1))
           l2 == Lines("Pending Events", Asked(s2) \o Asked(s3))
           l3 == Lines("History Events", Asked(s4))
<1>1. Dumped = ((l0 \o l1) \o l2) \o l3
  BY DEF Dumped, DumpState
<1>2. s1 \in Seq(S) /\ s2 \in Seq(S) /\ s3 \in Seq(S) /\ s4 \in Seq(S) /\ Subscribers \in Seq(T)
  <2>1. /\ s1 \in Seq(ToSet(s1)) /\ s2 \in Seq(ToSet(s2)) /\ s3 \in Seq(ToSet(s3)) /\ s4 \in Seq(ToSet(s4))
        /\ Subscribers \in Seq(T)
    BY ToolAssumption
  <2>2. ToSet(s1) \subseteq S /\ ToSet(s2) \subseteq S /\ ToSet(s3) \subseteq S /\ ToSet(s4) \subseteq S
    OBVIOUS
  <2>3. \A A, B : A \subseteq B => Seq(A) \subseteq Seq(B)
    OBVIOUS
  <2> HIDE DEF S, T, s1, s2, s3, s4
  <2> QED
    BY <2>1, <2>2, <2>3
<1>3. /\ name = Str8ToStr16(DumpName)
      /\ FirstOption.option = "a" => name = Empty /\ DumpUser = ALL_USER
  BY DEF DumpName, DumpUser, Str8ToStr16
<1> DEFINE Wants(r) == name \in {Empty, r.action} /\ DumpUser \in {ALL_USER, r.user}
<1> HIDE DEF S, T, s1, s2, s3, s4, name
<1>4. ASSUME NEW q \in Seq(S)
      PROVE  /\ Asked(q) \in Seq(S) /\ ToSet(Asked(q)) = {r \in ToSet(q) : Wants(r)}
             /\ FirstOption.option = "a" => Len(Asked(q)) = Len(q)
  BY <1>3, AskedFacts
<1>5. b \in Seq(T) /\ (FirstOption.option = "a" => Len(b) = Len(Subscribers))
  BY <1>2, <1>3, AskedFacts
<1> DEFINE a1 == Asked(s1)
           a2 == Asked(s2)
           a3 == Asked(s3)
           a4 == Asked(s4)
<1>6. /\ a1 \in Seq(S) /\ a2 \in Seq(S) /\ a3 \in Seq(S) /\ a4 \in Seq(S)
      /\ ToSet(a1) = {r \in ToSet(s1) : Wants(r)} /\ ToSet(a2) = {r \in ToSet(s2) : Wants(r)}
      /\ ToSet(a3) = {r \in ToSet(s3) : Wants(r)} /\ ToSet(a4) = {r \in ToSet(s4) : Wants(r)}
      /\ FirstOption.option = "a" =>
             Len(a1) = Len(s1) /\ Len(a2) = Len(s2) /\ Len(a3) = Len(s3) /\ Len(a4) = Len(s4)
  <2> HIDE DEF Asked, Wants
  <2> QED
    BY <1>2, <1>4
<1>7. l1 = Lines("Sticky Events", a1) /\ l2 = Lines("Pending Events", a2 \o a3) /\ l3 = Lines("History Events", a4)
  OBVIOUS
<1> HIDE DEF Asked, Wants, a1, a2, a3, a4, b
<1>8. a2 \o a3 \in Seq(S) /\ Len(a2 \o a3) = Len(a2) + Len(a3) /\ ToSet(a2 \o a3) = ToSet(a2) \cup ToSet(a3)
  BY <1>6, SetOfJoined
<1>9. /\ l0 \in Seq(LineOf(T)) /\ l1 \in Seq(LineOf(S)) /\ l2 \in Seq(LineOf(S)) /\ l3 \in Seq(LineOf(S))
      /\ Len(l0) = (IF Len(b) = 0 THEN 1 ELSE Len(b)) /\ Len(l1) = (IF Len(a1) = 0 THEN 1 ELSE Len(a1))
      /\ Len(l2) = (IF Len(a2 \o a3) = 0 THEN 1 ELSE Len(a2 \o a3)) /\ Len(l3) = (IF Len(a4) = 0 THEN 1 ELSE Len(a4))
      /\ RecordsOf(ToSet(l0)) = {} /\ RecordsOf(ToSet(l1)) = ToSet(a1)
      /\ RecordsOf(ToSet(l2)) = ToSet(a2 \o a3) /\ RecordsOf(ToSet(l3)) = ToSet(a4)
  <2> HIDE DEF l1, l2, l3
  <2>1. "Subscribers" \in Titles /\ "Sticky Events" \in Titles /\ "Pending Events" \in Titles /\ "History Events" \in Titles
    BY DEF Titles
  <2>2. /\ l0 \in Seq(LineOf(T)) /\ Len(l0) = (IF Len(b) = 0 THEN 1 ELSE Len(b)) /\ RecordsOf(ToSet(l0)) = {}
    BY <1>5, <2>1, LinesFacts
  <2>3. /\ l1 \in Seq(LineOf(S)) /\ Len(l1) = (IF Len(a1) = 0 THEN 1 ELSE Len(a1)) /\ RecordsOf(ToSet(l1)) = ToSet(a1)
    BY <1>6, <1>7, <2>1, LinesFacts
  <2>4. /\ l2 \in Seq(LineOf(S)) /\ Len(l2) = (IF Len(a2 \o a3) = 0 THEN 1 ELSE Len(a2 \o a3))
        /\ RecordsOf(ToSet(l2)) = ToSet(a2 \o a3)
    BY <1>7, <1>8, <2>1, LinesFacts
  <2>5. /\ l3 \in Seq(LineOf(S)) /\ Len(l3) = (IF Len(a4) = 0 THEN 1 ELSE Len(a4)) /\ RecordsOf(ToSet(l3)) = ToSet(a4)
    BY <1>6, <1>7, <2>1, LinesFacts
  <2> QED
    BY <2>2, <2>3, <2>4, <2>5
<1>10. l0 \in Seq(R) /\ l1 \in Seq(R) /\ l2 \in Seq(R) /\ l3 \in Seq(R)
  <2>1. \A A, B : A \subseteq B => Seq(A) \subseteq Seq(B)
    OBVIOUS
  <2>2. LineOf(S) \subseteq R /\ LineOf(T) \subseteq R
    OBVIOUS
  <2> HIDE DEF R, l0, l1, l2, l3
  <2> QED
    BY <1>9, <2>1, <2>2
<1> HIDE DEF R, l0, l1, l2, l3
<1> DEFINE j1 == l0 \o l1
           j2 == j1 \o l2
           j3 == j2 \o l3
<1>11. j1 \in Seq(R) /\ Len(j1) = Len(l0) + Len(l1) /\ ToSet(j1) = ToSet(l0) \cup ToSet(l1)
  BY <1>10, SetOfJoined
<1> HIDE DEF j1
<1>12. j2 \in Seq(R) /\ Len(j2) = Len(j1) + Len(l2) /\ ToSet(j2) = ToSet(j1) \cup ToSet(l2)
  <2>1. j1 \in Seq(R) /\ l2 \in Seq(R)
    BY <1>10, <1>11
  <2>2. /\ j1 \o l2 \in Seq(R) /\ Len(j1 \o l2) = Len(j1) + Len(l2)
        /\ ToSet(j1 \o l2) = ToSet(j1) \cup ToSet(l2)
    BY <2>1, SetOfJoined
  <2> QED
    BY <2>2
<1> HIDE DEF j2
<1>13. j3 \in Seq(R) /\ Len(j3) = Len(j2) + Len(l3) /\ ToSet(j3) = ToSet(j2) \cup ToSet(l3)
  <2>1. j2 \in Seq(R) /\ l3 \in Seq(R)
    BY <1>10, <1>12
  <2>2. /\ j2 \o l3 \in Seq(R) /\ Len(j2 \o l3) = Len(j2) + Len(l3)
        /\ ToSet(j2 \o l3) = ToSet(j2) \cup ToSet(l3)
    BY <2>1, SetOfJoined
  <2> QED
    BY <2>2
<1> HIDE DEF j3
<1>14. Dumped = j3
  BY <1>1 DEF j1, j2, j3
<1> DEFINE h1 == s1 \o s2
           h2 == h1 \o s3
           h3 == h2 \o s4
<1>15. h1 \in Seq(S) /\ Len(h1) = Len(s1) + Len(s2) /\ ToSet(h1) = ToSet(s1) \cup ToSet(s2)
  BY <1>2, SetOfJoined
<1> HIDE DEF h1
<1>16. h2 \in Seq(S) /\ Len(h2) = Len(h1) + Len(s3) /\ ToSet(h2) = ToSet(h1) \cup ToSet(s3)
  <2>1. h1 \in Seq(S) /\ s3 \in Seq(S)
    BY <1>2, <1>15
  <2>2. /\ h1 \o s3 \in Seq(S) /\ Len(h1 \o s3) = Len(h1) + Len(s3)
        /\ ToSet(h1 \o s3) = ToSet(h1) \cup ToSet(s3)
    BY <2>1, SetOfJoined
  <2> QED
    BY <2>2
<1> HIDE DEF h2
<1>17. h3 \in Seq(S) /\ Len(h3) = Len(h2) + Len(s4) /\ ToSet(h3) = ToSet(h2) \cup ToSet(s4)
  <2>1. h2 \in Seq(S) /\ s4 \in Seq(S)
    BY <1>2, <1>16
  <2>2. /\ h2 \o s4 \in Seq(S) /\ Len(h2 \o s4) = Len(h2) + Len(s4)
        /\ ToSet(h2 \o s4) = ToSet(h2) \cup ToSet(s4)
    BY <2>1, SetOfJoined
  <2> QED
    BY <2>2
<1> HIDE DEF h3
<1>18. Held = h3
  BY DEF Held, h1, h2, h3, s1, s2, s3, s4
<1>19. RecordsOf(ToSet(j3)) = ToSet(a1) \cup ToSet(a2) \cup ToSet(a3) \cup ToSet(a4)
  <2>1. RecordsOf(ToSet(j3)) = RecordsOf(ToSet(j2)) \cup RecordsOf(ToSet(l3))
    BY <1>13, RecordsOfUnion
  <2>2. RecordsOf(ToSet(j2)) = RecordsOf(ToSet(j1)) \cup RecordsOf(ToSet(l2))
    BY <1>12, RecordsOfUnion
  <2>3. RecordsOf(ToSet(j1)) = RecordsOf(ToSet(l0)) \cup RecordsOf(ToSet(l1))
    BY <1>11, RecordsOfUnion
  <2> QED
    BY <1>8, <1>9, <2>1, <2>2, <2>3
<1>20. Wanted = {r \in ToSet(h3) : Wants(r)}
  BY <1>18 DEF Wanted, Wants, name
<1>21. RecordsOf(ToSet(Dumped)) = Wanted
  BY <1>6, <1>14, <1>15, <1>16, <1>17, <1>19, <1>20
<1>22. FirstOption.option = "a" => Len(Dumped) >= Len(Lines("Subscribers", Subscribers)) + Len(Held)
  <2> SUFFICES ASSUME FirstOption.option = "a"
               PROVE  Len(Dumped) >= Len(Lines("Subscribers", Subscribers)) + Len(Held)
    OBVIOUS
  <2>1. "Subscribers" \in Titles
    BY DEF Titles
  <2>2. Len(Lines("Subscribers", Subscribers)) = IF Len(Subscribers) = 0 THEN 1 ELSE Len(Subscribers)
    BY <1>2, <2>1, LinesFacts
  <2>3. Len(b) = Len(Subscribers) /\ Len(a1) = Len(s1) /\ Len(a2) = Len(s2) /\ Len(a3) = Len(s3) /\ Len(a4) = Len(s4)
    BY <1>5, <1>6
  <2>4. Len(s1) \in Nat /\ Len(s2) \in Nat /\ Len(s3) \in Nat /\ Len(s4) \in Nat /\ Len(Subscribers) \in Nat
    BY <1>2
  <2>5. Len(l0) = Len(Lines("Subscribers", Subscribers)) /\ Len(l0) \in Nat
    BY <1>9, <2>2, <2>3, <2>4
  <2>6. /\ Len(l1) >= Len(s1) /\ Len(l2) >= Len(s2) + Len(s3) /\ Len(l3) >= Len(s4)
        /\ Len(l1) \in Nat /\ Len(l2) \in Nat /\ Len(l3) \in Nat
    BY <1>8, <1>9, <2>3, <2>4
  <2>7. Len(Dumped) = ((Len(l0) + Len(l1)) + Len(l2)) + Len(l3)
    BY <1>11, <1>12, <1>13, <1>14
  <2>8. Len(Held) = ((Len(s1) + Len(s2)) + Len(s3)) + Len(s4)
    BY <1>15, <1>16, <1>17, <1>18
  <2> QED
    BY <2>4, <2>5, <2>6, <2>7, <2>8
<1> QED
  BY <1>13, <1>14, <1>17, <1>18, <1>21, <1>22

\* What the client takes of a dump.
LEMMA TakenFacts ==
    /\ Len(Taken) = LinesTaken(Len(Dumped)) /\ Len(Dumped) \in Nat
    /\ ToSet(Taken) \subseteq ToSet(Dumped)
    /\ Len(Taken) < MAX_HISTORY_SIZE => ToSet(Taken) = ToSet(Dumped)
<1> DEFINE D == Dumped
           n == Len(D)
           m == LinesTaken(n)
           p == <<n>> \o D
<1>1. PICK S : D \in Seq(S)
  BY DumpedFacts
<1>2. n \in Nat /\ m \in Nat /\ m <= n /\ (m < MAX_HISTORY_SIZE => m = n)
  BY <1>1, WireAssumption DEF LinesTaken
<1> DEFINE T == S \cup {n}
<1>3. <<n>> \in Seq(T) /\ Len(<<n>>) = 1 /\ <<n>>[1] = n /\ D \in Seq(T)
  BY <1>1
<1> HIDE DEF D, n, T
<1>4. /\ p \in Seq(T) /\ Len(p) = 1 + n /\ p[1] = n /\ \A i \in 1..n : p[1 + i] = D[i]
  <2>1. <<n>> \in Seq(T) /\ D \in Seq(T)
    BY <1>3
  <2>2. <<n>> \o D \in Seq(T) /\ Len(<<n>> \o D) = Len(<<n>>) + Len(D)
    BY <2>1, Joined
  <2>3. /\ \A i \in 1..Len(<<n>>) : (<<n>> \o D)[i] = <<n>>[i]
        /\ \A i \in 1..Len(D) : (<<n>> \o D)[Len(<<n>>) + i] = D[i]
    BY <2>1, Joined
  <2>4. Len(<<n>>) = 1 /\ <<n>>[1] = n /\ 1 \in 1..1
    BY <1>3
  <2> HIDE DEF p
  <2>5. (<<n>> \o D)[1] = n
    BY <2>3, <2>4
  <2> QED
    BY <2>2, <2>3, <2>4, <2>5 DEF p, n
<1>5. Taken = SubSeq(p, 2, 1 + LinesTaken(p[1]))
  BY DEF Taken, p, n, D
<1> HIDE DEF m, p
<1>6. Taken = SubSeq(p, 2, 1 + m)
  BY <1>4, <1>5 DEF m
<1>7. \A i \in 2..1 + m : p[i] \in T
  <2>1. \A i \in 2..1 + m : i \in 1..Len(p)
    BY <1>2, <1>4
  <2> QED
    BY <1>4, <2>1
<1>8. /\ Len(SubSeq(p, 2, 1 + m)) = IF 2 <= 1 + m THEN 1 + m - 2 + 1 ELSE 0
      /\ SubSeq(p, 2, 1 + m) \in Seq(T)
      /\ \A i \in 1..1 + m - 2 + 1 : SubSeq(p, 2, 1 + m)[i] = p[2 + i - 1]
  BY <1>2, <1>7, SubSeqProperties
<1>9. Len(Taken) = m /\ DOMAIN Taken = 1..m
  BY <1>2, <1>6, <1>8
<1>10. ASSUME NEW i \in 1..m
       PROVE  Taken[i] = D[i]
  <2>1. i \in 1..1 + m - 2 + 1 /\ 2 + i - 1 = 1 + i /\ i \in 1..n
    BY <1>2
  <2> QED
    BY <1>4, <1>6, <1>8, <2>1
<1>11. DOMAIN D = 1..n
  BY <1>1 DEF n
<1>12. ToSet(Taken) = {D[i] : i \in 1..m} /\ ToSet(D) = {D[i] : i \in 1..n}
  BY <1>9, <1>10, <1>11 DEF ToSet
<1>13. 1..m \subseteq 1..n
  BY <1>2
<1> QED
  BY <1>2, <1>9, <1>12, <1>13 DEF D, n, m

-----------------------------------------------------------------------------
(* The theorems *)

LEMMA InitEstablishesIInv == Init => IInv
<1> SUFFICES ASSUME Init PROVE IInv
  OBVIOUS
<1>1. WireInv
  BY DEF Init, WireInit, WireInv
<1>2. LineInv
  <2>1. Empty \in EventNames /\ <<>> \in Bytes
    BY DEF EventNames, Bytes
  <2>2. NoOptions \in OptionsType
    BY <2>1 DEF NoOptions, OptionsType, ALL_USER
  <2> QED
    BY <2>2 DEF Init, LineInv
<1>3. OptionsInv
  <2> SUFFICES ASSUME line # None PROVE OptionsInv
    BY DEF OptionsInv
  <2>1. at = 0 /\ options = NoOptions /\ result = "ERR_OK" /\ line \in CommandLines
    BY DEF Init
  <2>2. options = ReadUpTo(at)
    BY <2>1, NoneRead
  <2>3. at \in 0..Len(line.options) /\ \A i \in 1..at : ~Refuses(line.options[i])
    BY <2>1, OptionOfLine
  <2> QED
    BY <2>1, <2>2, <2>3 DEF OptionsInv
<1>4. AskedInv /\ OutputInv /\ DumpInv /\ EntitledReceive
  BY DEF Init, WireInit, AskedInv, OutputInv, DumpInv, EntitledReceive
<1> QED
  BY <1>1, <1>2, <1>3, <1>4 DEF IInv

\* The invariant above, for every step of the tool, of the other clients, of
\* the service and of the wire.
THEOREM IInvHolds == Spec => []IInv
<1>1. IInv /\ [Next]_vars => IInv'
  BY WireStep, LineStep, OptionsStep, AskedStep, OutputStep, DumpStep, EntitledStep DEF IInv
<1> QED
  BY InitEstablishesIInv, <1>1, PTL DEF Spec

\* The stub passes on the call that its proxy was asked for, less what Carried
\* says the wire may lose: for any calls, data with NULs, uids of the whole
\* range, and publications with a last subscriber and without.
THEOREM ServedAsAskedHolds == Spec => []ServedAsAsked
<1>1. IInv => ServedAsAsked
  <2> SUFFICES ASSUME IInv, served # None PROVE served = Carried(asked)
    BY DEF ServedAsAsked
  <2>1. asked # None
    BY DEF IInv, WireInv
  <2>2. IsCall(asked) /\ parcel = WriteRequest(asked) /\ served = ReadRequest(asked.op, parcel)
    BY <2>1 DEF IInv, WireInv
  <2> QED
    BY <2>2, ReadIsCarried
<1> QED
  BY IInvHolds, <1>1, PTL

\* A publication is never served as None.
LEMMA PublicationIsServed ==
    ASSUME IsCall(asked), asked \in PublishCalls
    PROVE  ReadRequest(asked.op, WriteRequest(asked)) # None
<1>1. ReadRequest(asked.op, WriteRequest(asked)) = Carried(asked)
  BY ReadIsCarried
<1>2. asked.op = "publish"
  BY DEF PublishCalls
<1>3. ReadRequest(asked.op, WriteRequest(asked)) = ReadPublish(WriteRequest(asked))
  BY <1>2 DEF ReadRequest
<1>4. Carried(asked) \in PublishCalls
  <2>1. Carried(asked) = [asked EXCEPT !.last = None, !.event = CarriedEvent(@), !.info = CarriedInfo(@)]
    BY <1>2 DEF Carried
  <2>2. DOMAIN asked = {"op", "event", "info", "last", "user"} /\ asked.user \in Int
    BY DEF PublishCalls
  <2>3. CarriedEvent(asked.event) \in [data : Bytes, code : Int, want : [action : EventNames, entities : {{}}, scheme : {Empty}]]
    <3>1. asked.event \in [data : Bytes, code : Int, want : [action : EventNames, entities : {{}}, scheme : {Empty}]]
      BY DEF PublishCalls
    <3>2. UpToNul(asked.event.data) \in Bytes
      BY <3>1, ReadUpToNul
    <3> QED
      BY <3>1, <3>2 DEF CarriedEvent
  <2>4. CarriedInfo(asked.info) \in [permissions : {<<>>}, ordered : BOOLEAN, sticky : BOOLEAN]
    <3>1. asked.info \in [permissions : {<<>>}, ordered : BOOLEAN, sticky : BOOLEAN]
      BY DEF PublishCalls
    <3>2. Texts(<<>>) = <<>>
      BY DEF Texts
    <3> QED
      BY <3>1, <3>2 DEF CarriedInfo
  <2> DEFINE c == Carried(asked)
  <2>5. c = [op |-> c.op, event |-> c.event, info |-> c.info, last |-> c.last, user |-> c.user]
    BY <2>1, <2>2
  <2>6. /\ c.op = "publish" /\ c.event = CarriedEvent(asked.event) /\ c.info = CarriedInfo(asked.info)
        /\ c.last = None /\ c.user = asked.user
    BY <1>2, <2>1, <2>2
  <2> HIDE DEF c
  <2>7. c \in PublishCalls
    BY <2>2, <2>3, <2>4, <2>5, <2>6 DEF PublishCalls
  <2> QED
    BY <2>7 DEF c
<1> QED
  BY <1>1, <1>4, ToolAssumption

\* cem publish asks for what its command line says, when it says all that it
\* has to, and reports the event as published only if the service was called.
THEOREM CommandIsCarriedOutHolds == Spec => []CommandIsCarriedOut
<1>1. IInv => CommandIsCarriedOut
  <2> SUFFICES ASSUME IInv, line # None, line.cmd = "publish", output # None PROVE CommandIsCarriedOut
    BY DEF CommandIsCarriedOut
  <2>1. asked # None => Asks /\ output # "help" /\ asked = Publication /\ asked \in PublishCalls
    BY DEF IInv, AskedInv
  <2>2. (output = "help" => ~Asks) /\ (output # "help" => asked # None)
        /\ (output = "published" => answer # None /\ answer.ret)
    BY DEF IInv, OutputInv
  <2>3. Asks <=> asked # None
    BY <2>1, <2>2
  <2>4. asked # None =>
            /\ asked.event.want.action = LastValue("e", Empty) /\ asked.event.data = LastValue("d", <<>>)
            /\ asked.event.code = Atoi(LastValue("c", Empty)) /\ asked.user = UserAsked
            /\ asked.info = [permissions |-> <<>>, ordered |-> Given("o"), sticky |-> Given("s")]
    BY <2>1 DEF Publication
  <2>5. ASSUME output = "published" PROVE served # None
    <3>1. answer # None /\ answer.ret
      BY <2>2, <2>5
    <3>2. asked # None /\ IsCall(asked) /\ parcel = WriteRequest(asked) /\ served = ReadRequest(asked.op, parcel)
      BY <3>1 DEF IInv, WireInv
    <3> QED
      BY <2>1, <3>2, PublicationIsServed
  <2> QED
    BY <2>3, <2>4, <2>5 DEF CommandIsCarriedOut, Asks
<1> QED
  BY IInvHolds, <1>1, PTL

\* An event of the tool is sent to exactly the subscribers that match it and
\* have the permissions that its entry in the table asks for, whatever the
\* table is.
THEOREM EntitledReceiveHolds == Spec => []EntitledReceive
<1>1. IInv => EntitledReceive
  BY DEF IInv
<1> QED
  BY IInvHolds, <1>1, PTL

\* A dump shows what was asked for and nothing else, for any events held and
\* any limit on the lines.
THEOREM DumpShowsAskedHolds == Spec => []DumpShowsAsked
<1>1. IInv => DumpShowsAsked
  <2> SUFFICES ASSUME IInv, output # None, asked # None, asked.op = "dump", output # Failed
               PROVE  DumpShowsAsked
    BY DEF DumpShowsAsked
  <2>1. line # None
    BY DEF IInv, LineInv
  <2>2. FirstOption.option \in {"a", "e", "u"} /\ output = Taken
    <3>1. asked \notin PublishCalls
      BY DEF PublishCalls
    <3> QED
      BY <2>1, <3>1 DEF IInv, AskedInv
  <2> DEFINE o == FirstOption
             wanted == {r \in ToSet(Held) : CASE o.option = "e" -> Str8ToStr16(o.value) \in {Empty, r.action}
                                              [] o.option = "u" -> Atoi(o.value) \in {ALL_USER, r.user}
                                              [] OTHER -> TRUE}
             shown == RecordsOf(ToSet(output))
  <2>3. wanted = Wanted
    <3> DEFINE wants(r) == Str8ToStr16(DumpName) \in {Empty, r.action} /\ DumpUser \in {ALL_USER, r.user}
    <3>1. CASE o.option = "e"
      <4>1. DumpName = o.value /\ DumpUser = ALL_USER
        BY <3>1 DEF DumpName, DumpUser
      <4> QED
        BY <3>1, <4>1 DEF Wanted
    <3>2. CASE o.option = "u"
      <4>1. Str8ToStr16(DumpName) = Empty /\ DumpUser = Atoi(o.value)
        BY <3>2 DEF DumpName, DumpUser, Str8ToStr16
      <4> QED
        BY <3>2, <4>1 DEF Wanted
    <3>3. CASE o.option = "a"
      <4>1. Str8ToStr16(DumpName) = Empty /\ DumpUser = ALL_USER
        BY <3>3 DEF DumpName, DumpUser, Str8ToStr16
      <4> QED
        BY <3>3, <4>1 DEF Wanted
    <3> QED
      BY <2>2, <3>1, <3>2, <3>3
  <2>4. shown \subseteq wanted /\ (Len(output) < MAX_HISTORY_SIZE => shown = wanted)
    <3>1. ToSet(output) \subseteq ToSet(Dumped) /\ (Len(output) < MAX_HISTORY_SIZE => ToSet(output) = ToSet(Dumped))
      BY <2>2, TakenFacts
    <3> QED
      BY <2>3, <3>1, DumpedFacts, RecordsOfUnion
  <2>5. Len(Lines("Subscribers", Subscribers)) + Len(Held) >= MAX_HISTORY_SIZE /\ o.option = "a" =>
            Len(output) = MAX_HISTORY_SIZE
    <3> SUFFICES ASSUME Len(Lines("Subscribers", Subscribers)) + Len(Held) >= MAX_HISTORY_SIZE, o.option = "a"
                 PROVE  Len(output) = MAX_HISTORY_SIZE
      OBVIOUS
    <3> DEFINE n == Len(Dumped)
               k == Len(Lines("Subscribers", Subscribers)) + Len(Held)
    <3>1. n >= k /\ k >= MAX_HISTORY_SIZE
      BY DumpedFacts
    <3>2. Len(output) = LinesTaken(n) /\ n \in Nat
      BY <2>2, TakenFacts
    <3>3. k \in Int
      <4>1. Subscribers \in Seq(ToSet(Subscribers)) /\ "Subscribers" \in Titles
        BY ToolAssumption DEF Titles
      <4>2. Len(Lines("Subscribers", Subscribers)) \in Nat
        BY <4>1, LinesFacts
      <4>3. Len(Held) \in Nat
        BY DumpedFacts
      <4> QED
        BY <4>2, <4>3
    <3> HIDE DEF n, k
    <3>4. n >= MAX_HISTORY_SIZE
      BY <3>1, <3>2, <3>3, WireAssumption
    <3> QED
      BY <3>2, <3>4, WireAssumption DEF LinesTaken
  <2> HIDE DEF wanted, shown
  <2> QED
    BY <2>4, <2>5 DEF DumpShowsAsked, wanted, shown, RecordsOf, Held
<1> QED
  BY IInvHolds, <1>1, PTL
=============================================================================
