----------------------- MODULE UnorderedDispatchProofs -----------------------
(***************************************************************************)
(* Theorems about SubscriberRegistry and UnorderedDispatch: the two        *)
(* containers of the registry agree, the history says who was told, nobody *)
(* is told twice and nobody is forgotten, for any number of publications,  *)
(* subscribers, names and uids.                                            *)
(***************************************************************************)
EXTENDS UnorderedDispatch, SelectionProofs

-----------------------------------------------------------------------------
(* Inserting and removing *)

LEMMA MinFacts ==
    ASSUME NEW T, T \subseteq Nat, T # {}
    PROVE  Min(T) \in T /\ \A y \in T : Min(T) <= y
BY LeastNumber DEF Min

\* t is s with x in front of its k-th element.
InsertedAt(S, s, k, x, t) ==
    /\ t \in Seq(S) /\ Len(t) = Len(s) + 1 /\ k \in 1..Len(s) + 1 /\ t[k] = x
    /\ \A i \in 1..k - 1 : t[i] = s[i]
    /\ \A i \in k..Len(s) : t[i + 1] = s[i]

\* t is s without its k-th element.
RemovedAt(S, s, k, t) ==
    /\ t \in Seq(S) /\ Len(t) = Len(s) - 1 /\ k \in 1..Len(s)
    /\ \A i \in 1..k - 1 : t[i] = s[i]
    /\ \A i \in k..Len(s) - 1 : t[i] = s[i + 1]

\* The elements of a concatenation.
LEMMA ConcatFacts ==
    ASSUME NEW S, NEW u \in Seq(S), NEW v \in Seq(S)
    PROVE  /\ u \o v \in Seq(S)
           /\ Len(u \o v) = Len(u) + Len(v)
           /\ \A i \in 1..Len(u) : (u \o v)[i] = u[i]
           /\ \A i \in 1..Len(v) : (u \o v)[Len(u) + i] = v[i]
OBVIOUS

LEMMA InsertAtFacts ==
    ASSUME NEW S, NEW s \in Seq(S), NEW k \in 1..Len(s), NEW x \in S
    PROVE  InsertedAt(S, s, k, x, InsertAt(s, k, x))
<1> DEFINE a == SubSeq(s, 1, k - 1)
           b == SubSeq(s, k, Len(s))
<1>1. a \in Seq(S) /\ Len(a) = k - 1 /\ \A i \in 1..k - 1 : a[i] = s[i]
  OBVIOUS
<1>2. b \in Seq(S) /\ Len(b) = Len(s) - k + 1 /\ \A i \in 1..Len(b) : b[i] = s[k + i - 1]
  OBVIOUS
<1> HIDE DEF a, b
<1> DEFINE t == (a \o <<x>>) \o b
<1>3. a \o <<x>> \in Seq(S) /\ Len(a \o <<x>>) = k
      /\ (\A i \in 1..k - 1 : (a \o <<x>>)[i] = s[i]) /\ (a \o <<x>>)[k] = x
  BY <1>1
<1>4. t \in Seq(S) /\ Len(t) = Len(s) + 1
      /\ (\A i \in 1..k : t[i] = (a \o <<x>>)[i])
      /\ \A i \in 1..Len(b) : t[k + i] = b[i]
  <2> DEFINE c == a \o <<x>>
  <2>1. c \in Seq(S) /\ Len(c) = k
    BY <1>3
  <2> HIDE DEF c
  <2>2. /\ c \o b \in Seq(S) /\ Len(c \o b) = k + Len(b)
        /\ \A i \in 1..k : (c \o b)[i] = c[i]
        /\ \A i \in 1..Len(b) : (c \o b)[k + i] = b[i]
    <3>1. c \in Seq(S) /\ b \in Seq(S) /\ Len(c) = k
      BY <1>2, <2>1
    <3>2. \A i \in 1..Len(b) : (c \o b)[Len(c) + i] = b[i]
      BY <3>1, ConcatFacts
    <3>3. c \o b \in Seq(S) /\ Len(c \o b) = Len(c) + Len(b)
          /\ \A i \in 1..Len(c) : (c \o b)[i] = c[i]
      BY <3>1, ConcatFacts, Zenon
    <3> QED
      BY <3>1, <3>2, <3>3
  <2>3. k + Len(b) = Len(s) + 1
    BY <1>2
  <2> QED
    BY <2>2, <2>3 DEF c
<1>5. InsertAt(s, k, x) = t
  BY DEF InsertAt, a, b
<1> HIDE DEF t
<1>6. ASSUME NEW i \in k..Len(s) PROVE t[i + 1] = s[i]
  <2>1. i + 1 - k \in 1..Len(b) /\ k + (i + 1 - k) = i + 1 /\ k + (i + 1 - k) - 1 = i
    BY <1>2
  <2>2. t[k + (i + 1 - k)] = b[i + 1 - k]
    BY <1>4, <2>1
  <2> QED
    BY <1>2, <2>1, <2>2
<1>7. \A i \in 1..k - 1 : t[i] = s[i]
  BY <1>3, <1>4
<1>8. t[k] = x
  BY <1>3, <1>4
<1> QED
  BY <1>4, <1>5, <1>6, <1>7, <1>8 DEF InsertedAt

LEMMA RemoveAtFacts ==
    ASSUME NEW S, NEW s \in Seq(S), NEW k \in 1..Len(s)
    PROVE  RemovedAt(S, s, k, RemoveAt(s, k))
<1> DEFINE a == SubSeq(s, 1, k - 1)
           b == SubSeq(s, k + 1, Len(s))
<1>1. a \in Seq(S) /\ Len(a) = k - 1 /\ \A i \in 1..k - 1 : a[i] = s[i]
  OBVIOUS
<1>2. b \in Seq(S) /\ Len(b) = Len(s) - k /\ \A i \in 1..Len(b) : b[i] = s[k + i]
  OBVIOUS
<1> HIDE DEF a, b
<1> DEFINE t == a \o b
<1>3. t \in Seq(S) /\ Len(t) = Len(s) - 1
      /\ (\A i \in 1..k - 1 : t[i] = a[i])
      /\ \A i \in 1..Len(b) : t[k - 1 + i] = b[i]
  <2>1. /\ a \o b \in Seq(S) /\ Len(a \o b) = Len(a) + Len(b)
        /\ \A i \in 1..Len(a) : (a \o b)[i] = a[i]
        /\ \A i \in 1..Len(b) : (a \o b)[Len(a) + i] = b[i]
    <3>1. a \in Seq(S) /\ b \in Seq(S)
      BY <1>1, <1>2
    <3>2. \A i \in 1..Len(b) : (a \o b)[Len(a) + i] = b[i]
      BY <3>1, ConcatFacts
    <3>3. a \o b \in Seq(S) /\ Len(a \o b) = Len(a) + Len(b)
          /\ \A i \in 1..Len(a) : (a \o b)[i] = a[i]
      BY <3>1, ConcatFacts, Zenon
    <3> QED
      BY <3>2, <3>3
  <2>2. Len(a) + Len(b) = Len(s) - 1
    BY <1>1, <1>2
  <2> QED
    BY <1>1, <2>1, <2>2
<1>4. RemoveAt(s, k) = t
  BY DEF RemoveAt, a, b
<1> HIDE DEF t
<1>5. ASSUME NEW i \in k..Len(s) - 1 PROVE t[i] = s[i + 1]
  <2>1. i - k + 1 \in 1..Len(b) /\ k - 1 + (i - k + 1) = i /\ k + (i - k + 1) = i + 1
    BY <1>2
  <2>2. t[k - 1 + (i - k + 1)] = b[i - k + 1]
    BY <1>3, <2>1
  <2> QED
    BY <1>2, <2>1, <2>2
<1>6. \A i \in 1..k - 1 : t[i] = s[i]
  BY <1>1, <1>3
<1> QED
  BY <1>3, <1>4, <1>5, <1>6 DEF RemovedAt

\* An element that is there is removed, the first of several.
LEMMA RemoveFirstFacts ==
    ASSUME NEW S, NEW s \in Seq(S), NEW e
    PROVE  \/ e \notin ToSet(s) /\ RemoveFirst(s, e) = s
           \/ \E k \in 1..Len(s) : s[k] = e /\ RemovedAt(S, s, k, RemoveFirst(s, e))
<1>1. DOMAIN s = 1..Len(s)
  OBVIOUS
<1>2. CASE \E i \in 1..Len(s) : s[i] = e
  <2> DEFINE I == {i \in 1..Len(s) : s[i] = e}
             k == Min(I)
  <2>1. k \in I
    BY <1>2, MinFacts
  <2>2. RemoveFirst(s, e) = RemoveAt(s, k)
    BY <1>2 DEF RemoveFirst, SelectInSeq
  <2> QED
    BY <2>1, <2>2, RemoveAtFacts
<1>3. CASE ~\E i \in 1..Len(s) : s[i] = e
  BY <1>1, <1>3 DEF RemoveFirst, ToSet
<1> QED
  BY <1>2, <1>3

\* What RemoveSubscriber does to an index.
WithoutSilent(s, inside) == RemoveFirstMatch(s, LAMBDA r : r \notin inside)

\* An element that alone is not in a set is removed, too.
LEMMA RemoveOutsider ==
    ASSUME NEW S, NEW s \in Seq(S), NEW inside, NEW k \in 1..Len(s), s[k] \notin inside,
           \A i \in 1..Len(s) : i # k => s[i] \in inside
    PROVE  RemovedAt(S, s, k, WithoutSilent(s, inside))
<1> DEFINE I == {i \in 1..Len(s) : s[i] \notin inside}
<1>1. I = {k}
  OBVIOUS
<1>2. Min(I) = k
  <2>1. I \subseteq Nat /\ I # {}
    BY <1>1
  <2> HIDE DEF I
  <2>2. Min(I) \in I
    BY <2>1, MinFacts
  <2> QED
    BY <1>1, <2>2
<1>3. WithoutSilent(s, inside) = RemoveAt(s, k)
  BY <1>1, <1>2 DEF WithoutSilent, RemoveFirstMatch, SelectInSeq
<1> QED
  BY <1>3, RemoveAtFacts

LEMMA InsertByPriorityFacts ==
    ASSUME NEW s \in Seq(Subscribers), NEW x \in Subscribers
    PROVE  \E k \in 1..Len(s) + 1 :
               /\ InsertedAt(Subscribers, s, k, x, InsertByPriority(s, x))
               /\ \A i \in 1..k - 1 : Priority[s[i]] >= Priority[x]
               /\ k \in 1..Len(s) => Priority[s[k]] < Priority[x]
<1> DEFINE behind == {i \in DOMAIN s : Priority[s[i]] < Priority[x]}
<1>1. /\ Priority[x] \in Int /\ DOMAIN s = 1..Len(s) /\ Len(s) \in Nat
      /\ \A i \in 1..Len(s) : s[i] \in Subscribers /\ Priority[s[i]] \in Int
  BY RegistryAssumption
<1>2. CASE behind = {}
  <2>1. InsertByPriority(s, x) = Append(s, x)
    BY <1>2 DEF InsertByPriority
  <2>2. InsertedAt(Subscribers, s, Len(s) + 1, x, Append(s, x))
    BY <1>1 DEF InsertedAt
  <2>3. \A i \in 1..Len(s) : Priority[s[i]] >= Priority[x]
    BY <1>1, <1>2
  <2> QED
    BY <1>1, <2>1, <2>2, <2>3
<1>3. CASE behind # {}
  <2> DEFINE k == Min(behind)
  <2>1. k \in behind /\ \A i \in behind : k <= i
    <3>1. behind \subseteq Nat
      BY <1>1
    <3> HIDE DEF behind
    <3> QED
      BY <1>3, <3>1, MinFacts
  <2>2. InsertByPriority(s, x) = InsertAt(s, k, x)
    BY <1>3 DEF InsertByPriority
  <2> HIDE DEF k
  <2>3. InsertedAt(Subscribers, s, k, x, InsertByPriority(s, x))
    BY <1>1, <2>1, <2>2, InsertAtFacts
  <2>4. \A i \in 1..k - 1 : Priority[s[i]] >= Priority[x]
    BY <1>1, <2>1
  <2> QED
    BY <1>1, <2>1, <2>3, <2>4
<1> QED
  BY <1>2, <1>3

\* Where the elements of t come from when one was inserted.
LEMMA InsertedFacts ==
    ASSUME NEW S, NEW s \in Seq(S), NEW k, NEW x, NEW t, InsertedAt(S, s, k, x, t)
    PROVE  /\ ToSet(t) = ToSet(s) \cup {x}
           /\ \A j \in 1..Len(t) : \/ j < k /\ j \in 1..Len(s) /\ t[j] = s[j]
                                   \/ j = k /\ t[j] = x
                                   \/ j > k /\ j - 1 \in k..Len(s) /\ j - 1 \in 1..Len(s) /\ t[j] = s[j - 1]
<1>1. /\ t \in Seq(S) /\ Len(t) = Len(s) + 1 /\ k \in 1..Len(s) + 1 /\ t[k] = x
      /\ Len(s) \in Nat /\ DOMAIN t = 1..Len(t) /\ DOMAIN s = 1..Len(s)
  BY DEF InsertedAt
<1>2. \A i \in 1..k - 1 : t[i] = s[i]
  BY DEF InsertedAt
<1>3. \A i \in k..Len(s) : t[i + 1] = s[i]
  BY DEF InsertedAt
<1>4. ASSUME NEW j \in 1..Len(t)
      PROVE  \/ j < k /\ j \in 1..Len(s) /\ t[j] = s[j]
             \/ j = k /\ t[j] = x
             \/ j > k /\ j - 1 \in k..Len(s) /\ j - 1 \in 1..Len(s) /\ t[j] = s[j - 1]
  <2>1. CASE j < k
    BY <1>1, <1>2, <2>1
  <2>2. CASE j = k
    BY <1>1, <2>2
  <2>3. CASE j > k
    <3>1. j - 1 \in k..Len(s) /\ j - 1 \in 1..Len(s) /\ (j - 1) + 1 = j
      BY <1>1, <2>3
    <3>2. t[(j - 1) + 1] = s[j - 1]
      BY <1>3, <3>1
    <3> QED
      BY <2>3, <3>1, <3>2
  <2> QED
    BY <1>1, <2>1, <2>2, <2>3
<1>5. ToSet(t) \subseteq ToSet(s) \cup {x}
  BY <1>1, <1>4 DEF ToSet
<1>6. ASSUME NEW i \in 1..Len(s) PROVE s[i] \in ToSet(t)
  <2>1. CASE i < k
    <3>1. i \in 1..k - 1 /\ i \in 1..Len(t)
      BY <1>1, <2>1
    <3> QED
      BY <1>1, <1>2, <3>1 DEF ToSet
  <2>2. CASE i >= k
    <3>1. i \in k..Len(s) /\ i + 1 \in 1..Len(t)
      BY <1>1, <2>2
    <3> QED
      BY <1>1, <1>3, <3>1 DEF ToSet
  <2> QED
    BY <1>1, <2>1, <2>2
<1>7. x \in ToSet(t)
  <2>1. k \in 1..Len(t)
    BY <1>1
  <2> QED
    BY <1>1, <2>1 DEF ToSet
<1>8. ToSet(s) \cup {x} \subseteq ToSet(t)
  <2>1. ToSet(s) = {s[i] : i \in 1..Len(s)}
    BY <1>1 DEF ToSet
  <2> QED
    BY <1>6, <1>7, <2>1
<1> QED
  BY <1>4, <1>5, <1>8

\* Where the elements of t come from when one was removed.
LEMMA RemovedFacts ==
    ASSUME NEW S, NEW s \in Seq(S), NEW k, NEW t, RemovedAt(S, s, k, t)
    PROVE  /\ t \in Seq(S) /\ k \in 1..Len(s)
           /\ \A j \in 1..Len(t) : \/ j < k /\ j \in 1..Len(s) /\ t[j] = s[j]
                                   \/ j >= k /\ j + 1 \in 1..Len(s) /\ t[j] = s[j + 1]
           /\ \A i \in 1..Len(s) : \/ i < k /\ i \in 1..Len(t) /\ t[i] = s[i]
                                   \/ i = k
                                   \/ i > k /\ i - 1 \in 1..Len(t) /\ t[i - 1] = s[i]
           /\ IsInjective(s) => ToSet(t) = ToSet(s) \ {s[k]} /\ IsInjective(t)
<1>1. /\ t \in Seq(S) /\ Len(t) = Len(s) - 1 /\ k \in 1..Len(s)
      /\ Len(s) \in Nat /\ Len(t) \in Nat /\ DOMAIN t = 1..Len(t) /\ DOMAIN s = 1..Len(s)
  BY DEF RemovedAt
<1>2. \A i \in 1..k - 1 : t[i] = s[i]
  BY DEF RemovedAt
<1>3. \A i \in k..Len(s) - 1 : t[i] = s[i + 1]
  BY DEF RemovedAt
<1>4. \A j \in 1..Len(t) : \/ j < k /\ j \in 1..Len(s) /\ t[j] = s[j]
                           \/ j >= k /\ j + 1 \in 1..Len(s) /\ t[j] = s[j + 1]
  BY <1>1, <1>2, <1>3
<1>5. ASSUME NEW i \in 1..Len(s)
      PROVE  \/ i < k /\ i \in 1..Len(t) /\ t[i] = s[i]
             \/ i = k
             \/ i > k /\ i - 1 \in 1..Len(t) /\ t[i - 1] = s[i]
  <2>1. CASE i > k
    <3>1. i - 1 \in k..Len(s) - 1 /\ i - 1 \in 1..Len(t) /\ (i - 1) + 1 = i
      BY <1>1, <2>1
    <3>2. t[i - 1] = s[(i - 1) + 1]
      BY <1>3, <3>1
    <3> QED
      BY <2>1, <3>1, <3>2
  <2>2. CASE i < k
    BY <1>1, <1>2, <2>2
  <2> QED
    BY <1>1, <2>1, <2>2
<1>6. ASSUME IsInjective(s) PROVE ToSet(t) = ToSet(s) \ {s[k]} /\ IsInjective(t)
  <2>1. \A i, j \in 1..Len(s) : s[i] = s[j] => i = j
    BY <1>1, <1>6 DEF IsInjective
  <2>2. ToSet(s) = {s[i] : i \in 1..Len(s)} /\ ToSet(t) = {t[i] : i \in 1..Len(t)}
    BY <1>1 DEF ToSet
  <2>3. \A j \in 1..Len(t) : t[j] \in ToSet(s) /\ t[j] # s[k]
    BY <1>1, <1>4, <2>1, <2>2
  <2>4. \A i \in 1..Len(s) : s[i] # s[k] => s[i] \in ToSet(t)
    BY <1>5, <2>2
  <2>5. \A i, j \in 1..Len(t) : t[i] = t[j] => i = j
    <3> SUFFICES ASSUME NEW i \in 1..Len(t), NEW j \in 1..Len(t), t[i] = t[j] PROVE i = j
      OBVIOUS
    <3> DEFINE a == IF i < k THEN i ELSE i + 1
               b == IF j < k THEN j ELSE j + 1
    <3>1. a \in 1..Len(s) /\ t[i] = s[a] /\ ((i < k /\ a = i) \/ (i >= k /\ a = i + 1))
      BY <1>1, <1>4
    <3>2. b \in 1..Len(s) /\ t[j] = s[b] /\ ((j < k /\ b = j) \/ (j >= k /\ b = j + 1))
      BY <1>1, <1>4
    <3> HIDE DEF a, b
    <3>3. a = b
      BY <2>1, <3>1, <3>2
    <3> QED
      BY <1>1, <3>1, <3>2, <3>3
  <2>6. ToSet(t) = ToSet(s) \ {s[k]}
    <3>1. ToSet(t) \subseteq ToSet(s) \ {s[k]}
      BY <2>2, <2>3
    <3>2. ToSet(s) \ {s[k]} \subseteq ToSet(t)
      BY <2>2, <2>4
    <3> QED
      BY <3>1, <3>2
  <2> QED
    BY <1>1, <2>5, <2>6 DEF IsInjective
<1> QED
  BY <1>1, <1>4, <1>5, <1>6

-----------------------------------------------------------------------------
(* The registry *)

\* a subscribed before b.
Older(subs, a, b) == \E i, j \in 1..Len(subs) : i < j /\ subs[i] = a /\ subs[j] = b

Ordered(subs, index) ==
    \A i, j \in 1..Len(index) : i < j =>
        \/ Priority[index[i]] > Priority[index[j]]
        \/ Priority[index[i]] = Priority[index[j]] /\ Older(subs, index[i], index[j])

\* The index of a name in a registry with these subscribers.
IsIndex(subs, n, index) ==
    /\ index \in Seq(Subscribers)
    /\ ToSet(index) = {s \in ToSet(subs) : IsSubscribedTo(s, n)}
    /\ Ordered(subs, index)

\* The inductive invariant of the registry.
RegistryInv ==
    /\ subscribers \in Seq(Subscribers) /\ IsInjective(subscribers)
    /\ ToSet(subscribers) = listening /\ listening \subseteq known
    /\ eventSubscribers = [n \in Names |-> eventSubscribers[n]]
    /\ \A n \in Names : IsIndex(subscribers, n, eventSubscribers[n])

\* Nobody is older than himself, and of two one is not older than the other.
LEMMA OlderFacts ==
    ASSUME NEW subs \in Seq(Subscribers), IsInjective(subs), NEW a, NEW b, Older(subs, a, b)
    PROVE  a # b /\ a \in ToSet(subs) /\ b \in ToSet(subs)
<1>1. PICK i \in 1..Len(subs), j \in 1..Len(subs) : i < j /\ subs[i] = a /\ subs[j] = b
  BY DEF Older
<1>2. DOMAIN subs = 1..Len(subs)
  OBVIOUS
<1> QED
  BY <1>1, <1>2 DEF IsInjective, ToSet

\* An ordered index holds everybody once.
LEMMA IndexIsInjective ==
    ASSUME NEW subs \in Seq(Subscribers), IsInjective(subs), NEW n, NEW index, IsIndex(subs, n, index)
    PROVE  IsInjective(index)
<1>1. DOMAIN index = 1..Len(index) /\ \A i \in 1..Len(index) : Priority[index[i]] \in Int
  <2>1. index \in Seq(Subscribers)
    BY DEF IsIndex
  <2> QED
    BY <2>1, RegistryAssumption
<1>2. \A i, j \in 1..Len(index) : i < j => index[i] # index[j]
  <2> SUFFICES ASSUME NEW i \in 1..Len(index), NEW j \in 1..Len(index), i < j
               PROVE  index[i] # index[j]
    OBVIOUS
  <2>1. \/ Priority[index[i]] > Priority[index[j]]
        \/ Priority[index[i]] = Priority[index[j]] /\ Older(subs, index[i], index[j])
    BY DEF IsIndex, Ordered
  <2>2. CASE Priority[index[i]] > Priority[index[j]]
    BY <1>1, <2>2
  <2>3. CASE Older(subs, index[i], index[j])
    BY <2>3, OlderFacts
  <2> QED
    BY <2>1, <2>2, <2>3
<1>3. \A i, j \in 1..Len(index) : index[i] = index[j] => i = j
  <2> SUFFICES ASSUME NEW i \in 1..Len(index), NEW j \in 1..Len(index), index[i] = index[j], i # j
               PROVE  FALSE
    OBVIOUS
  <2>1. i < j \/ j < i
    OBVIOUS
  <2> QED
    BY <1>2, <2>1
<1> QED
  BY <1>1, <1>3 DEF IsInjective

\* A new subscriber is inserted behind those of its priority.
LEMMA IndexWithNew ==
    ASSUME NEW subs \in Seq(Subscribers), IsInjective(subs), NEW n, NEW index, IsIndex(subs, n, index),
           NEW x \in Subscribers, x \notin ToSet(subs)
    PROVE  IsIndex(Append(subs, x), n,
                   IF IsSubscribedTo(x, n) THEN InsertByPriority(index, x) ELSE index)
<1> DEFINE more == Append(subs, x)
<1>1. /\ more \in Seq(Subscribers) /\ Len(more) = Len(subs) + 1 /\ Len(subs) \in Nat
      /\ DOMAIN more = 1..Len(more) /\ DOMAIN subs = 1..Len(subs)
      /\ (\A i \in 1..Len(subs) : more[i] = subs[i]) /\ more[Len(subs) + 1] = x
  OBVIOUS
<1>2. index \in Seq(Subscribers) /\ Len(index) \in Nat /\ DOMAIN index = 1..Len(index)
  BY DEF IsIndex
<1> HIDE DEF more
<1>3. ToSet(more) = ToSet(subs) \cup {x}
  <2>1. \A i \in 1..Len(more) : i \in 1..Len(subs) \/ i = Len(subs) + 1
    BY <1>1
  <2>2. \A i \in 1..Len(subs) : i \in 1..Len(more)
    BY <1>1
  <2>3. Len(subs) + 1 \in 1..Len(more)
    BY <1>1
  <2> QED
    BY <1>1, <2>1, <2>2, <2>3 DEF ToSet
<1>4. \A a, b : Older(subs, a, b) => Older(more, a, b)
  <2>1. \A i \in 1..Len(subs) : i \in 1..Len(more)
    BY <1>1
  <2> QED
    BY <1>1, <2>1 DEF Older
<1>5. \A a \in ToSet(subs) : Older(more, a, x)
  <2> SUFFICES ASSUME NEW a \in ToSet(subs) PROVE Older(more, a, x)
    OBVIOUS
  <2>1. PICK i \in 1..Len(subs) : subs[i] = a
    BY <1>1 DEF ToSet
  <2>2. i \in 1..Len(more) /\ Len(subs) + 1 \in 1..Len(more) /\ i < Len(subs) + 1
    BY <1>1
  <2> QED
    BY <1>1, <2>1, <2>2 DEF Older
<1>6. ToSet(index) = {s \in ToSet(subs) : IsSubscribedTo(s, n)}
  BY DEF IsIndex
<1>7. \A i \in 1..Len(index) : index[i] \in ToSet(subs) /\ Priority[index[i]] \in Int
  <2>1. \A i \in 1..Len(index) : index[i] \in ToSet(index) /\ index[i] \in Subscribers
    BY <1>2 DEF ToSet
  <2> QED
    BY <1>6, <2>1, RegistryAssumption
<1>8. CASE ~IsSubscribedTo(x, n)
  <2>1. Ordered(more, index)
    BY <1>4 DEF IsIndex, Ordered
  <2>2. ToSet(index) = {s \in ToSet(more) : IsSubscribedTo(s, n)}
    BY <1>3, <1>6, <1>8
  <2> QED
    BY <1>2, <1>8, <2>1, <2>2 DEF IsIndex, more
<1>9. CASE IsSubscribedTo(x, n)
  <2> DEFINE t == InsertByPriority(index, x)
  <2>1. PICK k \in 1..Len(index) + 1 :
               /\ InsertedAt(Subscribers, index, k, x, t)
               /\ \A i \in 1..k - 1 : Priority[index[i]] >= Priority[x]
               /\ k \in 1..Len(index) => Priority[index[k]] < Priority[x]
    BY <1>2, InsertByPriorityFacts
  <2> HIDE DEF t
  <2>2. ToSet(t) = ToSet(index) \cup {x}
    BY <1>2, <2>1, InsertedFacts
  <2>3. \A j \in 1..Len(t) : \/ j < k /\ j \in 1..Len(index) /\ t[j] = index[j]
                             \/ j = k /\ t[j] = x
                             \/ /\ j > k /\ j - 1 \in k..Len(index) /\ j - 1 \in 1..Len(index)
                                /\ t[j] = index[j - 1]
    BY <1>2, <2>1, InsertedFacts
  <2>4. t \in Seq(Subscribers) /\ Len(t) \in Nat
    BY <2>1 DEF InsertedAt
  <2>5. ToSet(t) = {s \in ToSet(more) : IsSubscribedTo(s, n)}
    BY <1>3, <1>6, <1>9, <2>2
  <2>6. Priority[x] \in Int
    BY RegistryAssumption
  <2>7. \A i, j \in 1..Len(index) : i < j =>
            \/ Priority[index[i]] > Priority[index[j]]
            \/ Priority[index[i]] = Priority[index[j]] /\ Older(more, index[i], index[j])
    BY <1>4 DEF IsIndex, Ordered
  <2>8. ASSUME NEW i \in 1..Len(t), NEW j \in 1..Len(t), i < j
        PROVE  \/ Priority[t[i]] > Priority[t[j]]
               \/ Priority[t[i]] = Priority[t[j]] /\ Older(more, t[i], t[j])
    <3>1. CASE i # k /\ j # k
      <4> DEFINE a == IF i < k THEN i ELSE i - 1
                 b == IF j < k THEN j ELSE j - 1
      <4>0. k \in Nat
        BY <2>1
      <4>1. a \in 1..Len(index) /\ t[i] = index[a] /\ ((i < k /\ a = i) \/ (i > k /\ a = i - 1))
        BY <2>3, <3>1, <4>0
      <4>2. b \in 1..Len(index) /\ t[j] = index[b] /\ ((j < k /\ b = j) \/ (j > k /\ b = j - 1))
        BY <2>3, <3>1, <4>0
      <4> HIDE DEF a, b
      <4>3. a < b
        BY <2>8, <2>1, <4>1, <4>2
      <4> QED
        BY <2>7, <4>1, <4>2, <4>3
    <3>2. CASE j = k
      <4>1. i < k /\ i \in 1..Len(index) /\ t[i] = index[i] /\ t[j] = x
        BY <2>1, <2>3, <2>8, <3>2
      <4>2. Priority[index[i]] >= Priority[x]
        BY <2>1, <4>1
      <4>3. Older(more, index[i], x)
        BY <1>5, <1>7, <4>1
      <4> QED
        BY <1>7, <2>6, <4>1, <4>2, <4>3
    <3>3. CASE i = k
      <4>1. j > k /\ j - 1 \in 1..Len(index) /\ k <= j - 1 /\ t[j] = index[j - 1] /\ t[i] = x
        BY <2>1, <2>3, <2>8, <3>3
      <4>2. k \in 1..Len(index)
        BY <1>2, <2>1, <4>1
      <4>3. Priority[index[k]] < Priority[x]
        BY <2>1, <4>2
      <4>4. Priority[index[k]] >= Priority[index[j - 1]]
        <5>1. CASE k = j - 1
          BY <1>7, <4>2, <5>1
        <5>2. CASE k < j - 1
          <6>1. \/ Priority[index[k]] > Priority[index[j - 1]]
                \/ Priority[index[k]] = Priority[index[j - 1]]
            BY <2>7, <4>1, <4>2, <5>2
          <6> QED
            BY <1>7, <4>1, <4>2, <6>1
        <5> QED
          BY <4>1, <4>2, <5>1, <5>2
      <4> QED
        BY <1>7, <2>6, <4>1, <4>2, <4>3, <4>4
    <3> QED
      BY <3>1, <3>2, <3>3
  <2>9. Ordered(more, t)
    BY <2>8 DEF Ordered
  <2> QED
    BY <1>9, <2>4, <2>5, <2>9 DEF IsIndex, more, t
<1> QED
  BY <1>8, <1>9

\* A subscriber that leaves is taken out of the list.
LEMMA SubscribersWithout ==
    ASSUME NEW subs \in Seq(Subscribers), IsInjective(subs), NEW x \in ToSet(subs)
    PROVE  LET less == RemoveFirst(subs, x) IN
           /\ less \in Seq(Subscribers) /\ IsInjective(less) /\ ToSet(less) = ToSet(subs) \ {x}
           /\ \A a, b : Older(subs, a, b) /\ a # x /\ b # x => Older(less, a, b)
<1> DEFINE less == RemoveFirst(subs, x)
<1>1. PICK k \in 1..Len(subs) : subs[k] = x /\ RemovedAt(Subscribers, subs, k, less)
  BY RemoveFirstFacts
<1> HIDE DEF less
<1>2. less \in Seq(Subscribers) /\ IsInjective(less) /\ ToSet(less) = ToSet(subs) \ {x}
  BY <1>1, RemovedFacts
<1>3. \A i \in 1..Len(subs) : \/ i < k /\ i \in 1..Len(less) /\ less[i] = subs[i]
                              \/ i = k
                              \/ i > k /\ i - 1 \in 1..Len(less) /\ less[i - 1] = subs[i]
  BY <1>1, RemovedFacts
<1>4. ASSUME NEW a, NEW b, Older(subs, a, b), a # x, b # x PROVE Older(less, a, b)
  <2>1. PICK i \in 1..Len(subs), j \in 1..Len(subs) : i < j /\ subs[i] = a /\ subs[j] = b
    BY <1>4 DEF Older
  <2>2. i # k /\ j # k
    BY <1>1, <1>4, <2>1
  <2> DEFINE c == IF i < k THEN i ELSE i - 1
             d == IF j < k THEN j ELSE j - 1
  <2>3. c \in 1..Len(less) /\ less[c] = a
    BY <1>3, <2>1, <2>2
  <2>4. d \in 1..Len(less) /\ less[d] = b
    BY <1>3, <2>1, <2>2
  <2>5. c < d
    BY <2>1, <2>2
  <2> HIDE DEF c, d
  <2> QED
    BY <2>3, <2>4, <2>5 DEF Older
<1> QED
  BY <1>2, <1>4 DEF less

\* And out of each index: the first record that no longer listens is his.
LEMMA IndexWithout ==
    ASSUME NEW subs \in Seq(Subscribers), IsInjective(subs), NEW x \in ToSet(subs),
           NEW n, NEW index, IsIndex(subs, n, index), NEW rest, rest = ToSet(subs) \ {x}
    PROVE  IsIndex(RemoveFirst(subs, x), n,
                   IF IsSubscribedTo(x, n) THEN WithoutSilent(index, rest) ELSE index)
<1> DEFINE less == RemoveFirst(subs, x)
<1>1. /\ less \in Seq(Subscribers) /\ IsInjective(less) /\ ToSet(less) = rest
      /\ \A a, b : Older(subs, a, b) /\ a # x /\ b # x => Older(less, a, b)
  BY SubscribersWithout
<1> HIDE DEF less
<1>2. index \in Seq(Subscribers) /\ Len(index) \in Nat /\ DOMAIN index = 1..Len(index)
  BY DEF IsIndex
<1>3. ToSet(index) = {s \in ToSet(subs) : IsSubscribedTo(s, n)}
  BY DEF IsIndex
<1>4. ToSet(index) = {index[i] : i \in 1..Len(index)}
  BY <1>2 DEF ToSet
<1>5. IsInjective(index)
  BY IndexIsInjective
<1>6. \A i, j \in 1..Len(index) : i < j =>
          \/ Priority[index[i]] > Priority[index[j]]
          \/ Priority[index[i]] = Priority[index[j]] /\ Older(subs, index[i], index[j])
  BY DEF IsIndex, Ordered
<1>7. CASE ~IsSubscribedTo(x, n)
  <2>1. x \notin ToSet(index)
    BY <1>3, <1>7
  <2>2. \A i \in 1..Len(index) : index[i] # x
    BY <1>4, <2>1
  <2>3. Ordered(less, index)
    BY <1>1, <1>6, <2>2 DEF Ordered
  <2>4. ToSet(index) = {s \in ToSet(less) : IsSubscribedTo(s, n)}
    BY <1>1, <1>3, <1>7
  <2> QED
    BY <1>2, <1>7, <2>3, <2>4 DEF IsIndex, less
<1>8. CASE IsSubscribedTo(x, n)
  <2> DEFINE t == WithoutSilent(index, rest)
  <2>1. PICK k \in 1..Len(index) : index[k] = x
    BY <1>3, <1>4, <1>8
  <2>2. \A i \in 1..Len(index) : i # k => index[i] \in rest
    <3> SUFFICES ASSUME NEW i \in 1..Len(index), i # k PROVE index[i] \in rest
      OBVIOUS
    <3>1. index[i] # x
      BY <1>2, <1>5, <2>1 DEF IsInjective
    <3>2. index[i] \in ToSet(index)
      BY <1>4
    <3> QED
      BY <1>3, <3>1, <3>2
  <2>3. index[k] \notin rest
    BY <2>1
  <2>4. RemovedAt(Subscribers, index, k, t)
    BY <1>2, <2>2, <2>3, RemoveOutsider
  <2> HIDE DEF t
  <2>5. t \in Seq(Subscribers) /\ ToSet(t) = ToSet(index) \ {x}
    BY <1>2, <1>5, <2>1, <2>4, RemovedFacts
  <2>6. \A j \in 1..Len(t) : \/ j < k /\ j \in 1..Len(index) /\ t[j] = index[j]
                             \/ j >= k /\ j + 1 \in 1..Len(index) /\ t[j] = index[j + 1]
    BY <1>2, <2>4, RemovedFacts
  <2>7. ToSet(t) = {s \in ToSet(less) : IsSubscribedTo(s, n)}
    BY <1>1, <1>3, <2>5
  <2>8. \A j \in 1..Len(t) : t[j] # x
    <3>1. DOMAIN t = 1..Len(t)
      BY <2>5
    <3> QED
      BY <2>5, <3>1 DEF ToSet
  <2>9. ASSUME NEW i \in 1..Len(t), NEW j \in 1..Len(t), i < j
        PROVE  \/ Priority[t[i]] > Priority[t[j]]
               \/ Priority[t[i]] = Priority[t[j]] /\ Older(less, t[i], t[j])
    <3> DEFINE a == IF i < k THEN i ELSE i + 1
               b == IF j < k THEN j ELSE j + 1
    <3>1. a \in 1..Len(index) /\ t[i] = index[a]
      BY <2>6
    <3>2. b \in 1..Len(index) /\ t[j] = index[b]
      BY <2>6
    <3>3. a < b
      BY <2>9
    <3> HIDE DEF a, b
    <3>4. \/ Priority[t[i]] > Priority[t[j]]
          \/ Priority[t[i]] = Priority[t[j]] /\ Older(subs, t[i], t[j])
      BY <1>6, <3>1, <3>2, <3>3
    <3> QED
      BY <1>1, <2>8, <3>4
  <2>10. Ordered(less, t)
    BY <2>9 DEF Ordered
  <2> QED
    BY <1>8, <2>5, <2>7, <2>10 DEF IsIndex, less, t
<1> QED
  BY <1>7, <1>8

LEMMA RegistryInsert ==
    ASSUME RegistryInv, NEW s \in Subscribers, s \notin known, known' = known \cup {s},
           InsertSubscriber(s)
    PROVE  RegistryInv'
<1>1. s \notin ToSet(subscribers)
  BY DEF RegistryInv
<1>2. subscribers \in Seq(Subscribers) /\ IsInjective(subscribers)
  BY DEF RegistryInv
<1>3. subscribers' = Append(subscribers, s)
  BY DEF InsertSubscriber
<1>4. subscribers' \in Seq(Subscribers) /\ ToSet(subscribers') = ToSet(subscribers) \cup {s}
      /\ IsInjective(subscribers')
  <2> DEFINE k == Len(subscribers) + 1
  <2>1. InsertedAt(Subscribers, subscribers, k, s, subscribers')
    BY <1>2, <1>3 DEF InsertedAt
  <2>2. ToSet(subscribers') = ToSet(subscribers) \cup {s}
    BY <1>2, <2>1, InsertedFacts
  <2>3. DOMAIN subscribers' = 1..k /\ DOMAIN subscribers = 1..Len(subscribers)
        /\ Len(subscribers) \in Nat /\ subscribers'[k] = s
        /\ \A i \in 1..Len(subscribers) : subscribers'[i] = subscribers[i]
    BY <1>2, <1>3
  <2>4. \A i \in 1..Len(subscribers) : subscribers[i] # s
    BY <1>1, <2>3 DEF ToSet
  <2>5. \A i \in 1..k : i = k \/ i \in 1..Len(subscribers)
    BY <2>3
  <2>6. \A i, j \in 1..Len(subscribers) : subscribers[i] = subscribers[j] => i = j
    BY <1>2, <2>3 DEF IsInjective
  <2> HIDE DEF k
  <2>7. IsInjective(subscribers')
    BY <2>3, <2>4, <2>5, <2>6 DEF IsInjective
  <2> QED
    BY <1>2, <1>3, <2>2, <2>7
<1>5. ToSet(subscribers') = listening' /\ listening' \subseteq known'
  BY <1>4 DEF RegistryInv, InsertSubscriber
<1>6. eventSubscribers' = [n \in Names |-> eventSubscribers'[n]]
  BY DEF InsertSubscriber
<1>7. ASSUME NEW n \in Names PROVE IsIndex(subscribers', n, eventSubscribers'[n])
  <2>1. eventSubscribers'[n] = IF IsSubscribedTo(s, n) THEN InsertByPriority(eventSubscribers[n], s)
                                                       ELSE eventSubscribers[n]
    BY DEF InsertSubscriber
  <2>2. IsIndex(subscribers, n, eventSubscribers[n])
    BY DEF RegistryInv
  <2> QED
    BY <1>1, <1>2, <1>3, <2>1, <2>2, IndexWithNew
<1> QED
  BY <1>4, <1>5, <1>6, <1>7 DEF RegistryInv

LEMMA RegistryRemove ==
    ASSUME RegistryInv, NEW s \in Subscribers, RemoveSubscriber(s), known' = known
    PROVE  RegistryInv'
<1>1. CASE s \notin ToSet(subscribers)
  BY <1>1 DEF RegistryInv, RemoveSubscriber, registryVars
<1>2. CASE s \in ToSet(subscribers)
  <2>1. /\ subscribers \in Seq(Subscribers) /\ IsInjective(subscribers)
        /\ ToSet(subscribers) = listening /\ listening \subseteq known
    BY DEF RegistryInv
  <2>2. subscribers' = RemoveFirst(subscribers, s) /\ listening' = ToSet(subscribers) \ {s}
    BY <1>2, <2>1 DEF RemoveSubscriber
  <2>3. subscribers' \in Seq(Subscribers) /\ IsInjective(subscribers')
        /\ ToSet(subscribers') = ToSet(subscribers) \ {s}
    BY <1>2, <2>1, <2>2, SubscribersWithout
  <2>4. eventSubscribers' = [n \in Names |->
                IF IsSubscribedTo(s, n)
                THEN WithoutSilent(eventSubscribers[n], listening')
                ELSE eventSubscribers[n]]
    BY <1>2 DEF RemoveSubscriber, WithoutSilent
  <2>5. ASSUME NEW n \in Names PROVE IsIndex(subscribers', n, eventSubscribers'[n])
    <3> DEFINE rest == listening'
    <3>1. eventSubscribers'[n] =
                IF IsSubscribedTo(s, n)
                THEN WithoutSilent(eventSubscribers[n], rest)
                ELSE eventSubscribers[n]
      BY <2>4
    <3>2. IsIndex(subscribers, n, eventSubscribers[n])
      BY DEF RegistryInv
    <3> QED
      BY <1>2, <2>1, <2>2, <3>1, <3>2, IndexWithout
  <2>6. listening' \subseteq known'
    BY <2>1, <2>2
  <2>7. eventSubscribers' = [n \in Names |-> eventSubscribers'[n]]
    BY <2>4
  <2> QED
    BY <2>2, <2>3, <2>5, <2>6, <2>7 DEF RegistryInv
<1> QED
  BY <1>1, <1>2

LEMMA RegistryInvInit == Init => RegistryInv
<1> SUFFICES ASSUME Init PROVE RegistryInv
  OBVIOUS
<1>1. subscribers = <<>> /\ listening = {} /\ eventSubscribers = [n \in Names |-> <<>>]
  BY DEF Init, RegistryInit
<1>2. \A n \in Names : IsIndex(subscribers, n, eventSubscribers[n])
  BY <1>1 DEF IsIndex, Ordered, ToSet
<1> QED
  BY <1>1, <1>2 DEF RegistryInv, IsInjective, ToSet

\* Steps that leave the registry's containers alone.
ContainersKept == UNCHANGED <<subscribers, eventSubscribers, listening, known>>

LEMMA RegistryKept == ASSUME RegistryInv, ContainersKept PROVE RegistryInv'
BY DEF RegistryInv, ContainersKept

LEMMA RegistryInvNext == ASSUME RegistryInv, [Next]_vars PROVE RegistryInv'
<1>1. CASE MainStep
  <2>1. ContainersKept
    BY <1>1 DEF MainStep, PublishMapped, EnqueueUnorderedRecord, CollectFrozenEvents, GetFrozenEvents,
                PostReplay, registryVars, ghostVars, ContainersKept
  <2> QED
    BY <2>1, RegistryKept
<1>2. CASE WorkerStep
  <2>1. ContainersKept
    BY <1>2 DEF WorkerStep, TakeImmediate, TakeLow, NotifyReceiver, FindFrozen, KeepFrozenEvent,
                InsertFrozenEvents, NotifyEnd, registryVars, ghostVars, ContainersKept
  <2> QED
    BY <2>1, RegistryKept
<1>3. CASE \E p \in Publications : PublishCommonEvent(p)
  <2>1. ContainersKept
    BY <1>3 DEF PublishCommonEvent, registryVars, ContainersKept
  <2> QED
    BY <2>1, RegistryKept
<1>4. ASSUME NEW s \in Subscribers, SubscribeCommonEvent(s) PROVE RegistryInv'
  BY <1>4, RegistryInsert DEF SubscribeCommonEvent
<1>5. ASSUME NEW s \in Subscribers, UnsubscribeCommonEvent(s) \/ SubscriberDied(s) PROVE RegistryInv'
  BY <1>5, RegistryRemove DEF UnsubscribeCommonEvent, SubscriberDied, ghostVars
<1>6. CASE (\E u \in FreezeUids : Freeze(u) \/ Unfreeze(u)) \/ Tick \/ UNCHANGED vars
  <2>1. ContainersKept
    BY <1>6 DEF Freeze, Unfreeze, UpdateFreezeInfo, Tick, vars, registryVars, ghostVars, ContainersKept
  <2> QED
    BY <2>1, RegistryKept
<1> QED
  BY <1>1, <1>2, <1>3, <1>4, <1>5, <1>6 DEF Next, Calling

\* The property says it with the position at which a record was added.
LEMMA IndexAgreesFromInv == RegistryInv => IndexAgrees
<1> SUFFICES ASSUME RegistryInv PROVE IndexAgrees
  OBVIOUS
<1> DEFINE age(s) == CHOOSE i \in DOMAIN subscribers : subscribers[i] = s
<1>1. /\ subscribers \in Seq(Subscribers) /\ IsInjective(subscribers) /\ ToSet(subscribers) = listening
      /\ DOMAIN subscribers = 1..Len(subscribers)
  BY DEF RegistryInv
<1>2. \A i \in DOMAIN subscribers : age(subscribers[i]) = i
  BY <1>1 DEF IsInjective
<1> HIDE DEF age
<1>3. \A a, b : Older(subscribers, a, b) => age(a) < age(b)
  BY <1>1, <1>2 DEF Older
<1>4. ASSUME NEW n \in Names
      PROVE  /\ ToSet(eventSubscribers[n]) = {s \in listening : IsSubscribedTo(s, n)}
             /\ \A i, j \in DOMAIN eventSubscribers[n] : i < j =>
                    \/ Priority[eventSubscribers[n][i]] > Priority[eventSubscribers[n][j]]
                    \/ /\ Priority[eventSubscribers[n][i]] = Priority[eventSubscribers[n][j]]
                       /\ age(eventSubscribers[n][i]) < age(eventSubscribers[n][j])
  <2>1. IsIndex(subscribers, n, eventSubscribers[n])
    BY DEF RegistryInv
  <2>2. DOMAIN eventSubscribers[n] = 1..Len(eventSubscribers[n])
    BY <2>1 DEF IsIndex
  <2> QED
    BY <1>1, <1>3, <2>1, <2>2 DEF IsIndex, Ordered
<1> QED
  BY <1>1, <1>4 DEF IndexAgrees, age

\* Whatever subscribes, unsubscribes and dies, each name indexes exactly the
\* listening subscribers of that name, by priority and then by age.
THEOREM IndexStaysInStep == Spec => []IndexAgrees
<1>1. RegistryInv /\ [Next]_vars => RegistryInv'
  BY RegistryInvNext
<1> QED
  BY <1>1, RegistryInvInit, IndexAgreesFromInv, PTL DEF Spec

-----------------------------------------------------------------------------
(* Types *)

\* No entry is empty, the worker is at a receiver of its record or behind the
\* last, and only a mapped name has a second event.
Filled(entries) == \A f \in entries : f.kept # <<>>
Fits(w) ==
    w.at # "idle" =>
        /\ DOMAIN w.deliveryState = DOMAIN w.record.receivers
        /\ w.nextReceiver \in 1..Len(w.record.receivers) + 1
        /\ w.at = "keep" => w.nextReceiver \in 1..Len(w.record.receivers)
HasMapped(m) == m.at = "map" => Name[m.record.pub] \in DOMAIN Mapped /\ m.record.as = "named"

\* The inductive form of TypeOK.
TypeInv ==
    /\ TypeOK
    /\ Filled(frozenEvents) /\ (main.at = "replay" => Filled(main.rest))
    /\ Fits(worker) /\ HasMapped(main)

LEMMA EventRecordType ==
    ASSUME NEW p \in Publications, NEW as \in Kinds, NEW receivers \in Seq(Subscribers)
    PROVE  /\ EventRecord(p, as, receivers) \in EventRecords
           /\ EventRecord(p, as, receivers).pub = p
           /\ EventRecord(p, as, receivers).as = as
           /\ EventRecord(p, as, receivers).receivers = receivers
BY DEF EventRecord, EventRecords

LEMMA MainTypes ==
    /\ Idle \in MainStates /\ Idle.at = "idle"
    /\ \A r \in EventRecords :
           [at |-> "map", record |-> r] \in MainStates
    /\ \A r \in EventRecords, rest \in Seq(EventRecords) : Enqueueing(r, rest) \in MainStates
    /\ \A u \in FreezeUids : [at |-> "collect", uid |-> u] \in MainStates
    /\ \A rest \in SUBSET FrozenEntries : [at |-> "replay", rest |-> rest] \in MainStates
BY DEF MainStates, Idle, Enqueueing

LEMMA MainFields ==
    ASSUME NEW m \in MainStates
    PROVE  /\ m.at \in {"idle", "map", "enqueue", "collect", "replay"}
           /\ m.at = "map" => m.record \in EventRecords
           /\ m.at = "enqueue" => m.record \in EventRecords /\ m.rest \in Seq(EventRecords)
           /\ m.at = "collect" => m.uid \in FreezeUids
           /\ m.at = "replay" => m.rest \subseteq FrozenEntries /\ m = [at |-> "replay", rest |-> m.rest]
BY DEF MainStates

LEMMA TaskTypes ==
    /\ \A r \in EventRecords : [do |-> "notify", record |-> r] \in Tasks
    /\ \A s \in Subscribers, e \in FrozenEvents, b \in BOOLEAN :
           [do |-> "replay", to |-> s, event |-> e, listener |-> b] \in Tasks
BY DEF Tasks

LEMMA TaskFields ==
    ASSUME NEW t \in Tasks
    PROVE  /\ t.do \in {"notify", "replay"}
           /\ t.do = "notify" => t.record \in EventRecords
           /\ t.do = "replay" => t.to \in Subscribers /\ t.event \in FrozenEvents /\ t.listener \in BOOLEAN
BY DEF Tasks

LEMMA WorkerFields ==
    ASSUME NEW w \in WorkerStates
    PROVE  /\ w.at \in {"idle", "notify", "keep"}
           /\ w.at # "idle" =>
                 /\ w.record \in EventRecords /\ w.nextReceiver \in Nat /\ w.deliveryState \in Seq(Deliveries)
                 /\ w = [at |-> w.at, record |-> w.record, nextReceiver |-> w.nextReceiver,
                         deliveryState |-> w.deliveryState]
<1>1. CASE w \in [at : {"idle"}]
  BY <1>1
<1>2. CASE w \in [at : {"notify", "keep"}, record : EventRecords, nextReceiver : Nat,
                  deliveryState : Seq(Deliveries)]
  BY <1>2
<1> QED
  BY <1>1, <1>2 DEF WorkerStates

LEMMA RecordFields ==
    ASSUME NEW r \in EventRecords
    PROVE  /\ r.pub \in Publications /\ r.as \in Kinds /\ r.receivers \in Seq(Subscribers)
           /\ Len(r.receivers) \in Nat /\ DOMAIN r.receivers = 1..Len(r.receivers)
           /\ \A i \in 1..Len(r.receivers) : r.receivers[i] \in Subscribers
<1>1. r.pub \in Publications /\ r.as \in Kinds /\ r.receivers \in Seq(Subscribers)
  BY DEF EventRecords
<1> QED
  BY <1>1

\* The fields of the worker when it has moved on.
LEMMA DeliveredFields ==
    ASSUME TypeInv, worker.at # "idle", worker.nextReceiver \in 1..Len(worker.record.receivers),
           NEW state \in Deliveries
    PROVE  LET w == Delivered(state) IN
           /\ w \in WorkerStates /\ Fits(w) /\ w.at = "notify" /\ w.record = worker.record
           /\ w.nextReceiver = worker.nextReceiver + 1
           /\ w.deliveryState = [worker.deliveryState EXCEPT ![worker.nextReceiver] = state]
<1> DEFINE d == worker.deliveryState
           n == worker.nextReceiver
           r == worker.record
           e == [d EXCEPT ![n] = state]
<1>1. /\ r \in EventRecords /\ n \in Nat /\ d \in Seq(Deliveries)
      /\ worker = [at |-> worker.at, record |-> r, nextReceiver |-> n, deliveryState |-> d]
  BY WorkerFields DEF TypeInv, TypeOK
<1>2. DOMAIN d = DOMAIN r.receivers /\ n \in 1..Len(r.receivers)
  BY DEF TypeInv, Fits
<1>4. Delivered(state) = [at |-> "notify", record |-> r, nextReceiver |-> n + 1, deliveryState |-> e]
  BY DEF Delivered
<1> HIDE DEF d, n, r
<1>3. e \in Seq(Deliveries) /\ DOMAIN e = DOMAIN d
  <2>1. DOMAIN d = 1..Len(d) /\ Len(d) \in Nat /\ \A i \in 1..Len(d) : d[i] \in Deliveries
    BY <1>1
  <2>2. DOMAIN e = 1..Len(d) /\ \A i \in 1..Len(d) : e[i] \in Deliveries
    BY <2>1
  <2>3. e \in [1..Len(d) -> Deliveries]
    BY <2>2
  <2> QED
    BY <2>1, <2>2, <2>3
<1> HIDE DEF e
<1> DEFINE w == [at |-> "notify", record |-> r, nextReceiver |-> n + 1, deliveryState |-> e]
<1>5. w \in WorkerStates
  BY <1>1, <1>3 DEF WorkerStates
<1>6. Fits(w)
  BY <1>1, <1>2, <1>3 DEF Fits
<1> QED
  BY <1>4, <1>5, <1>6 DEF d, n, r, e

LEMMA HeadTailFacts ==
    ASSUME NEW S, NEW q \in Seq(S), q # <<>>
    PROVE  /\ Head(q) \in S /\ Head(q) = q[1] /\ Tail(q) \in Seq(S)
           /\ Len(q) \in Nat /\ Len(q) > 0 /\ Len(Tail(q)) = Len(q) - 1
           /\ \A i \in 1..Len(Tail(q)) : i + 1 \in 1..Len(q) /\ Tail(q)[i] = q[i + 1]
OBVIOUS

LEMMA AppendFacts ==
    ASSUME NEW S, NEW q \in Seq(S), NEW e \in S
    PROVE  LET t == Append(q, e) IN
           /\ t \in Seq(S) /\ Len(q) \in Nat /\ Len(t) = Len(q) + 1
           /\ t[Len(q) + 1] = e
           /\ \A i \in 1..Len(q) : t[i] = q[i]
           /\ \A i \in 1..Len(t) : i \in 1..Len(q) \/ i = Len(q) + 1
OBVIOUS

\* The subscribers to whom an event goes.
LEMMA ReceiversFacts ==
    ASSUME RegistryInv, NEW n \in Names, NEW passing
    PROVE  LET r == GetSubscriberRecords(n, passing) IN
           /\ r \in Seq(Subscribers) /\ IsInjective(r) /\ ToSet(r) \subseteq listening
<1>1. IsIndex(subscribers, n, eventSubscribers[n])
  BY DEF RegistryInv
<1>2. subscribers \in Seq(Subscribers) /\ IsInjective(subscribers) /\ ToSet(subscribers) = listening
  BY DEF RegistryInv
<1> DEFINE s == eventSubscribers[n]
<1>3. s \in Seq(Subscribers) /\ IsInjective(s) /\ ToSet(s) \subseteq listening
  <2>1. IsInjective(s)
    BY <1>1, <1>2, IndexIsInjective
  <2> QED
    BY <1>1, <1>2, <2>1 DEF IsIndex
<1> HIDE DEF s
<1>4. /\ Selected(s, passing) \in Seq(Subscribers) /\ IsInjective(Selected(s, passing))
      /\ ToSet(Selected(s, passing)) = ToSet(s) \cap passing
  BY <1>3, SelectedFacts
<1> QED
  BY <1>3, <1>4 DEF GetSubscriberRecords, s

\* The sticky events for a new subscriber: one for each of some of its names.
LEMMA StickyFacts ==
    ASSUME commonEventRecords \in [Names -> Publications \cup {None}], NEW s \in Subscribers
    PROVE  /\ StickyFor(s) \in Seq(EventRecords)
           /\ \E found \in Seq(Names) :
                 /\ IsInjective(found) /\ Len(found) = Len(StickyFor(s))
                 /\ \A i \in 1..Len(found) :
                       /\ commonEventRecords[found[i]] \in Publications
                       /\ StickyFor(s)[i] = EventRecord(commonEventRecords[found[i]], s, <<s>>)
<1> DEFINE wanted == {n \in Names : commonEventRecords[n] # None}
           found == Selected(Subscribed[s], wanted)
           sticky == [i \in DOMAIN found |-> EventRecord(commonEventRecords[found[i]], s, <<s>>)]
<1>1. Subscribed[s] \in Seq(Names) /\ IsInjective(Subscribed[s])
  BY RegistryAssumption
<1>2. found \in Seq(Names) /\ IsInjective(found) /\ ToSet(found) = ToSet(Subscribed[s]) \cap wanted
  BY <1>1, SelectedFacts
<1>3. StickyFor(s) = sticky
  BY DEF StickyFor
<1> HIDE DEF found
<1>4. Len(found) \in Nat /\ DOMAIN found = 1..Len(found)
  BY <1>2
<1>5. ASSUME NEW i \in 1..Len(found)
      PROVE  /\ commonEventRecords[found[i]] \in Publications
             /\ sticky[i] = EventRecord(commonEventRecords[found[i]], s, <<s>>)
             /\ sticky[i] \in EventRecords
  <2>1. found[i] \in wanted
    BY <1>2, <1>4 DEF ToSet
  <2>2. commonEventRecords[found[i]] \in Publications
    BY <2>1
  <2>3. <<s>> \in Seq(Subscribers) /\ s \in Kinds
    BY DEF Kinds
  <2> QED
    BY <1>4, <2>2, <2>3, EventRecordType
<1>6. sticky \in [1..Len(found) -> EventRecords]
  BY <1>4, <1>5
<1>7. sticky \in Seq(EventRecords) /\ Len(sticky) = Len(found)
  <2> HIDE DEF sticky
  <2> QED
    BY <1>4, <1>6
<1> HIDE DEF sticky
<1> QED
  BY <1>2, <1>3, <1>5, <1>7

\* The types of the parts.
RegistryTypes ==
    /\ subscribers \in Seq(Subscribers) /\ eventSubscribers \in [Names -> Seq(Subscribers)]
    /\ listening \subseteq Subscribers /\ isFreeze \subseteq Subscribers
    /\ frozenEvents \subseteq FrozenEntries /\ Filled(frozenEvents)
QueueTypes ==
    /\ unorderedEventQueue \in Seq(EventRecords) /\ immediate \in Seq(Tasks) /\ low \in Seq(Tasks)
StoreTypes ==
    /\ commonEventRecords \in [Names -> Publications \cup {None}]
    /\ action \in [Publications -> Names] /\ recordTime \in [Publications -> 0..MaxTime]
HistoryType == historyEvents \in Seq([record : EventRecords, deliveryState : Seq(Deliveries)])
MainType == main \in MainStates /\ HasMapped(main) /\ (main.at = "replay" => Filled(main.rest))
WorkerType == worker \in WorkerStates /\ Fits(worker)
ClockType == clock \in 0..MaxTime
GhostTypes ==
    /\ published \in Seq(Publications) /\ known \subseteq Subscribers
    /\ done \subseteq EventRecords
ToldType == told \in [Subscribers -> Seq(Received)]

LEMMA TypeParts ==
    TypeInv <=> /\ RegistryTypes /\ QueueTypes /\ StoreTypes /\ HistoryType
                /\ MainType /\ WorkerType /\ ClockType /\ GhostTypes /\ ToldType
BY DEF TypeInv, TypeOK, RegistryTypes, QueueTypes, StoreTypes, HistoryType, MainType, WorkerType,
       ClockType, GhostTypes, ToldType

LEMMA TypePartsNext ==
    TypeInv' <=> /\ RegistryTypes' /\ QueueTypes' /\ StoreTypes' /\ HistoryType'
                 /\ MainType' /\ WorkerType' /\ ClockType' /\ GhostTypes' /\ ToldType'
BY DEF TypeInv, TypeOK, RegistryTypes, QueueTypes, StoreTypes, HistoryType, MainType, WorkerType,
       ClockType, GhostTypes, ToldType

LEMMA TypesKept ==
    /\ RegistryTypes /\ UNCHANGED registryVars => RegistryTypes'
    /\ QueueTypes /\ UNCHANGED queueVars => QueueTypes'
    /\ StoreTypes /\ UNCHANGED storeVars => StoreTypes'
    /\ HistoryType /\ UNCHANGED historyEvents => HistoryType'
    /\ MainType /\ UNCHANGED main => MainType'
    /\ WorkerType /\ UNCHANGED worker => WorkerType'
    /\ ClockType /\ UNCHANGED clock => ClockType'
    /\ GhostTypes /\ UNCHANGED <<published, known, done>> => GhostTypes'
    /\ ToldType /\ UNCHANGED told => ToldType'
BY DEF RegistryTypes, registryVars, QueueTypes, queueVars, StoreTypes, storeVars, HistoryType, MainType,
       WorkerType, ClockType, GhostTypes, ToldType

LEMMA TypeInvInit == Init => TypeInv
<1> SUFFICES ASSUME Init PROVE TypeInv
  OBVIOUS
<1>1. RegistryTypes
  BY DEF Init, RegistryInit, RegistryTypes, Filled
<1>2. QueueTypes /\ HistoryType /\ ClockType /\ GhostTypes /\ ToldType
  BY UnorderedAssumption DEF Init, QueueTypes, HistoryType, ClockType, GhostTypes, ToldType
<1>3. StoreTypes
  BY UnorderedAssumption DEF Init, StoreTypes
<1>4. MainType
  BY MainTypes DEF Init, MainType, HasMapped
<1>5. WorkerType
  BY DEF Init, WorkerType, WorkerStates, Idle, Fits
<1> QED
  BY <1>1, <1>2, <1>3, <1>4, <1>5, TypeParts

LEMMA TypePublish ==
    ASSUME TypeInv, RegistryInv, NEW p \in Publications, PublishCommonEvent(p)
    PROVE  TypeInv'
<1> DEFINE receivers == GetSubscriberRecords(Name[p], Passing[p])
<1>1. Name[p] \in Names
  BY UnorderedAssumption
<1>2. receivers \in Seq(Subscribers)
  BY <1>1, ReceiversFacts
<1> HIDE DEF receivers
<1>3. main' = Enqueueing(EventRecord(p, "named", receivers), <<>>)
  BY DEF PublishCommonEvent, receivers
<1>4. EventRecord(p, "named", receivers) \in EventRecords
  BY <1>2, EventRecordType DEF Kinds
<1>5. MainType'
  <2>1. main' \in MainStates
    <3> DEFINE r == EventRecord(p, "named", receivers)
    <3>1. r \in EventRecords /\ main' = Enqueueing(r, <<>>)
      BY <1>3, <1>4
    <3> HIDE DEF r
    <3>2. <<>> \in Seq(EventRecords)
      OBVIOUS
    <3> QED
      BY <3>1, <3>2, MainTypes
  <2> QED
    BY <1>3, <2>1 DEF MainType, Enqueueing, HasMapped
<1>6. StoreTypes'
  <2>1. /\ commonEventRecords \in [Names -> Publications \cup {None}]
        /\ action \in [Publications -> Names] /\ recordTime \in [Publications -> 0..MaxTime]
        /\ clock \in 0..MaxTime
    BY TypeParts DEF StoreTypes, ClockType
  <2>2. recordTime' \in [Publications -> 0..MaxTime] /\ action' = action
    BY <2>1 DEF PublishCommonEvent
  <2>3. commonEventRecords' \in [Names -> Publications \cup {None}]
    BY <1>1, <2>1 DEF PublishCommonEvent, UpdateStickyEvent
  <2> QED
    BY <2>1, <2>2, <2>3 DEF StoreTypes
<1>7. GhostTypes'
  BY TypeParts DEF GhostTypes, PublishCommonEvent
<1>8. UNCHANGED <<registryVars, queueVars, historyEvents, worker, clock, told>>
  BY DEF PublishCommonEvent
<1> QED
  BY <1>5, <1>6, <1>7, <1>8, TypeParts, TypePartsNext, TypesKept

LEMMA TypePublishMapped == ASSUME TypeInv, RegistryInv, PublishMapped PROVE TypeInv'
<1> DEFINE p == main.record.pub
           n == Mapped[Name[p]]
           receivers == GetSubscriberRecords(n, Passing[p])
<1>1. main.at = "map" /\ main.record \in EventRecords
  BY TypeParts, MainFields DEF PublishMapped, MainType
<1>2. p \in Publications
  BY <1>1, RecordFields
<1>3. action' = [action EXCEPT ![p] = n]
      /\ main' = Enqueueing(EventRecord(p, "mapped", receivers), <<>>)
  BY DEF PublishMapped
<1>4. UNCHANGED <<registryVars, queueVars, historyEvents, commonEventRecords, recordTime, worker, clock,
                  published, known, done, told>>
  BY DEF PublishMapped, ghostVars
<1> HIDE DEF p
<1>5. n \in Names
  <2>1. Name[p] \in DOMAIN Mapped
    BY <1>1, TypeParts DEF MainType, HasMapped, p
  <2> QED
    BY <2>1, UnorderedAssumption
<1>6. receivers \in Seq(Subscribers)
  BY <1>5, ReceiversFacts
<1> HIDE DEF receivers, n
<1>7. EventRecord(p, "mapped", receivers) \in EventRecords
  BY <1>2, <1>6, EventRecordType DEF Kinds
<1>8. MainType'
  <2>1. main' \in MainStates
    <3> DEFINE r == EventRecord(p, "mapped", receivers)
    <3>1. r \in EventRecords /\ main' = Enqueueing(r, <<>>)
      BY <1>3, <1>7
    <3> HIDE DEF r
    <3>2. <<>> \in Seq(EventRecords)
      OBVIOUS
    <3> QED
      BY <3>1, <3>2, MainTypes
  <2> QED
    BY <1>3, <2>1 DEF MainType, Enqueueing, HasMapped
<1>9. StoreTypes'
  BY <1>2, <1>3, <1>4, <1>5, TypeParts DEF StoreTypes
<1> QED
  BY <1>4, <1>8, <1>9, TypeParts, TypePartsNext, TypesKept

LEMMA TypeEnqueue == ASSUME TypeInv, EnqueueUnorderedRecord PROVE TypeInv'
<1> DEFINE r == main.record
           rest == main.rest
           task == [do |-> "notify", record |-> r]
<1>1. main.at = "enqueue" /\ r \in EventRecords /\ rest \in Seq(EventRecords)
  BY TypeParts, MainFields DEF EnqueueUnorderedRecord, MainType
<1>2. task \in Tasks
  BY <1>1, TaskTypes
<1>3. main' = IF r.as = "named" /\ Name[r.pub] \in DOMAIN Mapped THEN [at |-> "map", record |-> r]
              ELSE IF rest = <<>> THEN Idle ELSE Enqueueing(Head(rest), Tail(rest))
  BY DEF EnqueueUnorderedRecord
<1>4. /\ unorderedEventQueue' = Append(unorderedEventQueue, r)
      /\ \/ immediate' = Append(immediate, task) /\ low' = low
         \/ low' = Append(low, task) /\ immediate' = immediate
  BY DEF EnqueueUnorderedRecord
<1>5. UNCHANGED <<registryVars, historyEvents, storeVars, worker, clock, published, known, done, told>>
  BY DEF EnqueueUnorderedRecord, ghostVars
<1> HIDE DEF r, rest, task
<1>6. QueueTypes'
  <2>1. unorderedEventQueue \in Seq(EventRecords) /\ immediate \in Seq(Tasks) /\ low \in Seq(Tasks)
    BY TypeParts DEF QueueTypes
  <2>2. Append(unorderedEventQueue, r) \in Seq(EventRecords)
    BY <1>1, <2>1
  <2>3. Append(immediate, task) \in Seq(Tasks) /\ Append(low, task) \in Seq(Tasks)
    BY <1>2, <2>1
  <2> QED
    BY <1>4, <2>1, <2>2, <2>3 DEF QueueTypes
<1>7. MainType'
  <2>1. CASE r.as = "named" /\ Name[r.pub] \in DOMAIN Mapped
    <3>1. main' = [at |-> "map", record |-> r] /\ main' \in MainStates
      BY <1>1, <1>3, <2>1, MainTypes
    <3> QED
      BY <2>1, <3>1 DEF MainType, HasMapped
  <2>2. CASE ~(r.as = "named" /\ Name[r.pub] \in DOMAIN Mapped) /\ rest = <<>>
    <3>1. main' = Idle
      BY <1>3, <2>2
    <3> QED
      BY <3>1, MainTypes DEF MainType, HasMapped
  <2>3. CASE ~(r.as = "named" /\ Name[r.pub] \in DOMAIN Mapped) /\ rest # <<>>
    <3>1. main' = Enqueueing(Head(rest), Tail(rest))
      BY <1>3, <2>3
    <3>2. main' \in MainStates
      BY <1>1, <2>3, <3>1, HeadTailFacts, MainTypes
    <3> QED
      BY <3>1, <3>2 DEF MainType, HasMapped, Enqueueing
  <2> QED
    BY <2>1, <2>2, <2>3
<1> QED
  BY <1>5, <1>6, <1>7, TypeParts, TypePartsNext, TypesKept

LEMMA TypeSubscribe ==
    ASSUME TypeInv, RegistryInv', NEW s \in Subscribers, SubscribeCommonEvent(s)
    PROVE  TypeInv'
<1> DEFINE sticky == StickyFor(s)
<1>1. sticky \in Seq(EventRecords)
  BY StickyFacts, TypeParts DEF StoreTypes
<1>2. main' = IF sticky = <<>> THEN Idle ELSE Enqueueing(Head(sticky), Tail(sticky))
  BY DEF SubscribeCommonEvent
<1> HIDE DEF sticky
<1>3. MainType'
  <2>1. CASE sticky = <<>>
    BY <1>2, <2>1, MainTypes DEF MainType, HasMapped
  <2>2. CASE sticky # <<>>
    <3>1. main' = Enqueueing(Head(sticky), Tail(sticky)) /\ main' \in MainStates
      BY <1>1, <1>2, <2>2, HeadTailFacts, MainTypes
    <3> QED
      BY <3>1 DEF MainType, HasMapped, Enqueueing
  <2> QED
    BY <2>1, <2>2
<1>4. GhostTypes' /\ UNCHANGED <<isFreeze, frozenEvents>>
  BY TypeParts DEF GhostTypes, SubscribeCommonEvent, InsertSubscriber
<1>5. RegistryTypes'
  <2>1. \A n \in Names : eventSubscribers'[n] \in Seq(Subscribers)
    BY DEF RegistryInv, IsIndex
  <2>2. eventSubscribers' \in [Names -> Seq(Subscribers)] /\ subscribers' \in Seq(Subscribers)
        /\ listening' \subseteq Subscribers
    BY <1>4, <2>1 DEF RegistryInv, GhostTypes
  <2> QED
    BY <1>4, <2>2, TypeParts DEF RegistryTypes, Filled
<1>6. UNCHANGED <<queueVars, historyEvents, storeVars, worker, clock, told>>
  BY DEF SubscribeCommonEvent
<1> QED
  BY <1>3, <1>4, <1>5, <1>6, TypeParts, TypePartsNext, TypesKept

LEMMA TypeRemove ==
    ASSUME TypeInv, RegistryInv', NEW s \in Subscribers, UnsubscribeCommonEvent(s) \/ SubscriberDied(s)
    PROVE  TypeInv'
<1>1. RemoveSubscriber(s)
      /\ UNCHANGED <<queueVars, historyEvents, storeVars, main, worker, clock, published, known, done, told>>
  BY DEF UnsubscribeCommonEvent, SubscriberDied, ghostVars
<1>2. isFreeze' = isFreeze /\ frozenEvents' \subseteq frozenEvents
  BY <1>1 DEF RemoveSubscriber, RemoveFrozenEventsBySubscriber, registryVars
<1>3. RegistryTypes'
  <2>1. \A n \in Names : eventSubscribers'[n] \in Seq(Subscribers)
    BY DEF RegistryInv, IsIndex
  <2>2. eventSubscribers' \in [Names -> Seq(Subscribers)] /\ subscribers' \in Seq(Subscribers)
        /\ listening' \subseteq Subscribers
    BY <1>1, <2>1, TypeParts DEF RegistryInv, GhostTypes
  <2> QED
    BY <1>2, <2>2, TypeParts DEF RegistryTypes, Filled
<1> QED
  BY <1>1, <1>3, TypeParts, TypePartsNext, TypesKept

LEMMA TypeFreeze ==
    ASSUME TypeInv, NEW u \in FreezeUids, Freeze(u) \/ Unfreeze(u)
    PROVE  TypeInv'
<1>1. isFreeze' \subseteq isFreeze \cup ToSet(subscribers)
      /\ UNCHANGED <<subscribers, eventSubscribers, listening, frozenEvents, queueVars, historyEvents,
                     storeVars, worker, clock, published, known, done, told>>
  BY DEF Freeze, Unfreeze, UpdateFreezeInfo, ghostVars
<1>2. main' = main \/ main' = [at |-> "collect", uid |-> u]
  BY DEF Freeze, Unfreeze
<1>3. MainType'
  BY <1>2, TypeParts, MainTypes DEF MainType, HasMapped
<1>4. RegistryTypes'
  <2>1. ToSet(subscribers) \subseteq Subscribers
    BY TypeParts DEF RegistryTypes, ToSet
  <2> QED
    BY <1>1, <2>1, TypeParts DEF RegistryTypes, Filled
<1> QED
  BY <1>1, <1>3, <1>4, TypeParts, TypePartsNext, TypesKept

LEMMA TypeCollect == ASSUME TypeInv, CollectFrozenEvents PROVE TypeInv'
<1>1. /\ frozenEvents' \subseteq frozenEvents
      /\ UNCHANGED <<subscribers, eventSubscribers, listening, isFreeze, queueVars, historyEvents,
                     storeVars, worker, clock, published, known, done, told>>
  BY DEF CollectFrozenEvents, GetFrozenEvents, ghostVars
<1>2. main' = Idle \/ main' = [at |-> "replay", rest |-> FrozenEventsOf(main.uid)]
  BY DEF CollectFrozenEvents
<1>3. FrozenEventsOf(main.uid) \subseteq frozenEvents
  BY DEF FrozenEventsOf
<1>4. MainType'
  <2>1. CASE main' = Idle
    BY <2>1, MainTypes DEF MainType, HasMapped
  <2>2. CASE main' = [at |-> "replay", rest |-> FrozenEventsOf(main.uid)]
    BY <1>3, <2>2, TypeParts, MainTypes DEF MainType, HasMapped, RegistryTypes, Filled
  <2> QED
    BY <1>2, <2>1, <2>2
<1>5. RegistryTypes'
  BY <1>1, TypeParts DEF RegistryTypes, Filled
<1> QED
  BY <1>1, <1>4, <1>5, TypeParts, TypePartsNext, TypesKept

\* An entry with other events.
With(f, kept) == [f EXCEPT !.kept = kept]

LEMMA EntryFields ==
    ASSUME NEW f \in FrozenEntries, NEW kept \in Seq(FrozenEvents)
    PROVE  /\ f.owner \in Subscribers /\ f.kept \in Seq(FrozenEvents)
           /\ With(f, kept) \in FrozenEntries
           /\ With(f, kept).owner = f.owner /\ With(f, kept).kept = kept
BY DEF FrozenEntries, With

LEMMA EventFields ==
    ASSUME NEW e \in FrozenEvents
    PROVE  e.pub \in Publications /\ e.as \in Kinds /\ e.recordTime \in 0..MaxTime
BY DEF FrozenEvents

\* What is left of an entry when its first event is posted.
LEMMA WithoutFirstFacts ==
    ASSUME TypeInv, main.at = "replay", NEW f \in main.rest
    PROVE  /\ f \in FrozenEntries /\ f.kept # <<>>
           /\ \A g \in WithoutFirst(f) :
                 \/ g \in main.rest /\ g # f
                 \/ Tail(f.kept) # <<>> /\ g = With(f, Tail(f.kept)) /\ g \in FrozenEntries
           /\ WithoutFirst(f) \subseteq FrozenEntries /\ Filled(WithoutFirst(f))
<1>1. f \in FrozenEntries /\ f.kept # <<>> /\ main.rest \subseteq FrozenEntries /\ Filled(main.rest)
  BY TypeParts, MainFields DEF MainType, Filled
<1>2. Tail(f.kept) \in Seq(FrozenEvents)
  <2>1. f.kept \in Seq(FrozenEvents)
    BY <1>1 DEF FrozenEntries
  <2> QED
    BY <1>1, <2>1, HeadTailFacts
<1>3. ASSUME NEW g \in WithoutFirst(f)
      PROVE  \/ g \in main.rest /\ g # f
             \/ Tail(f.kept) # <<>> /\ g = With(f, Tail(f.kept))
  BY <1>3 DEF WithoutFirst, With
<1>4. /\ With(f, Tail(f.kept)) \in FrozenEntries /\ With(f, Tail(f.kept)).kept = Tail(f.kept)
  BY <1>1, <1>2, EntryFields
<1> QED
  BY <1>1, <1>3, <1>4 DEF Filled

\* What keeping an event makes of the entries.
LEMMA TrimFacts ==
    ASSUME NEW kept \in Seq(FrozenEvents), kept # <<>>, NEW e \in FrozenEvents
    PROVE  LET t == Trim(Append(kept, e)) IN
           /\ t \in Seq(FrozenEvents) /\ t # <<>>
           /\ \/ t = Append(kept, e)
              \/ /\ t = Tail(Append(kept, e)) /\ Len(t) = Len(kept)
                 /\ (\A i \in 1..Len(kept) - 1 : t[i] = kept[i + 1]) /\ t[Len(kept)] = e
                 /\ e.recordTime - kept[1].recordTime > FREEZE_EVENT_TIMEOUT
<1> DEFINE a == Append(kept, e)
           n == Len(kept)
<1>1. /\ a \in Seq(FrozenEvents) /\ n \in Nat /\ n > 0 /\ Len(a) = n + 1 /\ a # <<>>
      /\ a[n + 1] = e /\ \A i \in 1..n : a[i] = kept[i]
  OBVIOUS
<1>2. Last(a) = e /\ Head(a) = kept[1]
  BY <1>1 DEF Last
<1> DEFINE b == Tail(a)
<1>3. b \in Seq(FrozenEvents) /\ Len(b) = n /\ \A i \in 1..n : b[i] = a[i + 1]
  BY <1>1
<1>4. Trim(a) = IF e.recordTime - kept[1].recordTime > FREEZE_EVENT_TIMEOUT THEN b ELSE a
  BY <1>2 DEF Trim
<1> HIDE DEF a, b, n
<1>5. (\A i \in 1..n - 1 : b[i] = kept[i + 1]) /\ b[n] = e /\ b # <<>>
  BY <1>1, <1>3
<1>6. CASE e.recordTime - kept[1].recordTime > FREEZE_EVENT_TIMEOUT
  <2>1. Trim(a) = b
    BY <1>4, <1>6
  <2> QED
    BY <1>3, <1>5, <1>6, <2>1 DEF a, b, n
<1>7. CASE ~(e.recordTime - kept[1].recordTime > FREEZE_EVENT_TIMEOUT)
  <2>1. Trim(a) = a
    BY <1>4, <1>7
  <2> QED
    BY <1>1, <2>1 DEF a
<1> QED
  BY <1>6, <1>7

LEMMA InsertFrozenFacts ==
    ASSUME frozenEvents \subseteq FrozenEntries, Filled(frozenEvents),
           NEW s \in Subscribers, NEW e \in FrozenEvents, InsertFrozenEvents(s, e)
    PROVE  /\ EntryOf(s) = {} => frozenEvents' = frozenEvents \cup {[owner |-> s, kept |-> <<e>>]}
           /\ EntryOf(s) # {} =>
                 frozenEvents' = (frozenEvents \ EntryOf(s))
                                 \cup {With(f, Trim(Append(f.kept, e))) : f \in EntryOf(s)}
           /\ frozenEvents' \subseteq FrozenEntries /\ Filled(frozenEvents')
           /\ UNCHANGED <<subscribers, eventSubscribers, listening, isFreeze>>
<1>1. EntryOf(s) \subseteq frozenEvents
  BY DEF EntryOf
<1>2. EntryOf(s) = {} => frozenEvents' = frozenEvents \cup {[owner |-> s, kept |-> <<e>>]}
  BY DEF InsertFrozenEvents
<1>3. EntryOf(s) # {} =>
                 frozenEvents' = (frozenEvents \ EntryOf(s))
                                 \cup {With(f, Trim(Append(f.kept, e))) : f \in EntryOf(s)}
  BY DEF InsertFrozenEvents, With
<1>4. [owner |-> s, kept |-> <<e>>] \in FrozenEntries /\ <<e>> # <<>>
  BY DEF FrozenEntries
<1>5. ASSUME NEW f \in EntryOf(s)
      PROVE  /\ With(f, Trim(Append(f.kept, e))) \in FrozenEntries
             /\ With(f, Trim(Append(f.kept, e))).kept # <<>>
  <2> DEFINE t == Trim(Append(f.kept, e))
  <2>1. f \in FrozenEntries /\ f.kept \in Seq(FrozenEvents) /\ f.kept # <<>>
    BY <1>1 DEF FrozenEntries, Filled
  <2>2. t \in Seq(FrozenEvents) /\ t # <<>>
    BY <2>1, TrimFacts
  <2> HIDE DEF t
  <2>3. With(f, t) \in FrozenEntries /\ With(f, t).kept = t
    BY <2>1, <2>2, EntryFields
  <2> QED
    BY <2>2, <2>3 DEF t
<1>6. CASE EntryOf(s) = {}
  BY <1>2, <1>4, <1>6 DEF InsertFrozenEvents, Filled
<1>7. CASE EntryOf(s) # {}
  <2>1. \A g \in frozenEvents' : g \in frozenEvents \/ \E f \in EntryOf(s) : g = With(f, Trim(Append(f.kept, e)))
    BY <1>3, <1>7
  <2>2. frozenEvents' \subseteq FrozenEntries /\ Filled(frozenEvents')
    BY <1>5, <2>1 DEF Filled
  <2> QED
    BY <1>3, <1>7, <2>2 DEF InsertFrozenEvents
<1> QED
  BY <1>6, <1>7

LEMMA TypePostReplay == ASSUME TypeInv, PostReplay PROVE TypeInv'
<1>1. main.at = "replay"
  BY DEF PostReplay
<1>2. PICK f \in main.rest :
           /\ immediate' = Append(immediate, [do |-> "replay", to |-> f.owner, event |-> Head(f.kept),
                                              listener |-> f.owner \in listening])
           /\ main' = IF WithoutFirst(f) = {} THEN Idle ELSE [main EXCEPT !.rest = WithoutFirst(f)]
  BY DEF PostReplay
<1>3. f \in FrozenEntries /\ f.kept # <<>> /\ WithoutFirst(f) \subseteq FrozenEntries
      /\ Filled(WithoutFirst(f))
  BY <1>1, WithoutFirstFacts
<1>4. UNCHANGED <<registryVars, unorderedEventQueue, low, historyEvents, storeVars, worker, clock,
                  published, known, done, told>>
  BY DEF PostReplay, ghostVars
<1> DEFINE task == [do |-> "replay", to |-> f.owner, event |-> Head(f.kept),
                    listener |-> f.owner \in listening]
           rest == WithoutFirst(f)
<1>5. task \in Tasks
  <2>1. f.owner \in Subscribers /\ f.kept \in Seq(FrozenEvents)
    BY <1>3 DEF FrozenEntries
  <2>2. Head(f.kept) \in FrozenEvents
    BY <1>3, <2>1, HeadTailFacts
  <2>3. (f.owner \in listening) \in BOOLEAN
    OBVIOUS
  <2> QED
    BY <2>1, <2>2, <2>3, TaskTypes
<1> HIDE DEF task
<1>6. QueueTypes'
  BY <1>2, <1>4, <1>5, TypeParts DEF QueueTypes, task
<1>7. main' = Idle \/ main' = [at |-> "replay", rest |-> rest]
  <2>1. main = [at |-> "replay", rest |-> main.rest]
    BY <1>1, TypeParts, MainFields DEF MainType
  <2> HIDE DEF rest
  <2>2. [main EXCEPT !.rest = rest] = [at |-> "replay", rest |-> rest]
    BY <2>1
  <2> QED
    BY <1>2, <2>2 DEF rest
<1>8. MainType'
  <2> HIDE DEF rest
  <2>1. rest \in SUBSET FrozenEntries /\ Filled(rest)
    BY <1>3 DEF rest
  <2>2. CASE main' = Idle
    BY <2>2, MainTypes DEF MainType, HasMapped
  <2>3. CASE main' = [at |-> "replay", rest |-> rest]
    BY <2>1, <2>3, MainTypes DEF MainType, HasMapped
  <2> QED
    BY <1>7, <2>2, <2>3
<1> QED
  BY <1>4, <1>6, <1>8, TypeParts, TypePartsNext, TypesKept

\* What a task makes of the worker and of what was told.
LEMMA TypeRun ==
    ASSUME TypeInv, NEW task \in Tasks, Run(task)
    PROVE  WorkerType' /\ ToldType'
<1>1. CASE NotifyBegin(task)
  <2> DEFINE r == task.record
             d == [i \in DOMAIN r.receivers |-> "PENDING"]
  <2>1. r \in EventRecords
    BY <1>1, TaskFields DEF NotifyBegin
  <2>2. worker' = [at |-> "notify", record |-> r, nextReceiver |-> 1, deliveryState |-> d]
    BY <1>1 DEF NotifyBegin
  <2> HIDE DEF r
  <2>3. DOMAIN r.receivers = 1..Len(r.receivers) /\ Len(r.receivers) \in Nat
    BY <2>1, RecordFields
  <2>4. d \in Seq(Deliveries) /\ DOMAIN d = DOMAIN r.receivers
    <3>1. d \in [1..Len(r.receivers) -> Deliveries]
      BY <2>3 DEF Deliveries
    <3> QED
      BY <2>3, <3>1
  <2> HIDE DEF d
  <2>5. WorkerType'
    <3>1. worker' \in WorkerStates
      BY <2>1, <2>2, <2>4 DEF WorkerStates
    <3>2. Fits(worker')
      BY <2>2, <2>3, <2>4 DEF Fits
    <3> QED
      BY <3>1, <3>2 DEF WorkerType
  <2>6. ToldType'
    BY <1>1, TypeParts, TypesKept DEF NotifyBegin
  <2> QED
    BY <2>5, <2>6
<1>2. CASE NotifyFreezeEvents(task)
  <2>1. task.to \in Subscribers /\ task.event \in FrozenEvents
    BY <1>2, TaskFields DEF NotifyFreezeEvents
  <2>2. action[task.event.pub] \in Names
    BY <2>1, EventFields, TypeParts DEF StoreTypes
  <2> DEFINE e == [pub |-> task.event.pub, as |-> task.event.as, action |-> action[task.event.pub],
                   replayed |-> TRUE]
  <2>3. e \in Received
    BY <2>1, <2>2, EventFields DEF Received
  <2>4. told' = told \/ told' = [told EXCEPT ![task.to] = Append(@, e)]
    BY <1>2 DEF NotifyFreezeEvents, Tell
  <2> HIDE DEF e
  <2>5. ToldType'
    <3>1. told \in [Subscribers -> Seq(Received)]
      BY TypeParts DEF ToldType
    <3> DEFINE s == task.to
    <3>2. s \in Subscribers /\ (told' = told \/ told' = [told EXCEPT ![s] = Append(@, e)])
      BY <2>1, <2>4
    <3> HIDE DEF s
    <3>3. Append(told[s], e) \in Seq(Received)
      BY <2>3, <3>1, <3>2
    <3> QED
      BY <3>1, <3>2, <3>3 DEF ToldType
  <2>6. WorkerType'
    BY <1>2, TypeParts, TypesKept DEF NotifyFreezeEvents
  <2> QED
    BY <2>5, <2>6
<1> QED
  BY <1>1, <1>2 DEF Run

LEMMA TypeTake == ASSUME TypeInv, TakeImmediate \/ TakeLow PROVE TypeInv'
<1>1. immediate \in Seq(Tasks) /\ low \in Seq(Tasks)
  BY TypeParts DEF QueueTypes
<1>2. UNCHANGED <<registryVars, unorderedEventQueue, historyEvents, storeVars, main, clock,
                  published, known, done>>
  BY DEF TakeImmediate, TakeLow
<1>3. QueueTypes'
  BY <1>1, <1>2, HeadTailFacts, TypeParts DEF TakeImmediate, TakeLow, QueueTypes
<1>4. \E task \in Tasks : Run(task)
  BY <1>1, HeadTailFacts DEF TakeImmediate, TakeLow
<1>5. WorkerType' /\ ToldType'
  BY <1>4, TypeRun
<1> QED
  BY <1>2, <1>3, <1>5, TypeParts, TypePartsNext, TypesKept

LEMMA ReceiverFacts ==
    ASSUME TypeInv, HasReceiver \/ worker.at = "keep"
    PROVE  /\ worker.at # "idle" /\ worker.record \in EventRecords
           /\ worker.nextReceiver \in 1..Len(worker.record.receivers)
           /\ Receiver = worker.record.receivers[worker.nextReceiver]
           /\ Receiver \in Subscribers
<1>1. worker.at # "idle" /\ worker.record \in EventRecords
  BY TypeParts, WorkerFields DEF HasReceiver, WorkerType
<1>2. worker.nextReceiver \in 1..Len(worker.record.receivers)
  BY <1>1, RecordFields, TypeParts DEF HasReceiver, WorkerType, Fits
<1> QED
  BY <1>1, <1>2, RecordFields DEF Receiver

LEMMA TypeNotifyReceiver == ASSUME TypeInv, NotifyReceiver PROVE TypeInv'
<1>1. /\ worker.at # "idle" /\ worker.record \in EventRecords
      /\ worker.nextReceiver \in 1..Len(worker.record.receivers) /\ Receiver \in Subscribers
  BY ReceiverFacts DEF NotifyReceiver
<1>2. UNCHANGED <<registryVars, queueVars, historyEvents, storeVars, main, clock, published, known, done>>
  BY DEF NotifyReceiver
<1>3. worker' = Delivered("DELIVERED") \/ worker' = Delivered("SKIPPED")
  BY DEF NotifyReceiver
<1>4. WorkerType'
  <2>1. Delivered("DELIVERED") \in WorkerStates /\ Fits(Delivered("DELIVERED"))
    BY <1>1, DeliveredFields DEF Deliveries
  <2>2. Delivered("SKIPPED") \in WorkerStates /\ Fits(Delivered("SKIPPED"))
    BY <1>1, DeliveredFields DEF Deliveries
  <2> QED
    BY <1>3, <2>1, <2>2 DEF WorkerType
<1> DEFINE e == [pub |-> worker.record.pub, as |-> worker.record.as,
                 action |-> action[worker.record.pub], replayed |-> FALSE]
<1>5. told' = told \/ told' = [told EXCEPT ![Receiver] = Append(@, e)]
  BY DEF NotifyReceiver, Tell
<1>6. e \in Received
  <2>1. action[worker.record.pub] \in Names
    BY <1>1, RecordFields, TypeParts DEF StoreTypes
  <2> QED
    BY <1>1, <2>1, RecordFields DEF Received
<1> HIDE DEF e
<1>7. ToldType'
  <2>1. told \in [Subscribers -> Seq(Received)]
    BY TypeParts DEF ToldType
  <2>2. Receiver \in Subscribers
    BY <1>1
  <2>3. told[Receiver] \in Seq(Received) /\ Append(told[Receiver], e) \in Seq(Received)
    BY <1>6, <2>1, <2>2
  <2>4. CASE told' = told
    BY <2>1, <2>4 DEF ToldType
  <2>5. CASE told' = [told EXCEPT ![Receiver] = Append(@, e)]
    <3>1. told' \in [Subscribers -> Seq(Received)]
      BY ONLY <2>1, <2>2, <2>3, <2>5
    <3> QED
      BY <3>1 DEF ToldType
  <2> QED
    BY <1>5, <2>4, <2>5
<1> QED
  BY <1>2, <1>4, <1>7, TypeParts, TypePartsNext, TypesKept

LEMMA TypeFindFrozen == ASSUME TypeInv, FindFrozen PROVE TypeInv'
<1>1. /\ worker.at # "idle" /\ worker.nextReceiver \in 1..Len(worker.record.receivers)
  BY ReceiverFacts DEF FindFrozen
<1>2. /\ worker.record \in EventRecords /\ worker.nextReceiver \in Nat /\ worker.deliveryState \in Seq(Deliveries)
      /\ worker = [at |-> worker.at, record |-> worker.record, nextReceiver |-> worker.nextReceiver,
                   deliveryState |-> worker.deliveryState]
  BY <1>1, TypeParts, WorkerFields DEF WorkerType
<1>3. worker' = [at |-> "keep", record |-> worker.record, nextReceiver |-> worker.nextReceiver,
                 deliveryState |-> worker.deliveryState]
  <2>1. worker' = [worker EXCEPT !.at = "keep"]
    BY DEF FindFrozen
  <2> QED
    BY <1>2, <2>1
<1>4. WorkerType'
  <2>1. worker' \in WorkerStates
    BY <1>2, <1>3 DEF WorkerStates
  <2>2. Fits(worker')
    BY <1>1, <1>3, TypeParts DEF WorkerType, Fits
  <2> QED
    BY <2>1, <2>2 DEF WorkerType
<1>5. UNCHANGED <<registryVars, queueVars, historyEvents, storeVars, main, clock, published, known, done, told>>
  BY DEF FindFrozen, ghostVars
<1> QED
  BY <1>4, <1>5, TypeParts, TypePartsNext, TypesKept

\* The event that KeepFrozenEvent keeps.
KeptEvent == [pub |-> worker.record.pub, as |-> worker.record.as, recordTime |-> recordTime[worker.record.pub]]

LEMMA KeepFacts ==
    ASSUME TypeInv, KeepFrozenEvent
    PROVE  /\ KeptEvent \in FrozenEvents /\ InsertFrozenEvents(Receiver, KeptEvent)
           /\ worker' = Delivered("SKIPPED")
           /\ UNCHANGED <<queueVars, historyEvents, storeVars, main, clock, published, known, done, told>>
<1>1. worker.record \in EventRecords
  BY ReceiverFacts DEF KeepFrozenEvent
<1>2. KeptEvent \in FrozenEvents
  <2>1. recordTime[worker.record.pub] \in 0..MaxTime
    BY <1>1, RecordFields, TypeParts DEF StoreTypes
  <2> QED
    BY <1>1, <2>1, RecordFields DEF KeptEvent, FrozenEvents
<1> QED
  BY <1>2 DEF KeepFrozenEvent, KeptEvent, ghostVars

LEMMA TypeKeep == ASSUME TypeInv, KeepFrozenEvent PROVE TypeInv'
<1>1. /\ worker.at # "idle" /\ worker.nextReceiver \in 1..Len(worker.record.receivers)
      /\ Receiver \in Subscribers
  BY ReceiverFacts DEF KeepFrozenEvent
<1>2. /\ KeptEvent \in FrozenEvents /\ InsertFrozenEvents(Receiver, KeptEvent)
      /\ worker' = Delivered("SKIPPED")
      /\ UNCHANGED <<queueVars, historyEvents, storeVars, main, clock, published, known, done, told>>
  BY KeepFacts
<1>3. WorkerType'
  BY <1>1, <1>2, DeliveredFields DEF Deliveries, WorkerType
<1>4. RegistryTypes'
  <2>1. frozenEvents \subseteq FrozenEntries /\ Filled(frozenEvents)
    BY TypeParts DEF RegistryTypes
  <2>2. frozenEvents' \subseteq FrozenEntries /\ Filled(frozenEvents')
        /\ UNCHANGED <<subscribers, eventSubscribers, listening, isFreeze>>
    BY <1>1, <1>2, <2>1, InsertFrozenFacts
  <2> QED
    BY <2>2, TypeParts DEF RegistryTypes
<1> QED
  BY <1>2, <1>3, <1>4, TypeParts, TypePartsNext, TypesKept

LEMMA TypeEnd == ASSUME TypeInv, NotifyEnd PROVE TypeInv'
<1>1. worker.record \in EventRecords /\ worker.deliveryState \in Seq(Deliveries)
  BY TypeParts, WorkerFields DEF NotifyEnd, WorkerType
<1>2. WorkerType'
  BY DEF NotifyEnd, WorkerType, WorkerStates, Idle, Fits
<1> DEFINE H == [record : EventRecords, deliveryState : Seq(Deliveries)]
           h == [record |-> worker.record, deliveryState |-> worker.deliveryState]
<1>3. HistoryType'
  <2>1. h \in H
    BY <1>1
  <2>2. historyEvents \in Seq(H)
    BY TypeParts DEF HistoryType
  <2>3. historyEvents' = Append(IF Len(historyEvents) = HISTORY_MAX_SIZE THEN Tail(historyEvents)
                                ELSE historyEvents, h)
    BY DEF NotifyEnd, Remembered
  <2> HIDE DEF h, H
  <2>4. Len(historyEvents) = HISTORY_MAX_SIZE => historyEvents # <<>>
    BY UnorderedAssumption
  <2>5. historyEvents' \in Seq(H)
    BY <2>1, <2>2, <2>3, <2>4, HeadTailFacts
  <2> QED
    BY <2>5 DEF HistoryType, H
<1>4. QueueTypes'
  <2>1. unorderedEventQueue \in Seq(EventRecords)
    BY TypeParts DEF QueueTypes
  <2>2. unorderedEventQueue' = RemoveFirst(unorderedEventQueue, worker.record)
    BY DEF NotifyEnd
  <2>3. unorderedEventQueue' \in Seq(EventRecords)
    BY <2>1, <2>2, RemoveFirstFacts DEF RemovedAt
  <2> QED
    BY <2>3, TypeParts DEF QueueTypes, NotifyEnd
<1>5. GhostTypes'
  BY <1>1, TypeParts DEF GhostTypes, NotifyEnd
<1>6. UNCHANGED <<registryVars, storeVars, main, clock, told>>
  BY DEF NotifyEnd
<1> QED
  BY <1>2, <1>3, <1>4, <1>5, <1>6, TypeParts, TypePartsNext, TypesKept

LEMMA TypeTick == ASSUME TypeInv, Tick \/ UNCHANGED vars PROVE TypeInv'
<1>1. ClockType'
  BY TypeParts, UnorderedAssumption DEF ClockType, Tick, vars
<1>2. UNCHANGED <<registryVars, queueVars, historyEvents, storeVars, main, worker, published, known, done, told>>
  BY DEF Tick, vars, ghostVars
<1> QED
  BY <1>1, <1>2, TypeParts, TypePartsNext, TypesKept

LEMMA TypeInvNext == ASSUME TypeInv, RegistryInv, [Next]_vars PROVE TypeInv'
<1>1. RegistryInv'
  BY RegistryInvNext
<1>2. CASE MainStep
  BY <1>2, TypePublishMapped, TypeEnqueue, TypeCollect, TypePostReplay DEF MainStep
<1>3. CASE WorkerStep
  BY <1>3, TypeTake, TypeNotifyReceiver, TypeFindFrozen, TypeKeep, TypeEnd DEF WorkerStep
<1>4. CASE Calling
  BY <1>1, <1>4, TypePublish, TypeSubscribe, TypeRemove, TypeFreeze DEF Calling
<1>5. CASE Tick \/ UNCHANGED vars
  BY <1>5, TypeTick
<1> QED
  BY <1>2, <1>3, <1>4, <1>5 DEF Next

\* The variables keep their types: what main, the worker and the queues hold are
\* records and events of publications and subscribers.
THEOREM UnorderedTypes == Spec => []TypeOK
<1>1. RegistryInv /\ TypeInv /\ [Next]_vars => RegistryInv' /\ TypeInv'
  BY RegistryInvNext, TypeInvNext
<1>2. TypeInv => TypeOK
  BY DEF TypeInv
<1> QED
  BY <1>1, <1>2, RegistryInvInit, TypeInvInit, PTL DEF Spec

-----------------------------------------------------------------------------
(* The records on their way *)

\* What a listener can tell apart of a record or of an event.
Class(x) == <<x.pub, x.as = "mapped">>
Classes == Publications \X BOOLEAN

\* The record r is to reach s, or has reached it, as k.
For(r, s, k) == s \in ToSet(r.receivers) /\ Class(r) = k

\* Where a record for s is: in the hands of main, behind it in main's loop, in a
\* queue of the handler, in the worker in front of its next receiver or behind.
InMain(m, s, k) == m.at = "enqueue" /\ For(m.record, s, k)
InLoop(m, s, k) == m.at = "enqueue" /\ \E i \in 1..Len(m.rest) : For(m.rest[i], s, k)
InQueue(q, s, k) == \E i \in 1..Len(q) : q[i].do = "notify" /\ For(q[i].record, s, k)
Remaining(w, s, k) ==
    /\ w.at # "idle" /\ Class(w.record) = k
    /\ \E i \in 1..Len(w.record.receivers) : i >= w.nextReceiver /\ w.record.receivers[i] = s
Passed(w, s, k) ==
    /\ w.at # "idle" /\ Class(w.record) = k
    /\ \E i \in 1..Len(w.record.receivers) : i < w.nextReceiver /\ w.record.receivers[i] = s
Processed(d, w, s, k) == Passed(w, s, k) \/ \E r \in d : For(r, s, k)

\* At no two places is a record of the same class for the same subscriber.
Apart(m, im, lo, w, d, s, k) ==
    /\ InMain(m, s, k) => ~InLoop(m, s, k) /\ ~InQueue(im, s, k) /\ ~InQueue(lo, s, k)
                          /\ ~Remaining(w, s, k) /\ ~Processed(d, w, s, k)
    /\ InLoop(m, s, k) => ~InQueue(im, s, k) /\ ~InQueue(lo, s, k)
                          /\ ~Remaining(w, s, k) /\ ~Processed(d, w, s, k)
    /\ InQueue(im, s, k) => ~InQueue(lo, s, k) /\ ~Remaining(w, s, k) /\ ~Processed(d, w, s, k)
    /\ InQueue(lo, s, k) => ~Remaining(w, s, k) /\ ~Processed(d, w, s, k)
    /\ Remaining(w, s, k) => ~Processed(d, w, s, k)

\* Nor twice in one of the sequences.
OnceInLoop(m) ==
    m.at = "enqueue" =>
        \A s \in Subscribers : \A i, j \in 1..Len(m.rest) :
            s \in ToSet(m.rest[i].receivers) /\ For(m.rest[j], s, Class(m.rest[i])) => i = j
OnceInQueue(q) ==
    \A s \in Subscribers : \A i, j \in 1..Len(q) :
        (/\ q[i].do = "notify" /\ q[j].do = "notify"
         /\ s \in ToSet(q[i].record.receivers) /\ For(q[j].record, s, Class(q[i].record)))
        => i = j

\* All records.
MainRecords(m) ==
    (IF m.at \in {"enqueue", "map"} THEN {m.record} ELSE {})
    \cup (IF m.at = "enqueue" THEN {m.rest[i] : i \in 1..Len(m.rest)} ELSE {})
QueueRecords(q) == {q[i].record : i \in {j \in 1..Len(q) : q[j].do = "notify"}}
WorkerRecords(w) == IF w.at # "idle" THEN {w.record} ELSE {}
RecordsOf(m, im, lo, w, d) ==
    d \cup MainRecords(m) \cup QueueRecords(im) \cup QueueRecords(lo) \cup WorkerRecords(w)
Records == RecordsOf(main, immediate, low, worker, done)

\* A record is of a publication, and for subscribers, each once.
Sound(r, pubs, subs) == r.pub \in pubs /\ ToSet(r.receivers) \subseteq subs /\ IsInjective(r.receivers)

\* The event of the mapped name comes after the one of the name itself.
MappedLater(m, records) ==
    (m.at = "map" \/ (m.at = "enqueue" /\ m.record.as = "named")) =>
        \A r \in records : r.pub = m.record.pub => r.as # "mapped"

\* Only sticky events follow in main's loop, and they are of the name asked for.
LoopIsSticky(m) == m.at = "enqueue" => \A i \in 1..Len(m.rest) : m.rest[i].as \in Subscribers
StoreIsTrue(store, pubs) ==
    \A n \in Names : store[n] # None => store[n] \in pubs /\ Name[store[n]] = n

\* The inductive invariant of the records.
RecordInv ==
    /\ \A r \in Records : Sound(r, ToSet(published), known)
    /\ MappedLater(main, Records) /\ LoopIsSticky(main)
    /\ StoreIsTrue(commonEventRecords, ToSet(published))
    /\ OnceInLoop(main) /\ OnceInQueue(immediate) /\ OnceInQueue(low)
    /\ \A s \in Subscribers, k \in Classes : Apart(main, immediate, low, worker, done, s, k)

\* The effect of a new task on a queue.
LEMMA QueueAppend ==
    ASSUME NEW q \in Seq(Tasks), NEW t \in Tasks
    PROVE  /\ \A s, k : InQueue(Append(q, t), s, k) =>
                  InQueue(q, s, k) \/ (t.do = "notify" /\ For(t.record, s, k))
           /\ QueueRecords(Append(q, t)) \subseteq
                  QueueRecords(q) \cup (IF t.do = "notify" THEN {t.record} ELSE {})
           /\ (/\ OnceInQueue(q)
               /\ t.do = "notify" => \A s \in Subscribers :
                      s \in ToSet(t.record.receivers) => ~InQueue(q, s, Class(t.record)))
              => OnceInQueue(Append(q, t))
<1> DEFINE u == Append(q, t)
<1>1. /\ u[Len(q) + 1] = t /\ \A i \in 1..Len(q) : u[i] = q[i]
      /\ \A i \in 1..Len(u) : i \in 1..Len(q) \/ i = Len(q) + 1
  BY AppendFacts
<1> HIDE DEF u
<1>2. ASSUME NEW s, NEW k, InQueue(u, s, k)
      PROVE  InQueue(q, s, k) \/ (t.do = "notify" /\ For(t.record, s, k))
  <2>1. PICK i \in 1..Len(u) : u[i].do = "notify" /\ For(u[i].record, s, k)
    BY <1>2 DEF InQueue
  <2> QED
    BY <1>1, <2>1 DEF InQueue
<1>3. QueueRecords(u) \subseteq QueueRecords(q) \cup (IF t.do = "notify" THEN {t.record} ELSE {})
  BY <1>1 DEF QueueRecords
<1>4. ASSUME OnceInQueue(q),
             t.do = "notify" => \A s \in Subscribers :
                 s \in ToSet(t.record.receivers) => ~InQueue(q, s, Class(t.record))
      PROVE  OnceInQueue(u)
  <2> SUFFICES ASSUME NEW s \in Subscribers, NEW i \in 1..Len(u), NEW j \in 1..Len(u),
                      u[i].do = "notify", u[j].do = "notify",
                      s \in ToSet(u[i].record.receivers), For(u[j].record, s, Class(u[i].record))
               PROVE  i = j
    BY DEF OnceInQueue
  <2>1. CASE i \in 1..Len(q) /\ j \in 1..Len(q)
    BY <1>1, <1>4, <2>1 DEF OnceInQueue
  <2>2. CASE i \in 1..Len(q) /\ j = Len(q) + 1
    <3>1. u[i] = q[i] /\ u[j] = t
      BY <1>1, <2>2
    <3>2. For(q[i].record, s, Class(t.record)) /\ s \in ToSet(t.record.receivers)
      BY <3>1 DEF For
    <3>3. InQueue(q, s, Class(t.record))
      BY <2>2, <3>1, <3>2 DEF InQueue
    <3> QED
      BY <1>4, <3>1, <3>2, <3>3
  <2>3. CASE i = Len(q) + 1 /\ j \in 1..Len(q)
    <3>1. u[j] = q[j] /\ u[i] = t
      BY <1>1, <2>3
    <3>2. InQueue(q, s, Class(t.record))
      BY <2>3, <3>1 DEF InQueue
    <3> QED
      BY <1>4, <3>1, <3>2
  <2> QED
    BY <1>1, <2>1, <2>2, <2>3
<1> QED
  BY <1>2, <1>3, <1>4 DEF u

\* The effect of taking the first task of a queue.
LEMMA QueueTail ==
    ASSUME NEW q \in Seq(Tasks), q # <<>>
    PROVE  /\ \A s, k : InQueue(Tail(q), s, k) => InQueue(q, s, k)
           /\ \A s, k : Head(q).do = "notify" /\ For(Head(q).record, s, k) => InQueue(q, s, k)
           /\ QueueRecords(Tail(q)) \subseteq QueueRecords(q)
           /\ Head(q).do = "notify" => Head(q).record \in QueueRecords(q)
           /\ OnceInQueue(q) => OnceInQueue(Tail(q))
           /\ OnceInQueue(q) /\ Head(q).do = "notify" => \A s \in Subscribers : \A k :
                  For(Head(q).record, s, k) => ~InQueue(Tail(q), s, k)
<1> DEFINE u == Tail(q)
           t == Head(q)
<1>1. /\ t = q[1] /\ 1 \in 1..Len(q) /\ Len(u) \in Nat
      /\ \A i \in 1..Len(u) : i + 1 \in 1..Len(q) /\ u[i] = q[i + 1]
  BY HeadTailFacts
<1> HIDE DEF u, t
<1>2. \A s, k : InQueue(u, s, k) => InQueue(q, s, k)
  BY <1>1 DEF InQueue
<1>3. \A s, k : t.do = "notify" /\ For(t.record, s, k) => InQueue(q, s, k)
  BY <1>1 DEF InQueue
<1>4. QueueRecords(u) \subseteq QueueRecords(q) /\ (t.do = "notify" => t.record \in QueueRecords(q))
  BY <1>1 DEF QueueRecords
<1>5. ASSUME OnceInQueue(q) PROVE OnceInQueue(u)
  <2> SUFFICES ASSUME NEW s \in Subscribers, NEW i \in 1..Len(u), NEW j \in 1..Len(u),
                      u[i].do = "notify", u[j].do = "notify",
                      s \in ToSet(u[i].record.receivers), For(u[j].record, s, Class(u[i].record))
               PROVE  i = j
    BY DEF OnceInQueue
  <2>1. i + 1 = j + 1
    BY <1>1, <1>5 DEF OnceInQueue
  <2> QED
    BY <2>1
<1>6. ASSUME OnceInQueue(q), t.do = "notify", NEW s \in Subscribers, NEW k, For(t.record, s, k),
             InQueue(u, s, k)
      PROVE  FALSE
  <2>1. PICK i \in 1..Len(u) : u[i].do = "notify" /\ For(u[i].record, s, k)
    BY <1>6 DEF InQueue
  <2>2. s \in ToSet(t.record.receivers) /\ Class(t.record) = k
    BY <1>6 DEF For
  <2>3. 1 = i + 1
    BY <1>1, <1>6, <2>1, <2>2 DEF OnceInQueue
  <2> QED
    BY <2>3
<1> QED
  BY <1>2, <1>3, <1>4, <1>5, <1>6 DEF u, t

\* The effect of going on to the next record of main's loop.
LEMMA LoopTail ==
    ASSUME NEW r, NEW rest \in Seq(EventRecords), rest # <<>>, NEW m, m.at = "enqueue", m.rest = rest
    PROVE  LET m2 == Enqueueing(Head(rest), Tail(rest)) IN
           /\ \A s, k : InMain(m2, s, k) \/ InLoop(m2, s, k) => InLoop(m, s, k)
           /\ MainRecords(m2) \subseteq MainRecords(m)
           /\ OnceInLoop(m) => OnceInLoop(m2)
           /\ OnceInLoop(m) => \A s \in Subscribers : \A k : InMain(m2, s, k) => ~InLoop(m2, s, k)
           /\ LoopIsSticky(m) => LoopIsSticky(m2) /\ m2.record.as \in Subscribers
<1> DEFINE u == Tail(rest)
           t == Head(rest)
           m2 == Enqueueing(t, u)
<1>1. /\ t = rest[1] /\ 1 \in 1..Len(rest) /\ Len(u) \in Nat
      /\ \A i \in 1..Len(u) : i + 1 \in 1..Len(rest) /\ u[i] = rest[i + 1]
  BY HeadTailFacts
<1>2. m2.at = "enqueue" /\ m2.record = t /\ m2.rest = u
  BY DEF Enqueueing
<1> HIDE DEF u, t, m2
<1>3. \A s, k : InMain(m2, s, k) => InLoop(m, s, k)
  BY <1>1, <1>2 DEF InMain, InLoop
<1>4. \A s, k : InLoop(m2, s, k) => InLoop(m, s, k)
  BY <1>1, <1>2 DEF InLoop
<1>5. MainRecords(m2) \subseteq MainRecords(m)
  BY <1>1, <1>2 DEF MainRecords
<1>6. ASSUME OnceInLoop(m) PROVE OnceInLoop(m2)
  <2> SUFFICES ASSUME NEW s \in Subscribers, NEW i \in 1..Len(u), NEW j \in 1..Len(u),
                      s \in ToSet(u[i].receivers), For(u[j], s, Class(u[i]))
               PROVE  i = j
    BY <1>2 DEF OnceInLoop
  <2>1. i + 1 = j + 1
    BY <1>1, <1>6 DEF OnceInLoop
  <2> QED
    BY <2>1
<1>7. ASSUME OnceInLoop(m), NEW s \in Subscribers, NEW k, InMain(m2, s, k), InLoop(m2, s, k)
      PROVE  FALSE
  <2>1. PICK i \in 1..Len(u) : For(u[i], s, k)
    BY <1>2, <1>7 DEF InLoop
  <2>2. s \in ToSet(t.receivers) /\ Class(t) = k
    BY <1>2, <1>7 DEF InMain, For
  <2>3. 1 = i + 1
    BY <1>1, <1>7, <2>1, <2>2 DEF OnceInLoop
  <2> QED
    BY <2>3
<1>8. LoopIsSticky(m) => LoopIsSticky(m2) /\ m2.record.as \in Subscribers
  BY <1>1, <1>2 DEF LoopIsSticky
<1> QED
  BY <1>3, <1>4, <1>5, <1>6, <1>7, <1>8 DEF u, t, m2

\* What is at a place is a record.
LEMMA PlacesAreRecords ==
    ASSUME NEW m, NEW im, NEW lo, NEW w, NEW d, NEW s, NEW k,
           w.at # "idle" => DOMAIN w.record.receivers = 1..Len(w.record.receivers),
           InMain(m, s, k) \/ InLoop(m, s, k) \/ InQueue(im, s, k) \/ InQueue(lo, s, k)
           \/ Remaining(w, s, k) \/ Processed(d, w, s, k)
    PROVE  \E r \in RecordsOf(m, im, lo, w, d) : For(r, s, k)
<1>1. CASE InMain(m, s, k) \/ InLoop(m, s, k)
  BY <1>1 DEF InMain, InLoop, RecordsOf, MainRecords
<1>2. CASE InQueue(im, s, k) \/ InQueue(lo, s, k)
  BY <1>2 DEF InQueue, RecordsOf, QueueRecords
<1>3. CASE Remaining(w, s, k) \/ Passed(w, s, k)
  <2>1. w.at # "idle" /\ Class(w.record) = k /\ s \in ToSet(w.record.receivers)
    BY <1>3 DEF Remaining, Passed, ToSet
  <2> QED
    BY <2>1 DEF RecordsOf, WorkerRecords, For
<1>4. CASE \E r \in d : For(r, s, k)
  BY <1>4 DEF RecordsOf
<1> QED
  BY <1>1, <1>2, <1>3, <1>4 DEF Processed

LEMMA AppendIsIn ==
    ASSUME NEW S, NEW q \in Seq(S), NEW e \in S
    PROVE  ToSet(Append(q, e)) = ToSet(q) \cup {e}
<1> DEFINE t == Append(q, e)
<1>1. /\ t[Len(q) + 1] = e /\ Len(q) \in Nat /\ \A i \in 1..Len(q) : t[i] = q[i]
      /\ DOMAIN t = 1..Len(q) + 1 /\ DOMAIN q = 1..Len(q)
  OBVIOUS
<1> HIDE DEF t
<1>2. \A i \in 1..Len(q) + 1 : i \in 1..Len(q) \/ i = Len(q) + 1
  BY <1>1
<1>3. \A i \in 1..Len(q) : i \in 1..Len(q) + 1
  BY <1>1
<1>4. Len(q) + 1 \in 1..Len(q) + 1
  BY <1>1
<1>5. ToSet(t) \subseteq ToSet(q) \cup {e}
  BY <1>1, <1>2 DEF ToSet
<1>6. ToSet(q) \subseteq ToSet(t) /\ e \in ToSet(t)
  BY <1>1, <1>3, <1>4 DEF ToSet
<1> QED
  BY <1>5, <1>6 DEF t

LEMMA WorkerDomain ==
    ASSUME TypeInv
    PROVE  worker.at # "idle" => DOMAIN worker.record.receivers = 1..Len(worker.record.receivers)
BY TypeParts, WorkerFields, RecordFields DEF WorkerType

LEMMA RecordInvInit == Init => RecordInv
<1> SUFFICES ASSUME Init PROVE RecordInv
  OBVIOUS
<1>1. /\ main = Idle /\ worker = Idle /\ immediate = <<>> /\ low = <<>> /\ done = {}
      /\ commonEventRecords = [n \in Names |-> None]
  BY DEF Init
<1>2. main.at = "idle" /\ worker.at = "idle"
  BY <1>1 DEF Idle
<1>3. Records = {}
  BY <1>1, <1>2 DEF Records, RecordsOf, MainRecords, QueueRecords, WorkerRecords
<1>4. \A s, k : Apart(main, immediate, low, worker, done, s, k)
  BY <1>1, <1>2 DEF Apart, InMain, InLoop, InQueue, Remaining, Processed, Passed
<1>5. OnceInLoop(main) /\ OnceInQueue(immediate) /\ OnceInQueue(low)
  BY <1>1, <1>2 DEF OnceInLoop, OnceInQueue
<1>6. MappedLater(main, Records) /\ LoopIsSticky(main) /\ StoreIsTrue(commonEventRecords, ToSet(published))
  BY <1>1, <1>2, <1>3 DEF MappedLater, LoopIsSticky, StoreIsTrue
<1> QED
  BY <1>3, <1>4, <1>5, <1>6 DEF RecordInv

\* New records that nobody has of this class, and each only once, keep everything apart.
LEMMA RecordsNew ==
    ASSUME TypeInv, RecordInv, main.at # "enqueue",
           NEW new \in Seq(EventRecords), new # <<>>, main' = Enqueueing(Head(new), Tail(new)),
           UNCHANGED <<immediate, low, worker, done>>,
           ToSet(published) \subseteq ToSet(published'), known \subseteq known',
           StoreIsTrue(commonEventRecords', ToSet(published')),
           \A i \in 1..Len(new) : Sound(new[i], ToSet(published'), known'),
           \A s \in Subscribers : \A i, j \in 1..Len(new) :
               s \in ToSet(new[i].receivers) /\ For(new[j], s, Class(new[i])) => i = j,
           \A i \in 1..Len(new) : \A s \in Subscribers, r \in Records :
               s \in ToSet(new[i].receivers) => ~For(r, s, Class(new[i])),
           \A i \in 1..Len(Tail(new)) : Tail(new)[i].as \in Subscribers,
           Head(new).as = "named" => \A r \in Records : r.pub # Head(new).pub,
           Head(new).as = "named" => Tail(new) = <<>>
    PROVE  RecordInv'
<1> DEFINE m == Enqueueing(Head(new), new)
<1>1. m.at = "enqueue" /\ m.rest = new /\ m.record = Head(new)
  BY DEF Enqueueing
<1>2. main'.at = "enqueue" /\ main'.record = Head(new) /\ main'.rest = Tail(new)
  BY DEF Enqueueing
<1>3. OnceInLoop(m)
  BY <1>1 DEF OnceInLoop
<1> HIDE DEF m
<1>4. /\ \A s, k : InMain(main', s, k) \/ InLoop(main', s, k) => InLoop(m, s, k)
      /\ MainRecords(main') \subseteq MainRecords(m)
      /\ OnceInLoop(main')
      /\ \A s \in Subscribers : \A k : InMain(main', s, k) => ~InLoop(main', s, k)
  BY <1>1, <1>3, LoopTail
<1>5. MainRecords(m) = {new[i] : i \in 1..Len(new)}
  <2>1. Head(new) = new[1] /\ 1 \in 1..Len(new)
    BY HeadTailFacts
  <2> QED
    BY <1>1, <2>1 DEF MainRecords
<1>6. Records' \subseteq Records \cup {new[i] : i \in 1..Len(new)}
  BY <1>4, <1>5 DEF Records, RecordsOf
<1>7. \A r \in Records' : Sound(r, ToSet(published'), known')
  BY <1>6 DEF RecordInv, Sound
<1>8. ASSUME NEW s \in Subscribers, NEW k \in Classes, InLoop(m, s, k)
      PROVE  /\ ~InQueue(immediate, s, k) /\ ~InQueue(low, s, k)
             /\ ~Remaining(worker, s, k) /\ ~Processed(done, worker, s, k)
  <2>1. PICK i \in 1..Len(new) : For(new[i], s, k)
    BY <1>1, <1>8 DEF InLoop
  <2>2. \A r \in Records : ~For(r, s, k)
    BY <2>1 DEF For
  <2> QED
    BY <2>2, PlacesAreRecords, WorkerDomain DEF Records
<1>9. ASSUME NEW s \in Subscribers, NEW k \in Classes
      PROVE  Apart(main', immediate', low', worker', done', s, k)
  BY <1>4, <1>8 DEF RecordInv, Apart
<1>10. MappedLater(main', Records')
  <2> SUFFICES ASSUME Head(new).as = "named", NEW r \in Records', r.pub = Head(new).pub
               PROVE  r.as # "mapped"
    BY <1>2 DEF MappedLater
  <2>1. Tail(new) = <<>> /\ Len(<<>>) = 0
    OBVIOUS
  <2>2. Head(new) = new[1] /\ Len(new) = 1
    <3>1. Head(new) = new[1] /\ Len(Tail(new)) = Len(new) - 1 /\ Len(new) \in Nat
      BY HeadTailFacts
    <3>2. Len(Tail(new)) = 0
      BY <2>1
    <3> DEFINE a == Len(new)
               b == Len(Tail(new))
    <3>3. b = a - 1 /\ a \in Nat /\ b = 0
      BY <3>1, <3>2
    <3> HIDE DEF a, b
    <3>4. a = 1
      BY <3>3
    <3> QED
      BY <3>1, <3>4 DEF a
  <2>3. r \in Records \/ r = Head(new)
    BY <1>6, <2>2
  <2> QED
    BY <2>3
<1>11. LoopIsSticky(main')
  BY <1>2 DEF LoopIsSticky
<1> QED
  BY <1>4, <1>7, <1>9, <1>10, <1>11 DEF RecordInv

LEMMA RecordsPublish ==
    ASSUME TypeInv, RegistryInv, RecordInv, NEW p \in Publications, PublishCommonEvent(p)
    PROVE  RecordInv'
<1> DEFINE receivers == GetSubscriberRecords(Name[p], Passing[p])
           r == EventRecord(p, "named", receivers)
           new == <<r>>
<1>1. receivers \in Seq(Subscribers) /\ IsInjective(receivers) /\ ToSet(receivers) \subseteq known
  <2>1. Name[p] \in Names /\ listening \subseteq known
    BY UnorderedAssumption DEF RegistryInv
  <2> QED
    BY <2>1, ReceiversFacts
<1>2. main.at # "enqueue" /\ main' = Enqueueing(r, <<>>)
      /\ UNCHANGED <<immediate, low, worker, done, known>>
  BY DEF PublishCommonEvent, queueVars
<1> HIDE DEF receivers
<1>3. r \in EventRecords /\ r.pub = p /\ r.as = "named" /\ r.receivers = receivers
  BY <1>1, EventRecordType DEF Kinds
<1> HIDE DEF r
<1>4. new \in Seq(EventRecords) /\ new # <<>> /\ Head(new) = r /\ Tail(new) = <<>> /\ Len(new) = 1
      /\ new[1] = r
  BY <1>3
<1> HIDE DEF new
<1>5. published' = Append(published, p) /\ p \notin ToSet(published) /\ published \in Seq(Publications)
  BY TypeParts DEF PublishCommonEvent, GhostTypes
<1>6. ToSet(published) \subseteq ToSet(published') /\ p \in ToSet(published')
  BY <1>5, AppendIsIn
<1>7. StoreIsTrue(commonEventRecords', ToSet(published'))
  <2>1. StoreIsTrue(commonEventRecords, ToSet(published)) /\ Name[p] \in Names
        /\ commonEventRecords \in [Names -> Publications \cup {None}]
    BY UnorderedAssumption, TypeParts DEF RecordInv, StoreTypes
  <2>2. \/ commonEventRecords' = commonEventRecords
        \/ commonEventRecords' = [commonEventRecords EXCEPT ![Name[p]] = p]
    BY DEF PublishCommonEvent, UpdateStickyEvent
  <2>3. \A n \in Names : \/ commonEventRecords'[n] = commonEventRecords[n]
                         \/ n = Name[p] /\ commonEventRecords'[n] = p
    BY <2>1, <2>2
  <2> QED
    BY <1>6, <2>1, <2>3 DEF StoreIsTrue
<1>8. \A q \in Records : q.pub # p
  BY <1>5 DEF RecordInv, Sound
<1>9. \A i \in 1..Len(new) : i = 1 /\ new[i] = r
  BY <1>4
<1>10. Sound(r, ToSet(published'), known')
  BY <1>1, <1>2, <1>3, <1>6 DEF Sound
<1>11. \A q \in Records : \A s : ~For(q, s, Class(r))
  BY <1>3, <1>8 DEF For, Class
<1>12. \A i \in 1..Len(Tail(new)) : Tail(new)[i].as \in Subscribers
  <2>1. Len(Tail(new)) = 0
    BY <1>4
  <2> QED
    BY <2>1
<1> QED
  BY <1>2, <1>3, <1>4, <1>6, <1>7, <1>8, <1>9, <1>10, <1>11, <1>12, RecordsNew

LEMMA RecordsPublishMapped ==
    ASSUME TypeInv, RegistryInv, RecordInv, PublishMapped
    PROVE  RecordInv'
<1> DEFINE p == main.record.pub
           receivers == GetSubscriberRecords(Mapped[Name[p]], Passing[p])
           r == EventRecord(p, "mapped", receivers)
           new == <<r>>
<1>1. main.at = "map" /\ main' = Enqueueing(r, <<>>)
      /\ UNCHANGED <<immediate, low, worker, done, known, published, commonEventRecords>>
  BY DEF PublishMapped, queueVars, ghostVars
<1>2. p \in Publications /\ Name[p] \in DOMAIN Mapped /\ main.record \in Records
  BY <1>1, TypeParts, MainFields, RecordFields DEF MainType, HasMapped, Records, RecordsOf, MainRecords
<1>3. p \in ToSet(published)
  BY <1>2 DEF RecordInv, Sound
<1>4. \A q \in Records : q.pub = p => q.as # "mapped"
  BY <1>1 DEF RecordInv, MappedLater
<1> HIDE DEF p
<1>5. receivers \in Seq(Subscribers) /\ IsInjective(receivers) /\ ToSet(receivers) \subseteq known
  <2>1. Mapped[Name[p]] \in Names /\ listening \subseteq known
    BY <1>2, UnorderedAssumption DEF RegistryInv
  <2> QED
    BY <2>1, ReceiversFacts
<1> HIDE DEF receivers
<1>6. r \in EventRecords /\ r.pub = p /\ r.as = "mapped" /\ r.receivers = receivers
  BY <1>2, <1>5, EventRecordType DEF Kinds
<1> HIDE DEF r
<1>7. new \in Seq(EventRecords) /\ new # <<>> /\ Head(new) = r /\ Tail(new) = <<>> /\ Len(new) = 1
      /\ new[1] = r
  BY <1>6
<1> HIDE DEF new
<1>8. \A i \in 1..Len(new) : i = 1 /\ new[i] = r
  BY <1>7
<1>9. Sound(r, ToSet(published'), known')
  BY <1>1, <1>3, <1>5, <1>6 DEF Sound
<1>10. \A q \in Records : \A s : ~For(q, s, Class(r))
  BY <1>4, <1>6 DEF For, Class
<1>11. \A i \in 1..Len(Tail(new)) : Tail(new)[i].as \in Subscribers
  <2>1. Len(Tail(new)) = 0
    BY <1>7
  <2> QED
    BY <2>1
<1>12. StoreIsTrue(commonEventRecords', ToSet(published'))
  BY <1>1 DEF RecordInv
<1> QED
  BY <1>1, <1>6, <1>7, <1>8, <1>9, <1>10, <1>11, <1>12, RecordsNew

LEMMA RecordsSubscribe ==
    ASSUME TypeInv, RecordInv, NEW s \in Subscribers, SubscribeCommonEvent(s), StickyFor(s) # <<>>
    PROVE  RecordInv'
<1> DEFINE new == StickyFor(s)
<1>1. /\ main.at # "enqueue" /\ main' = Enqueueing(Head(new), Tail(new))
      /\ UNCHANGED <<immediate, low, worker, done, published, commonEventRecords>>
      /\ known' = known \cup {s} /\ s \notin known
  BY DEF SubscribeCommonEvent, queueVars, storeVars
<1>2. new \in Seq(EventRecords) /\ new # <<>>
  BY StickyFacts, TypeParts DEF StoreTypes
<1>3. PICK found \in Seq(Names) :
                 /\ IsInjective(found) /\ Len(found) = Len(new)
                 /\ \A i \in 1..Len(found) :
                       /\ commonEventRecords[found[i]] \in Publications
                       /\ new[i] = EventRecord(commonEventRecords[found[i]], s, <<s>>)
  BY StickyFacts, TypeParts DEF StoreTypes
<1> HIDE DEF new
<1>4. DOMAIN found = 1..Len(new) /\ \A i \in 1..Len(new) : found[i] \in Names
  BY <1>3
<1>5. ASSUME NEW i \in 1..Len(new)
      PROVE  /\ new[i].as = s /\ new[i].receivers = <<s>>
             /\ new[i].pub = commonEventRecords[found[i]] /\ new[i].pub \in Publications
             /\ new[i].pub \in ToSet(published) /\ Name[new[i].pub] = found[i]
  <2>1. commonEventRecords[found[i]] \in Publications
        /\ new[i] = EventRecord(commonEventRecords[found[i]], s, <<s>>)
    BY <1>3
  <2>2. /\ new[i].as = s /\ new[i].receivers = <<s>> /\ new[i].pub = commonEventRecords[found[i]]
    BY <2>1 DEF EventRecord
  <2>3. commonEventRecords[found[i]] # None
    BY <2>1, UnorderedAssumption
  <2> QED
    BY <1>4, <2>1, <2>2, <2>3 DEF RecordInv, StoreIsTrue
<1>6. ToSet(<<s>>) = {s} /\ IsInjective(<<s>>)
  BY DEF ToSet, IsInjective
<1>7. \A i \in 1..Len(new) : Sound(new[i], ToSet(published'), known')
  BY <1>1, <1>5, <1>6 DEF Sound
<1>8. \A i, j \in 1..Len(new) : new[i].pub = new[j].pub => i = j
  <2> SUFFICES ASSUME NEW i \in 1..Len(new), NEW j \in 1..Len(new), new[i].pub = new[j].pub
               PROVE  i = j
    OBVIOUS
  <2>1. found[i] = found[j]
    BY <1>5
  <2> QED
    BY <1>3, <1>4, <2>1 DEF IsInjective
<1>9. \A t \in Subscribers : \A i, j \in 1..Len(new) :
               t \in ToSet(new[i].receivers) /\ For(new[j], t, Class(new[i])) => i = j
  BY <1>8 DEF For, Class
<1>10. \A i \in 1..Len(new) : \A t \in Subscribers, r \in Records :
               t \in ToSet(new[i].receivers) => ~For(r, t, Class(new[i]))
  BY <1>1, <1>5, <1>6 DEF For, RecordInv, Sound
<1>11. \A i \in 1..Len(Tail(new)) : Tail(new)[i].as \in Subscribers
  BY <1>2, <1>5, HeadTailFacts
<1>12. Head(new).as # "named"
  <2>1. Head(new) = new[1] /\ 1 \in 1..Len(new)
    BY <1>2, HeadTailFacts
  <2> QED
    BY <1>5, <2>1, UnorderedAssumption
<1>13. StoreIsTrue(commonEventRecords', ToSet(published'))
  BY <1>1 DEF RecordInv
<1> QED
  BY <1>1, <1>2, <1>7, <1>9, <1>10, <1>11, <1>12, <1>13, RecordsNew

\* When no record is new and none has moved.
LEMMA RecordsKept ==
    ASSUME TypeInv, RecordInv,
           \/ main' = main
           \/ main.at \notin {"enqueue", "map"} /\ main'.at \notin {"enqueue", "map"},
           QueueRecords(immediate') \subseteq QueueRecords(immediate),
           \A s, k : InQueue(immediate', s, k) => InQueue(immediate, s, k),
           OnceInQueue(immediate'), UNCHANGED <<low, worker, done, published, commonEventRecords>>,
           known \subseteq known'
    PROVE  RecordInv'
<1>1. MainRecords(main') = MainRecords(main)
  BY DEF MainRecords
<1>2. Records' \subseteq Records
  BY <1>1 DEF Records, RecordsOf
<1>3. \A s, k : (InMain(main', s, k) => InMain(main, s, k)) /\ (InLoop(main', s, k) => InLoop(main, s, k))
  BY DEF InMain, InLoop
<1>4. \A s \in Subscribers, k \in Classes : Apart(main', immediate', low', worker', done', s, k)
  BY <1>3 DEF RecordInv, Apart
<1>5. OnceInLoop(main') /\ LoopIsSticky(main')
  BY DEF RecordInv, OnceInLoop, LoopIsSticky
<1>6. MappedLater(main', Records')
  BY <1>2 DEF RecordInv, MappedLater
<1>7. \A r \in Records' : Sound(r, ToSet(published'), known')
  BY <1>2 DEF RecordInv, Sound
<1> QED
  BY <1>4, <1>5, <1>6, <1>7 DEF RecordInv

LEMMA ClassType ==
    ASSUME NEW r \in EventRecords
    PROVE  Class(r) \in Classes
BY RecordFields DEF Class, Classes

LEMMA RecordsEnqueue == ASSUME TypeInv, RecordInv, EnqueueUnorderedRecord PROVE RecordInv'
<1> DEFINE r == main.record
           rest == main.rest
           task == [do |-> "notify", record |-> r]
<1>1. main.at = "enqueue" /\ r \in EventRecords /\ rest \in Seq(EventRecords)
  BY TypeParts, MainFields DEF EnqueueUnorderedRecord, MainType
<1>2. task \in Tasks /\ task.do = "notify" /\ task.record = r
  BY <1>1, TaskTypes
<1>3. main' = IF r.as = "named" /\ Name[r.pub] \in DOMAIN Mapped THEN [at |-> "map", record |-> r]
              ELSE IF rest = <<>> THEN Idle ELSE Enqueueing(Head(rest), Tail(rest))
  BY DEF EnqueueUnorderedRecord
<1>4. \/ immediate' = Append(immediate, task) /\ low' = low
      \/ low' = Append(low, task) /\ immediate' = immediate
  BY DEF EnqueueUnorderedRecord
<1>5. UNCHANGED <<worker, done, published, known, commonEventRecords>>
  BY DEF EnqueueUnorderedRecord, storeVars, ghostVars
<1>6. immediate \in Seq(Tasks) /\ low \in Seq(Tasks)
  BY TypeParts DEF QueueTypes
<1> HIDE DEF task
<1>7. \A s, k : For(r, s, k) <=> InMain(main, s, k)
  BY <1>1 DEF InMain
<1>8. ASSUME NEW s \in Subscribers, s \in ToSet(r.receivers)
      PROVE  ~InQueue(immediate, s, Class(r)) /\ ~InQueue(low, s, Class(r))
  <2>1. InMain(main, s, Class(r)) /\ Class(r) \in Classes
    BY <1>1, <1>7, <1>8, ClassType DEF For
  <2> QED
    BY <2>1 DEF RecordInv, Apart
<1>9. /\ \A s, k : InMain(main', s, k) \/ InLoop(main', s, k) => InLoop(main, s, k)
      /\ MainRecords(main') \subseteq MainRecords(main)
      /\ OnceInLoop(main') /\ LoopIsSticky(main')
      /\ \A s \in Subscribers : \A k : InMain(main', s, k) => ~InLoop(main', s, k)
      /\ main'.at = "enqueue" => main'.record.as \in Subscribers
      /\ main'.at = "map" => main'.record = r /\ r.as = "named"
  <2>1. CASE main' = [at |-> "map", record |-> r] /\ r.as = "named"
    <3>1. main'.at = "map" /\ main'.record = r
      BY <2>1
    <3> HIDE DEF r
    <3> QED
      BY <1>1, <2>1, <3>1 DEF InMain, InLoop, MainRecords, OnceInLoop, LoopIsSticky, r
  <2>2. CASE main' = Idle
    <3>1. main'.at = "idle"
      BY <2>2 DEF Idle
    <3> QED
      BY <3>1 DEF InMain, InLoop, MainRecords, OnceInLoop, LoopIsSticky
  <2>3. CASE rest # <<>> /\ main' = Enqueueing(Head(rest), Tail(rest))
    <3>1. main'.at = "enqueue"
      BY <2>3 DEF Enqueueing
    <3>2. OnceInLoop(main) /\ LoopIsSticky(main)
      BY DEF RecordInv
    <3> QED
      BY <1>1, <2>3, <3>1, <3>2, LoopTail
  <2> QED
    BY <1>3, <2>1, <2>2, <2>3
<1>10. /\ \A s, k : InQueue(immediate', s, k) =>
                       InQueue(immediate, s, k) \/ (InMain(main, s, k) /\ low' = low)
       /\ \A s, k : InQueue(low', s, k) =>
                       InQueue(low, s, k) \/ (InMain(main, s, k) /\ immediate' = immediate)
       /\ OnceInQueue(immediate') /\ OnceInQueue(low')
       /\ QueueRecords(immediate') \subseteq QueueRecords(immediate) \cup {r}
       /\ QueueRecords(low') \subseteq QueueRecords(low) \cup {r}
  <2>1. OnceInQueue(immediate) /\ OnceInQueue(low)
    BY DEF RecordInv
  <2>2. CASE immediate' = Append(immediate, task) /\ low' = low
    BY <1>2, <1>6, <1>7, <1>8, <2>1, <2>2, QueueAppend
  <2>3. CASE low' = Append(low, task) /\ immediate' = immediate
    BY <1>2, <1>6, <1>7, <1>8, <2>1, <2>3, QueueAppend
  <2> QED
    BY <1>4, <2>2, <2>3
<1>11. r \in Records
  BY <1>1 DEF Records, RecordsOf, MainRecords
<1>12. Records' \subseteq Records
  BY <1>5, <1>9, <1>10, <1>11 DEF Records, RecordsOf
<1>13. \A q \in Records' : Sound(q, ToSet(published'), known')
  BY <1>5, <1>12 DEF RecordInv
<1>14. ASSUME NEW s \in Subscribers, NEW k \in Classes
       PROVE  Apart(main', immediate', low', worker', done', s, k)
  <2>1. Apart(main, immediate, low, worker, done, s, k)
    BY DEF RecordInv
  <2>2. CASE low' = low
    BY <1>5, <1>9, <1>10, <2>1, <2>2 DEF Apart
  <2>3. CASE immediate' = immediate
    BY <1>5, <1>9, <1>10, <2>1, <2>3 DEF Apart
  <2> QED
    BY <1>4, <2>2, <2>3
<1>15. MappedLater(main', Records')
  <2>1. CASE main'.at = "map"
    BY <1>1, <1>9, <1>12, <2>1 DEF RecordInv, MappedLater
  <2>2. CASE main'.at # "map"
    BY <1>9, <2>2, UnorderedAssumption DEF MappedLater
  <2> QED
    BY <2>1, <2>2
<1>16. StoreIsTrue(commonEventRecords', ToSet(published'))
  BY <1>5 DEF RecordInv
<1> QED
  BY <1>9, <1>10, <1>13, <1>14, <1>15, <1>16 DEF RecordInv

LEMMA RecordsPostReplay == ASSUME TypeInv, RecordInv, PostReplay PROVE RecordInv'
<1>1. PICK f \in main.rest :
           /\ immediate' = Append(immediate, [do |-> "replay", to |-> f.owner, event |-> Head(f.kept),
                                              listener |-> f.owner \in listening])
           /\ main' = IF WithoutFirst(f) = {} THEN Idle ELSE [main EXCEPT !.rest = WithoutFirst(f)]
  BY DEF PostReplay
<1>2. main.at = "replay" /\ UNCHANGED <<low, worker, done, published, known, commonEventRecords>>
  BY DEF PostReplay, storeVars, ghostVars
<1>3. main'.at \notin {"enqueue", "map"}
  <2>1. main = [at |-> "replay", rest |-> main.rest]
    BY <1>2, TypeParts, MainFields DEF MainType
  <2>2. CASE main' = Idle
    BY <2>2 DEF Idle
  <2>3. CASE main' = [main EXCEPT !.rest = WithoutFirst(f)]
    <3> DEFINE rest == WithoutFirst(f)
    <3> HIDE DEF rest
    <3>1. [main EXCEPT !.rest = rest] = [at |-> "replay", rest |-> rest]
      BY <2>1
    <3>2. main'.at = "replay"
      BY <2>3, <3>1 DEF rest
    <3> QED
      BY <3>2
  <2> QED
    BY <1>1, <2>2, <2>3
<1> DEFINE task == [do |-> "replay", to |-> f.owner, event |-> Head(f.kept),
                    listener |-> f.owner \in listening]
<1>4. task.do = "replay" /\ task \in Tasks
  <2>1. f \in FrozenEntries /\ f.kept # <<>>
    BY <1>2, WithoutFirstFacts
  <2>2. f.owner \in Subscribers /\ f.kept \in Seq(FrozenEvents)
    BY <2>1 DEF FrozenEntries
  <2>3. Head(f.kept) \in FrozenEvents /\ (f.owner \in listening) \in BOOLEAN
    BY <2>1, <2>2, HeadTailFacts
  <2> QED
    BY <2>2, <2>3, TaskTypes
<1>5. immediate' = Append(immediate, task)
  BY <1>1
<1> HIDE DEF task
<1>6. immediate \in Seq(Tasks) /\ OnceInQueue(immediate) /\ task.do # "notify"
  BY <1>4, TypeParts DEF QueueTypes, RecordInv
<1>7. /\ QueueRecords(immediate') \subseteq QueueRecords(immediate)
      /\ \A s, k : InQueue(immediate', s, k) => InQueue(immediate, s, k)
      /\ OnceInQueue(immediate')
  BY <1>4, <1>5, <1>6, QueueAppend
<1>8. main.at \notin {"enqueue", "map"}
  BY <1>2
<1> QED
  BY <1>2, <1>3, <1>7, <1>8, RecordsKept

\* The worker begins with a record that was queued.
LEMMA RecordsTake ==
    ASSUME TypeInv, RecordInv, NEW q \in {immediate, low}, q # <<>>, worker.at = "idle", Run(Head(q)),
           \/ q = immediate /\ immediate' = Tail(q) /\ low' = low
           \/ q = low /\ low' = Tail(q) /\ immediate' = immediate,
           UNCHANGED <<main, done, published, known, commonEventRecords>>
    PROVE  RecordInv'
<1>1. q \in Seq(Tasks) /\ Head(q) \in Tasks /\ OnceInQueue(q)
  <2>1. q \in Seq(Tasks) /\ OnceInQueue(q)
    BY TypeParts DEF QueueTypes, RecordInv
  <2> QED
    BY <2>1, HeadTailFacts
<1> DEFINE t == Head(q)
<1>2. /\ \A s, k : InQueue(Tail(q), s, k) => InQueue(q, s, k)
      /\ \A s, k : t.do = "notify" /\ For(t.record, s, k) => InQueue(q, s, k)
      /\ QueueRecords(Tail(q)) \subseteq QueueRecords(q)
      /\ t.do = "notify" => t.record \in QueueRecords(q)
      /\ OnceInQueue(Tail(q))
      /\ t.do = "notify" => \A s \in Subscribers : \A k : For(t.record, s, k) => ~InQueue(Tail(q), s, k)
  BY <1>1, QueueTail
<1> HIDE DEF t
<1>3. QueueRecords(q) \subseteq Records
  BY DEF Records, RecordsOf
<1>4. /\ \A s, k : Remaining(worker', s, k) => t.do = "notify" /\ For(t.record, s, k)
      /\ \A s, k : Processed(done', worker', s, k) => Processed(done, worker, s, k)
      /\ WorkerRecords(worker') \subseteq Records
  <2>1. CASE NotifyBegin(t)
    <3>1. worker'.at = "notify" /\ worker'.record = t.record /\ worker'.nextReceiver = 1 /\ t.do = "notify"
      BY <2>1 DEF NotifyBegin
    <3>2. DOMAIN t.record.receivers = 1..Len(t.record.receivers)
      BY <1>1, <3>1, TaskFields, RecordFields DEF t
    <3>3. \A s, k : ~Passed(worker', s, k)
      BY <3>1 DEF Passed
    <3>4. \A s, k : Remaining(worker', s, k) => For(t.record, s, k)
      BY <3>1, <3>2 DEF Remaining, For, ToSet
    <3>5. WorkerRecords(worker') \subseteq Records
      BY <1>2, <1>3, <3>1 DEF WorkerRecords
    <3> QED
      BY <3>1, <3>3, <3>4, <3>5 DEF Processed
  <2>2. CASE NotifyFreezeEvents(t)
    <3>1. worker' = worker
      BY <2>2 DEF NotifyFreezeEvents
    <3> QED
      BY <3>1 DEF Remaining, Passed, Processed, WorkerRecords
  <2> QED
    BY <2>1, <2>2 DEF Run, t
<1>5. Records' \subseteq Records
  BY <1>2, <1>4 DEF Records, RecordsOf
<1>6. \A r \in Records' : Sound(r, ToSet(published'), known')
  BY <1>5 DEF RecordInv
<1>7. MappedLater(main', Records')
  BY <1>5 DEF RecordInv, MappedLater
<1>8. ASSUME NEW s \in Subscribers, NEW k \in Classes
      PROVE  Apart(main', immediate', low', worker', done', s, k)
  <2>1. Apart(main, immediate, low, worker, done, s, k)
    BY DEF RecordInv
  <2>2. CASE q = immediate /\ immediate' = Tail(q) /\ low' = low
    BY <1>2, <1>4, <2>1, <2>2 DEF Apart
  <2>3. CASE q = low /\ low' = Tail(q) /\ immediate' = immediate
    BY <1>2, <1>4, <2>1, <2>3 DEF Apart
  <2> QED
    BY <2>2, <2>3
<1>9. OnceInQueue(immediate') /\ OnceInQueue(low')
  BY <1>2 DEF RecordInv
<1>10. OnceInLoop(main') /\ LoopIsSticky(main') /\ StoreIsTrue(commonEventRecords', ToSet(published'))
  BY DEF RecordInv
<1> QED
  BY <1>6, <1>7, <1>8, <1>9, <1>10 DEF RecordInv

\* The worker moves on from a receiver.
LEMMA MovedOn ==
    ASSUME TypeInv, RecordInv, HasReceiver \/ worker.at = "keep",
           NEW state \in Deliveries, worker' = Delivered(state)
    PROVE  /\ worker'.at # "idle" /\ worker'.record = worker.record
           /\ worker.record \in Records
           /\ Remaining(worker, Receiver, Class(worker.record)) /\ Class(worker.record) \in Classes
           /\ \A s, k : Remaining(worker', s, k) =>
                  Remaining(worker, s, k) /\ s # Receiver
           /\ \A s, k : Passed(worker', s, k) <=>
                  Passed(worker, s, k) \/ (s = Receiver /\ k = Class(worker.record))
<1> DEFINE r == worker.record
           n == worker.nextReceiver
<1>1. /\ worker.at # "idle" /\ r \in EventRecords /\ n \in 1..Len(r.receivers)
      /\ Receiver = r.receivers[n]
  BY ReceiverFacts
<1>2. worker'.at = "notify" /\ worker'.record = r /\ worker'.nextReceiver = n + 1
  BY <1>1, DeliveredFields
<1>3. Class(r) \in Classes
  BY <1>1, ClassType
<1>4. worker.record \in Records
  BY <1>1 DEF Records, RecordsOf, WorkerRecords
<1> HIDE DEF r, n
<1>5. DOMAIN r.receivers = 1..Len(r.receivers) /\ IsInjective(r.receivers) /\ Len(r.receivers) \in Nat
  BY <1>1, <1>4, RecordFields DEF RecordInv, Sound, r
<1>6. Remaining(worker, Receiver, Class(r))
  <2>1. n >= n /\ r.receivers[n] = Receiver
    BY <1>1
  <2> QED
    BY <1>1, <2>1 DEF Remaining, r, n
<1>7. ASSUME NEW s, NEW k, Remaining(worker', s, k)
      PROVE  Remaining(worker, s, k) /\ s # Receiver
  <2>1. PICK i \in 1..Len(r.receivers) : i >= n + 1 /\ r.receivers[i] = s
    BY <1>2, <1>7 DEF Remaining
  <2>2. i >= n /\ i # n
    BY <1>1, <2>1
  <2>3. s # Receiver
    BY <1>1, <1>5, <2>1, <2>2 DEF IsInjective
  <2> QED
    BY <1>1, <1>2, <1>7, <2>1, <2>2, <2>3 DEF Remaining, r, n
<1>8. ASSUME NEW s, NEW k
      PROVE  Passed(worker', s, k) <=> Passed(worker, s, k) \/ (s = Receiver /\ k = Class(r))
  <2>1. Passed(worker', s, k) <=>
            Class(r) = k /\ \E i \in 1..Len(r.receivers) : i < n + 1 /\ r.receivers[i] = s
    BY <1>2 DEF Passed
  <2>2. Passed(worker, s, k) <=>
            Class(r) = k /\ \E i \in 1..Len(r.receivers) : i < n /\ r.receivers[i] = s
    BY <1>1 DEF Passed, r, n
  <2>3. \A i \in 1..Len(r.receivers) : i < n + 1 <=> i < n \/ i = n
    BY <1>1
  <2> QED
    BY <1>1, <2>1, <2>2, <2>3
<1> QED
  BY <1>2, <1>3, <1>4, <1>6, <1>7, <1>8 DEF r

LEMMA RecordsDeliver ==
    ASSUME TypeInv, RecordInv, HasReceiver \/ worker.at = "keep",
           NEW state \in Deliveries, worker' = Delivered(state),
           UNCHANGED <<main, immediate, low, done, published, known, commonEventRecords>>
    PROVE  RecordInv'
<1>1. /\ worker'.at # "idle" /\ worker'.record = worker.record /\ worker.record \in Records
      /\ Remaining(worker, Receiver, Class(worker.record)) /\ Class(worker.record) \in Classes
      /\ \A s, k : Remaining(worker', s, k) => Remaining(worker, s, k) /\ s # Receiver
      /\ \A s, k : Passed(worker', s, k) <=>
             Passed(worker, s, k) \/ (s = Receiver /\ k = Class(worker.record))
  BY MovedOn
<1>2. Records' \subseteq Records
  BY <1>1 DEF Records, RecordsOf, WorkerRecords
<1>3. ASSUME NEW s \in Subscribers, NEW k \in Classes
      PROVE  Apart(main', immediate', low', worker', done', s, k)
  <2>1. Apart(main, immediate, low, worker, done, s, k)
    BY DEF RecordInv
  <2>2. Processed(done', worker', s, k) =>
            Processed(done, worker, s, k) \/ (s = Receiver /\ Remaining(worker, s, k))
    BY <1>1 DEF Processed
  <2>3. Remaining(worker', s, k) => Remaining(worker, s, k) /\ s # Receiver
    BY <1>1
  <2> QED
    BY <2>1, <2>2, <2>3 DEF Apart
<1>4. MappedLater(main', Records')
  BY <1>2 DEF RecordInv, MappedLater
<1>5. \A r \in Records' : Sound(r, ToSet(published'), known')
  BY <1>2 DEF RecordInv
<1>6. /\ OnceInLoop(main') /\ LoopIsSticky(main') /\ StoreIsTrue(commonEventRecords', ToSet(published'))
      /\ OnceInQueue(immediate') /\ OnceInQueue(low')
  BY DEF RecordInv
<1> QED
  BY <1>3, <1>4, <1>5, <1>6 DEF RecordInv

\* When the worker only changes its place in the code.
LEMMA RecordsFindFrozen == ASSUME TypeInv, RecordInv, FindFrozen PROVE RecordInv'
<1>1. worker.at # "idle" /\ worker'.at = "keep" /\ worker'.record = worker.record
      /\ worker'.nextReceiver = worker.nextReceiver
  <2>1. /\ worker.at # "idle"
        /\ worker = [at |-> worker.at, record |-> worker.record, nextReceiver |-> worker.nextReceiver,
                     deliveryState |-> worker.deliveryState]
    BY TypeParts, WorkerFields, ReceiverFacts DEF FindFrozen, WorkerType
  <2>2. worker' = [worker EXCEPT !.at = "keep"]
    BY DEF FindFrozen
  <2> QED
    BY <2>1, <2>2
<1>2. UNCHANGED <<main, immediate, low, done, published, known, commonEventRecords>>
  BY DEF FindFrozen, queueVars, storeVars, ghostVars
<1>3. Records' = Records
  BY <1>1, <1>2 DEF Records, RecordsOf, WorkerRecords
<1>4. \A s, k : /\ Remaining(worker', s, k) <=> Remaining(worker, s, k)
                /\ Passed(worker', s, k) <=> Passed(worker, s, k)
  BY <1>1 DEF Remaining, Passed
<1>5. \A s \in Subscribers, k \in Classes : Apart(main', immediate', low', worker', done', s, k)
  BY <1>2, <1>4 DEF RecordInv, Apart, Processed
<1> QED
  BY <1>2, <1>3, <1>5 DEF RecordInv

\* The worker is done with a record.
LEMMA EndFacts ==
    ASSUME TypeInv, NotifyEnd
    PROVE  /\ worker.at # "idle" /\ worker'.at = "idle" /\ done' = done \cup {worker.record}
           /\ \A s, k : Processed(done', worker', s, k) <=> Processed(done, worker, s, k)
           /\ \A i \in 1..Len(worker.record.receivers) : i < worker.nextReceiver
<1>1. worker.at # "idle" /\ worker'.at = "idle" /\ done' = done \cup {worker.record}
  BY DEF NotifyEnd, Idle
<1>2. \A i \in 1..Len(worker.record.receivers) : i < worker.nextReceiver
  <2>1. worker.record \in EventRecords /\ worker.nextReceiver \in Nat
    BY <1>1, TypeParts, WorkerFields DEF WorkerType
  <2>2. Len(worker.record.receivers) \in Nat /\ worker.nextReceiver > Len(worker.record.receivers)
    BY <2>1, RecordFields DEF NotifyEnd
  <2> QED
    BY <2>1, <2>2
<1>3. \A s, k : Passed(worker, s, k) <=> For(worker.record, s, k)
  <2>1. DOMAIN worker.record.receivers = 1..Len(worker.record.receivers)
    BY <1>1, WorkerDomain
  <2> QED
    BY <1>1, <1>2, <2>1 DEF Passed, For, ToSet
<1>4. \A s, k : ~Passed(worker', s, k)
  BY <1>1 DEF Passed
<1> QED
  BY <1>1, <1>2, <1>3, <1>4 DEF Processed

LEMMA RecordsEnd == ASSUME TypeInv, RecordInv, NotifyEnd PROVE RecordInv'
<1>1. /\ worker.at # "idle" /\ worker'.at = "idle" /\ done' = done \cup {worker.record}
      /\ \A s, k : Processed(done', worker', s, k) <=> Processed(done, worker, s, k)
  BY EndFacts
<1>2. UNCHANGED <<main, immediate, low, published, known, commonEventRecords>>
  BY DEF NotifyEnd, storeVars
<1>3. Records' \subseteq Records
  BY <1>1, <1>2 DEF Records, RecordsOf, WorkerRecords
<1>4. \A s, k : ~Remaining(worker', s, k)
  BY <1>1 DEF Remaining
<1>5. \A s \in Subscribers, k \in Classes : Apart(main', immediate', low', worker', done', s, k)
  BY <1>1, <1>2, <1>4 DEF RecordInv, Apart
<1>6. MappedLater(main', Records')
  BY <1>2, <1>3 DEF RecordInv, MappedLater
<1>7. \A r \in Records' : Sound(r, ToSet(published'), known')
  BY <1>2, <1>3 DEF RecordInv
<1> QED
  BY <1>2, <1>5, <1>6, <1>7 DEF RecordInv

LEMMA RecordInvNext ==
    ASSUME TypeInv, RegistryInv, RecordInv, [Next]_vars
    PROVE  RecordInv'
<1>1. CASE PublishMapped \/ EnqueueUnorderedRecord \/ PostReplay
  BY <1>1, RecordsPublishMapped, RecordsEnqueue, RecordsPostReplay
<1>2. ASSUME UNCHANGED <<immediate, low, worker, done, published, commonEventRecords>>,
             known \subseteq known',
             main' = main \/ (main.at \notin {"enqueue", "map"} /\ main'.at \notin {"enqueue", "map"})
      PROVE  RecordInv'
  <2>1. /\ QueueRecords(immediate') \subseteq QueueRecords(immediate)
        /\ \A s, k : InQueue(immediate', s, k) => InQueue(immediate, s, k)
        /\ OnceInQueue(immediate')
    BY <1>2 DEF RecordInv
  <2> QED
    BY <1>2, <2>1, RecordsKept
<1>3. CASE CollectFrozenEvents
  <2>1. main.at \notin {"enqueue", "map"} /\ main'.at \notin {"enqueue", "map"}
    BY <1>3 DEF CollectFrozenEvents, Idle
  <2> QED
    BY <1>2, <1>3, <2>1 DEF CollectFrozenEvents, queueVars, storeVars, ghostVars
<1>4. CASE TakeImmediate
  <2>1. /\ immediate # <<>> /\ worker.at = "idle" /\ Run(Head(immediate))
        /\ immediate' = Tail(immediate) /\ low' = low
        /\ UNCHANGED <<main, done, published, known, commonEventRecords>>
    BY <1>4 DEF TakeImmediate, storeVars
  <2> QED
    BY <2>1, RecordsTake
<1>5. CASE TakeLow
  <2>1. /\ low # <<>> /\ worker.at = "idle" /\ Run(Head(low))
        /\ low' = Tail(low) /\ immediate' = immediate
        /\ UNCHANGED <<main, done, published, known, commonEventRecords>>
    BY <1>5 DEF TakeLow, storeVars
  <2> QED
    BY <2>1, RecordsTake
<1>6. CASE NotifyReceiver
  <2>1. UNCHANGED <<main, immediate, low, done, published, known, commonEventRecords>>
        /\ HasReceiver
    BY <1>6 DEF NotifyReceiver, queueVars, storeVars
  <2>2. CASE worker' = Delivered("DELIVERED")
    BY <2>1, <2>2, RecordsDeliver DEF Deliveries
  <2>3. CASE worker' = Delivered("SKIPPED")
    BY <2>1, <2>3, RecordsDeliver DEF Deliveries
  <2> QED
    BY <1>6, <2>2, <2>3 DEF NotifyReceiver
<1>7. CASE KeepFrozenEvent
  <2>1. UNCHANGED <<main, immediate, low, done, published, known, commonEventRecords>>
        /\ worker.at = "keep" /\ worker' = Delivered("SKIPPED")
    BY <1>7 DEF KeepFrozenEvent, queueVars, storeVars, ghostVars
  <2> QED
    BY <2>1, RecordsDeliver DEF Deliveries
<1>8. CASE FindFrozen \/ NotifyEnd
  BY <1>8, RecordsFindFrozen, RecordsEnd
<1>9. ASSUME NEW p \in Publications, PublishCommonEvent(p) PROVE RecordInv'
  BY <1>9, RecordsPublish
<1>10. ASSUME NEW s \in Subscribers, SubscribeCommonEvent(s) PROVE RecordInv'
  <2>1. CASE StickyFor(s) # <<>>
    BY <1>10, <2>1, RecordsSubscribe
  <2>2. CASE StickyFor(s) = <<>>
    <3>1. main.at \notin {"enqueue", "map"} /\ main'.at \notin {"enqueue", "map"}
      BY <1>10, <2>2 DEF SubscribeCommonEvent, Idle
    <3> QED
      BY <1>2, <1>10, <3>1 DEF SubscribeCommonEvent, queueVars, storeVars
  <2> QED
    BY <2>1, <2>2
<1>11. ASSUME NEW s \in Subscribers, UnsubscribeCommonEvent(s) \/ SubscriberDied(s) PROVE RecordInv'
  BY <1>2, <1>11 DEF UnsubscribeCommonEvent, SubscriberDied, queueVars, storeVars, ghostVars
<1>12. ASSUME NEW u \in FreezeUids, Freeze(u) \/ Unfreeze(u) PROVE RecordInv'
  <2>1. main' = main \/ (main.at \notin {"enqueue", "map"} /\ main'.at \notin {"enqueue", "map"})
    <3>1. CASE Freeze(u)
      BY <3>1 DEF Freeze
    <3>2. CASE Unfreeze(u)
      <4>1. main.at = "idle" /\ main' = [at |-> "collect", uid |-> u]
        BY <3>2 DEF Unfreeze
      <4> QED
        BY <4>1
    <3> QED
      BY <1>12, <3>1, <3>2
  <2> QED
    BY <1>2, <1>12, <2>1 DEF Freeze, Unfreeze, queueVars, storeVars, ghostVars
<1>13. CASE Tick \/ UNCHANGED vars
  BY <1>2, <1>13 DEF Tick, vars, queueVars, storeVars, ghostVars
<1> QED
  BY <1>1, <1>3, <1>4, <1>5, <1>6, <1>7, <1>8, <1>9, <1>10, <1>11, <1>12, <1>13
     DEF Next, MainStep, WorkerStep, Calling

-----------------------------------------------------------------------------
(* The history *)

\* s was told r directly.
ToldDirectly(t, s, r) == \E j \in DOMAIN t[s] : Is(t[s][j], r) /\ ~t[s][j].replayed

\* What is told of the receiver at i.
TrueOf(t, r, state, i) == state[i] = "DELIVERED" <=> ToldDirectly(t, r.receivers[i], r)

HistoryAgrees(history, d, t) ==
    \A h \in 1..Len(history) :
        /\ history[h].record \in d
        /\ \A i \in DOMAIN history[h].record.receivers :
               TrueOf(t, history[h].record, history[h].deliveryState, i)
WorkerAgrees(w, t) ==
    w.at # "idle" => \A i \in 1..Len(w.record.receivers) :
        i < w.nextReceiver => TrueOf(t, w.record, w.deliveryState, i)
DirectIsProcessed(t, d, w) ==
    \A s \in Subscribers : \A j \in 1..Len(t[s]) :
        ~t[s][j].replayed => Processed(d, w, s, Class(t[s][j]))

\* The inductive invariant of the history.
HistoryInv ==
    /\ Len(historyEvents) <= HISTORY_MAX_SIZE
    /\ HistoryAgrees(historyEvents, done, told)
    /\ WorkerAgrees(worker, told)
    /\ DirectIsProcessed(told, done, worker)

LEMMA HistoryFields ==
    ASSUME TypeInv, NEW h \in 1..Len(historyEvents), NEW i \in DOMAIN historyEvents[h].record.receivers
    PROVE  historyEvents[h].record.receivers[i] \in Subscribers
<1>1. historyEvents \in Seq([record : EventRecords, deliveryState : Seq(Deliveries)])
  BY TypeParts DEF HistoryType
<1> DEFINE e == historyEvents[h]
           H == [record : EventRecords, deliveryState : Seq(Deliveries)]
<1>2. e \in H
  <2>1. historyEvents \in Seq(H)
    BY <1>1
  <2> HIDE DEF H
  <2> QED
    BY <2>1
<1> HIDE DEF e
<1>3. e.record \in EventRecords
  BY <1>2
<1>4. ASSUME NEW j \in DOMAIN e.record.receivers PROVE e.record.receivers[j] \in Subscribers
  <2> DEFINE r == e.record
  <2> HIDE DEF r
  <2>1. r \in EventRecords
    BY <1>3 DEF r
  <2>2. r.receivers \in Seq(Subscribers)
    BY <2>1, RecordFields
  <2> QED
    BY <1>4, <2>2 DEF r
<1> QED
  BY <1>4 DEF e

LEMMA TellFacts ==
    ASSUME told \in [Subscribers -> Seq(Received)], NEW s \in Subscribers, NEW e \in Received,
           told' = [told EXCEPT ![s] = Append(@, e)]
    PROVE  \A t \in Subscribers :
               /\ told[t] \in Seq(Received) /\ told'[t] \in Seq(Received)
               /\ \A r : ToldDirectly(told', t, r) <=>
                      ToldDirectly(told, t, r) \/ (t = s /\ Is(e, r) /\ ~e.replayed)
               /\ \A j \in 1..Len(told'[t]) :
                      \/ j \in 1..Len(told[t]) /\ told'[t][j] = told[t][j]
                      \/ t = s /\ j = Len(told[t]) + 1 /\ told'[t][j] = e
               /\ \A j \in 1..Len(told[t]) : j \in 1..Len(told'[t]) /\ told'[t][j] = told[t][j]
               /\ t = s => Len(told[t]) + 1 \in 1..Len(told'[t]) /\ told'[t][Len(told[t]) + 1] = e
<1> SUFFICES ASSUME NEW t \in Subscribers
             PROVE  /\ told[t] \in Seq(Received) /\ told'[t] \in Seq(Received)
                    /\ \A r : ToldDirectly(told', t, r) <=>
                           ToldDirectly(told, t, r) \/ (t = s /\ Is(e, r) /\ ~e.replayed)
                    /\ \A j \in 1..Len(told'[t]) :
                           \/ j \in 1..Len(told[t]) /\ told'[t][j] = told[t][j]
                           \/ t = s /\ j = Len(told[t]) + 1 /\ told'[t][j] = e
                    /\ \A j \in 1..Len(told[t]) : j \in 1..Len(told'[t]) /\ told'[t][j] = told[t][j]
                    /\ t = s => Len(told[t]) + 1 \in 1..Len(told'[t]) /\ told'[t][Len(told[t]) + 1] = e
  OBVIOUS
<1> DEFINE a == told[t]
           b == told'[t]
<1>1. a \in Seq(Received) /\ Len(a) \in Nat /\ DOMAIN a = 1..Len(a)
  OBVIOUS
<1>2. CASE t # s
  <2>1. b = a
    BY <1>2
  <2> QED
    BY <1>1, <1>2, <2>1 DEF ToldDirectly
<1>3. CASE t = s
  <2>1. b = Append(a, e)
    BY <1>3
  <2> HIDE DEF a, b
  <2>2. /\ b \in Seq(Received) /\ Len(b) = Len(a) + 1 /\ b[Len(a) + 1] = e
        /\ (\A i \in 1..Len(a) : b[i] = a[i]) /\ DOMAIN b = 1..Len(b)
        /\ \A i \in 1..Len(b) : i \in 1..Len(a) \/ i = Len(a) + 1
    BY <1>1, <2>1, AppendFacts
  <2>3. (\A i \in 1..Len(a) : i \in 1..Len(b)) /\ Len(a) + 1 \in 1..Len(b)
    BY <1>1, <2>2
  <2>4. ASSUME NEW r
        PROVE  ToldDirectly(told', t, r) <=> ToldDirectly(told, t, r) \/ (Is(e, r) /\ ~e.replayed)
    <3>1. ToldDirectly(told', t, r) <=> \E j \in 1..Len(b) : Is(b[j], r) /\ ~b[j].replayed
      BY <2>2 DEF ToldDirectly, b
    <3>2. ToldDirectly(told, t, r) <=> \E j \in 1..Len(a) : Is(a[j], r) /\ ~a[j].replayed
      BY <1>1 DEF ToldDirectly, a
    <3> QED
      BY <2>2, <2>3, <3>1, <3>2
  <2> QED
    BY <1>1, <1>3, <2>2, <2>3, <2>4 DEF a, b
<1> QED
  BY <1>2, <1>3

LEMMA HistoryInvInit == Init => HistoryInv
<1> SUFFICES ASSUME Init PROVE HistoryInv
  OBVIOUS
<1>1. historyEvents = <<>> /\ told = [s \in Subscribers |-> <<>>] /\ worker.at = "idle"
  BY DEF Init, Idle
<1> QED
  BY <1>1, UnorderedAssumption DEF HistoryInv, HistoryAgrees, WorkerAgrees, DirectIsProcessed

\* An event replayed is not told directly.
LEMMA HistoryReplayed ==
    ASSUME TypeInv, HistoryInv, NEW task \in Tasks, NotifyFreezeEvents(task),
           UNCHANGED <<historyEvents, done>>
    PROVE  HistoryInv'
<1>1. worker' = worker /\ told \in [Subscribers -> Seq(Received)]
      /\ task.to \in Subscribers /\ task.event \in FrozenEvents
  BY TaskFields, TypeParts DEF NotifyFreezeEvents, ToldType
<1> DEFINE e == [pub |-> task.event.pub, as |-> task.event.as, action |-> action[task.event.pub],
                 replayed |-> TRUE]
           s == task.to
<1>2. e \in Received /\ e.replayed
  <2>1. action[task.event.pub] \in Names
    BY <1>1, EventFields, TypeParts DEF StoreTypes
  <2> QED
    BY <1>1, <2>1, EventFields DEF Received
<1>3. told' = told \/ told' = [told EXCEPT ![s] = Append(@, e)]
  BY DEF NotifyFreezeEvents, Tell
<1>6. s \in Subscribers
  BY <1>1
<1> HIDE DEF e, s
<1>4. CASE told' = told
  BY <1>1, <1>4 DEF HistoryInv
<1>5. CASE told' = [told EXCEPT ![s] = Append(@, e)]
  <2>1. \A t \in Subscribers :
            /\ \A r : ToldDirectly(told', t, r) <=> ToldDirectly(told, t, r)
            /\ \A j \in 1..Len(told'[t]) :
                   (j \in 1..Len(told[t]) /\ told'[t][j] = told[t][j]) \/ told'[t][j] = e
    <3>1. ASSUME NEW t \in Subscribers, NEW r
          PROVE  ToldDirectly(told', t, r) <=> ToldDirectly(told, t, r) \/ (t = s /\ Is(e, r) /\ ~e.replayed)
      BY <1>1, <1>2, <1>5, <1>6, TellFacts
    <3>2. ASSUME NEW t \in Subscribers, NEW j \in 1..Len(told'[t])
          PROVE  \/ j \in 1..Len(told[t]) /\ told'[t][j] = told[t][j]
                 \/ t = s /\ j = Len(told[t]) + 1 /\ told'[t][j] = e
      BY <1>1, <1>2, <1>5, <1>6, TellFacts
    <3> QED
      BY <1>2, <3>1, <3>2
  <2>2. DirectIsProcessed(told', done', worker')
    BY <1>1, <1>2, <2>1 DEF HistoryInv, DirectIsProcessed
  <2>3. WorkerAgrees(worker', told')
    <3>1. worker.at # "idle" => \A i \in 1..Len(worker.record.receivers) :
              worker.record.receivers[i] \in Subscribers
      BY TypeParts, WorkerFields, RecordFields DEF WorkerType
    <3> QED
      BY <1>1, <2>1, <3>1 DEF HistoryInv, WorkerAgrees, TrueOf
  <2>4. HistoryAgrees(historyEvents', done', told')
    <3>1. \A h \in 1..Len(historyEvents) : \A i \in DOMAIN historyEvents[h].record.receivers :
              historyEvents[h].record.receivers[i] \in Subscribers
      BY HistoryFields
    <3> QED
      BY <2>1, <3>1 DEF HistoryInv, HistoryAgrees, TrueOf
  <2> QED
    BY <2>2, <2>3, <2>4 DEF HistoryInv
<1> QED
  BY <1>3, <1>4, <1>5

\* A receiver is told or passed over, and its state says which.
LEMMA HistoryDelivered ==
    ASSUME TypeInv, RecordInv, HistoryInv, HasReceiver \/ worker.at = "keep",
           NEW state \in Deliveries, worker' = Delivered(state),
           UNCHANGED <<historyEvents, done>>,
           \/ state = "SKIPPED" /\ told' = told
           \/ state = "DELIVERED" /\ Tell(Receiver, worker.record, FALSE)
    PROVE  HistoryInv'
<1> DEFINE w == worker.record
           R == Receiver
           n == worker.nextReceiver
           e == [pub |-> w.pub, as |-> w.as, action |-> action[w.pub], replayed |-> FALSE]
<1>1. /\ worker.at # "idle" /\ w \in EventRecords /\ n \in 1..Len(w.receivers)
      /\ R = w.receivers[n] /\ R \in Subscribers
  BY ReceiverFacts
<1>2. /\ worker'.at = "notify" /\ worker'.record = w /\ worker'.nextReceiver = n + 1
      /\ worker'.deliveryState = [worker.deliveryState EXCEPT ![n] = state]
  BY <1>1, DeliveredFields
<1>3. DOMAIN worker.deliveryState = DOMAIN w.receivers
  BY <1>1, TypeParts DEF WorkerType, Fits
<1>4. /\ w \in Records /\ Remaining(worker, R, Class(w)) /\ Class(w) \in Classes
      /\ \A s, k : Passed(worker', s, k) <=> Passed(worker, s, k) \/ (s = R /\ k = Class(w))
  BY MovedOn
<1>5. ~Processed(done, worker, R, Class(w))
  BY <1>1, <1>4 DEF RecordInv, Apart
<1>6. told \in [Subscribers -> Seq(Received)]
  BY TypeParts DEF ToldType
<1>7. e \in Received /\ ~e.replayed /\ e.pub = w.pub /\ e.as = w.as
  <2>1. action[w.pub] \in Names
    BY <1>1, RecordFields, TypeParts DEF StoreTypes
  <2> QED
    BY <1>1, <2>1, RecordFields DEF Received
<1>8. state = "DELIVERED" => told' = [told EXCEPT ![R] = Append(@, e)]
  BY DEF Tell, Deliveries
<1> HIDE DEF w, R, n, e
<1>9. DOMAIN w.receivers = 1..Len(w.receivers) /\ IsInjective(w.receivers)
      /\ \A i \in 1..Len(w.receivers) : w.receivers[i] \in Subscribers
  BY <1>1, <1>4, RecordFields DEF RecordInv, Sound
<1>10. Class(e) = Class(w) /\ \A r : Is(e, r) => Class(r) = Class(w)
  BY <1>7 DEF Class, Is
<1>11. ASSUME NEW t \in Subscribers, NEW r, Processed(done, worker, t, Class(r))
       PROVE  ToldDirectly(told', t, r) <=> ToldDirectly(told, t, r)
  <2>1. CASE told' = told
    BY <2>1
  <2>2. CASE told' = [told EXCEPT ![R] = Append(@, e)]
    <3>0. R \in Subscribers /\ e \in Received
      BY <1>1, <1>7
    <3>1. ToldDirectly(told', t, r) <=> ToldDirectly(told, t, r) \/ (t = R /\ Is(e, r) /\ ~e.replayed)
      BY <1>6, <1>11, <2>2, <3>0, TellFacts
    <3>2. ~(t = R /\ Is(e, r))
      BY <1>5, <1>10, <1>11
    <3> QED
      BY <3>1, <3>2
  <2> QED
    BY <1>8, <2>1, <2>2
<1>12. HistoryAgrees(historyEvents', done', told')
  <2> SUFFICES ASSUME NEW h \in 1..Len(historyEvents),
                      NEW i \in DOMAIN historyEvents[h].record.receivers
               PROVE  TrueOf(told', historyEvents[h].record, historyEvents[h].deliveryState, i)
    BY DEF HistoryInv, HistoryAgrees
  <2> DEFINE r == historyEvents[h].record
  <2>1. r \in done /\ TrueOf(told, r, historyEvents[h].deliveryState, i)
    BY DEF HistoryInv, HistoryAgrees
  <2>2. r.receivers[i] \in Subscribers
    BY HistoryFields
  <2>3. Processed(done, worker, r.receivers[i], Class(r))
    <3> HIDE DEF r
    <3>1. r.receivers[i] \in ToSet(r.receivers)
      BY DEF ToSet, r
    <3> QED
      BY <2>1, <3>1 DEF Processed, For
  <2> QED
    BY <1>11, <2>1, <2>2, <2>3 DEF TrueOf
<1>13. ~ToldDirectly(told, R, w)
  <2> SUFFICES ASSUME ToldDirectly(told, R, w) PROVE FALSE
    OBVIOUS
  <2>1. PICK j \in 1..Len(told[R]) : Is(told[R][j], w) /\ ~told[R][j].replayed
    <3>1. DOMAIN told[R] = 1..Len(told[R])
      BY <1>1, <1>6
    <3> QED
      BY <3>1 DEF ToldDirectly
  <2>2. Class(told[R][j]) = Class(w)
    BY <2>1 DEF Is, Class
  <2> QED
    BY <1>1, <1>5, <2>1, <2>2 DEF HistoryInv, DirectIsProcessed
<1>14. WorkerAgrees(worker', told')
  <2> SUFFICES ASSUME NEW i \in 1..Len(w.receivers), i < n + 1
               PROVE  TrueOf(told', w, worker'.deliveryState, i)
    BY <1>2 DEF WorkerAgrees
  <2>1. CASE i = n
    <3>1. worker'.deliveryState[i] = state
      BY <1>2, <1>3, <1>9, <2>1
    <3>2. CASE state = "SKIPPED"
      <4>1. told' = told
        BY <3>2
      <4>2. ~ToldDirectly(told', w.receivers[i], w)
        BY <1>1, <1>13, <2>1, <4>1
      <4> QED
        BY <3>1, <3>2, <4>2 DEF TrueOf
    <3>3. CASE state = "DELIVERED"
      <4>1. Is(e, w)
        BY <1>7 DEF Is
      <4>2. told' = [told EXCEPT ![R] = Append(@, e)]
        BY <1>8, <3>3
      <4>3. R \in Subscribers /\ e \in Received
        BY <1>1, <1>7
      <4>4. ToldDirectly(told', R, w) <=> ToldDirectly(told, R, w) \/ (R = R /\ Is(e, w) /\ ~e.replayed)
        BY <1>6, <4>2, <4>3, TellFacts
      <4>5. ToldDirectly(told', R, w)
        BY <1>7, <4>1, <4>4
      <4> QED
        BY <1>1, <2>1, <3>1, <3>3, <4>5 DEF TrueOf
    <3> QED
      BY <3>2, <3>3
  <2>2. CASE i < n
    <3>1. worker'.deliveryState[i] = worker.deliveryState[i]
      BY <1>2, <1>3, <1>9, <2>2
    <3>2. TrueOf(told, w, worker.deliveryState, i)
      BY <1>1, <2>2 DEF HistoryInv, WorkerAgrees, w, n
    <3>3. Processed(done, worker, w.receivers[i], Class(w))
      BY <1>1, <2>2 DEF Processed, Passed, w, n
    <3> QED
      BY <1>9, <1>11, <3>1, <3>2, <3>3 DEF TrueOf
  <2> QED
    BY <1>1, <2>1, <2>2
<1>15. DirectIsProcessed(told', done', worker')
  <2>1. \A s, k : Processed(done', worker', s, k) <=> Processed(done, worker, s, k) \/ (s = R /\ k = Class(w))
    BY <1>4 DEF Processed
  <2>2. CASE told' = told
    BY <2>1, <2>2 DEF HistoryInv, DirectIsProcessed
  <2>3. CASE told' = [told EXCEPT ![R] = Append(@, e)]
    <3>1. R \in Subscribers /\ e \in Received
      BY <1>1, <1>7
    <3>2. ASSUME NEW t \in Subscribers, NEW j \in 1..Len(told'[t])
          PROVE  \/ j \in 1..Len(told[t]) /\ told'[t][j] = told[t][j]
                 \/ t = R /\ told'[t][j] = e
      BY <1>6, <2>3, <3>1, <3>2, TellFacts
    <3> QED
      BY <1>10, <2>1, <3>2 DEF HistoryInv, DirectIsProcessed
  <2> QED
    BY <1>8, <2>2, <2>3
<1> QED
  BY <1>12, <1>14, <1>15 DEF HistoryInv

\* What the worker knows of its record goes to the history.
LEMMA HistoryEnd == ASSUME TypeInv, HistoryInv, NotifyEnd PROVE HistoryInv'
<1> DEFINE h == [record |-> worker.record, deliveryState |-> worker.deliveryState]
           old == IF Len(historyEvents) = HISTORY_MAX_SIZE THEN Tail(historyEvents) ELSE historyEvents
<1>1. /\ worker.at # "idle" /\ worker'.at = "idle" /\ done' = done \cup {worker.record}
      /\ \A s, k : Processed(done', worker', s, k) <=> Processed(done, worker, s, k)
      /\ \A i \in 1..Len(worker.record.receivers) : i < worker.nextReceiver
  BY EndFacts
<1>2. told' = told /\ historyEvents' = Append(old, h)
  BY DEF NotifyEnd, Remembered
<1> DEFINE H == [record : EventRecords, deliveryState : Seq(Deliveries)]
<1>3. historyEvents \in Seq(H)
  BY TypeParts DEF HistoryType
<1>4. h \in H
  BY <1>1, TypeParts, WorkerFields DEF WorkerType
<1>5. h.record = worker.record /\ h.deliveryState = worker.deliveryState
  OBVIOUS
<1> HIDE DEF h, H
<1>6. /\ old \in Seq(H) /\ Len(old) + 1 <= HISTORY_MAX_SIZE
      /\ \A i \in 1..Len(old) : \E j \in 1..Len(historyEvents) : old[i] = historyEvents[j]
  <2>1. Len(historyEvents) <= HISTORY_MAX_SIZE /\ HISTORY_MAX_SIZE \in Nat \ {0}
    BY UnorderedAssumption DEF HistoryInv
  <2>2. CASE Len(historyEvents) = HISTORY_MAX_SIZE
    <3>1. historyEvents # <<>>
      BY <2>1, <2>2
    <3>2. old = Tail(historyEvents)
      BY <2>2
    <3> HIDE DEF old
    <3> QED
      BY <1>3, <2>1, <2>2, <3>1, <3>2, HeadTailFacts
  <2>3. CASE Len(historyEvents) # HISTORY_MAX_SIZE
    BY <1>3, <2>1, <2>3
  <2> QED
    BY <2>2, <2>3
<1> HIDE DEF old
<1>7. /\ Len(historyEvents') = Len(old) + 1
      /\ \A i \in 1..Len(historyEvents') : \/ i \in 1..Len(old) /\ historyEvents'[i] = old[i]
                                           \/ historyEvents'[i] = h
  BY <1>2, <1>4, <1>6, AppendFacts
<1>8. DOMAIN worker.record.receivers = 1..Len(worker.record.receivers)
  BY <1>1, WorkerDomain
<1>9. \A i \in 1..Len(worker.record.receivers) : TrueOf(told, worker.record, worker.deliveryState, i)
  BY <1>1 DEF HistoryInv, WorkerAgrees
<1>10. HistoryAgrees(historyEvents', done', told')
  <2> SUFFICES ASSUME NEW i \in 1..Len(historyEvents')
               PROVE  /\ historyEvents'[i].record \in done'
                      /\ \A j \in DOMAIN historyEvents'[i].record.receivers :
                             TrueOf(told', historyEvents'[i].record, historyEvents'[i].deliveryState, j)
    BY DEF HistoryAgrees
  <2>1. CASE historyEvents'[i] = h
    BY <1>1, <1>2, <1>5, <1>8, <1>9, <2>1
  <2>2. CASE i \in 1..Len(old) /\ historyEvents'[i] = old[i]
    <3>1. PICK j \in 1..Len(historyEvents) : historyEvents'[i] = historyEvents[j]
      BY <1>6, <2>2
    <3> QED
      BY <1>1, <1>2, <3>1 DEF HistoryInv, HistoryAgrees
  <2> QED
    BY <1>7, <2>1, <2>2
<1>11. WorkerAgrees(worker', told') /\ DirectIsProcessed(told', done', worker')
  BY <1>1, <1>2 DEF HistoryInv, WorkerAgrees, DirectIsProcessed
<1>12. Len(historyEvents') <= HISTORY_MAX_SIZE
  BY <1>6, <1>7
<1> QED
  BY <1>10, <1>11, <1>12 DEF HistoryInv

\* A record that the worker begins has no receiver behind.
LEMMA HistoryBegin ==
    ASSUME TypeInv, HistoryInv, NEW task, worker.at = "idle", NotifyBegin(task), UNCHANGED <<historyEvents, done>>
    PROVE  HistoryInv'
<1>1. worker'.nextReceiver = 1 /\ told' = told
  BY DEF NotifyBegin
<1>2. WorkerAgrees(worker', told')
  <2>1. \A i \in 1..Len(worker'.record.receivers) : ~(i < 1)
    OBVIOUS
  <2> QED
    BY <1>1, <2>1 DEF WorkerAgrees
<1>3. \A s, k : ~Passed(worker, s, k)
  BY DEF Passed
<1>4. DirectIsProcessed(told', done', worker')
  BY <1>1, <1>3 DEF HistoryInv, DirectIsProcessed, Processed
<1> QED
  BY <1>1, <1>2, <1>4 DEF HistoryInv

LEMMA HistoryInvNext ==
    ASSUME TypeInv, RecordInv, HistoryInv, [Next]_vars
    PROVE  HistoryInv'
<1>1. ASSUME UNCHANGED <<historyEvents, done, worker, told>> PROVE HistoryInv'
  BY <1>1 DEF HistoryInv
<1>2. CASE MainStep
  BY <1>1, <1>2 DEF MainStep, PublishMapped, EnqueueUnorderedRecord, CollectFrozenEvents, PostReplay, ghostVars
<1>3. CASE Calling
  BY <1>1, <1>3 DEF Calling, PublishCommonEvent, SubscribeCommonEvent, UnsubscribeCommonEvent, SubscriberDied,
                    Freeze, Unfreeze, ghostVars
<1>4. CASE Tick \/ UNCHANGED vars
  BY <1>1, <1>4 DEF Tick, vars, ghostVars
<1>5. CASE TakeImmediate \/ TakeLow
  <2>1. /\ worker.at = "idle" /\ UNCHANGED <<historyEvents, done>>
        /\ \/ immediate # <<>> /\ Run(Head(immediate))
           \/ low # <<>> /\ Run(Head(low))
    BY <1>5 DEF TakeImmediate, TakeLow
  <2>2. PICK task \in Tasks : Run(task)
    BY <2>1, HeadTailFacts, TypeParts DEF QueueTypes
  <2> QED
    BY <2>1, <2>2, HistoryBegin, HistoryReplayed DEF Run
<1>6. CASE NotifyReceiver
  BY <1>6, HistoryDelivered DEF NotifyReceiver, Deliveries
<1>7. CASE KeepFrozenEvent
  <2>1. worker.at = "keep" /\ worker' = Delivered("SKIPPED") /\ UNCHANGED <<historyEvents, done, told>>
    BY <1>7 DEF KeepFrozenEvent, ghostVars
  <2> QED
    BY <2>1, HistoryDelivered DEF Deliveries
<1>8. CASE FindFrozen
  <2>1. worker'.record = worker.record /\ worker'.nextReceiver = worker.nextReceiver
        /\ worker'.deliveryState = worker.deliveryState /\ worker'.at = "keep" /\ worker.at # "idle"
    <3>1. /\ worker.at # "idle"
          /\ worker = [at |-> worker.at, record |-> worker.record, nextReceiver |-> worker.nextReceiver,
                       deliveryState |-> worker.deliveryState]
      BY <1>8, TypeParts, WorkerFields, ReceiverFacts DEF FindFrozen, WorkerType
    <3>2. worker' = [worker EXCEPT !.at = "keep"]
      BY <1>8 DEF FindFrozen
    <3> QED
      BY <3>1, <3>2
  <2>2. UNCHANGED <<historyEvents, done, told>>
    BY <1>8 DEF FindFrozen, ghostVars
  <2>3. \A s, k : Processed(done, worker', s, k) <=> Processed(done, worker, s, k)
    BY <2>1 DEF Processed, Passed
  <2> QED
    BY <2>1, <2>2, <2>3 DEF HistoryInv, WorkerAgrees, DirectIsProcessed
<1>9. CASE NotifyEnd
  BY <1>9, HistoryEnd
<1> QED
  BY <1>2, <1>3, <1>4, <1>5, <1>6, <1>7, <1>8, <1>9 DEF Next, WorkerStep

\* The history holds the latest events and says DELIVERED exactly of the
\* receivers that NotifyUnorderedEvent told, whatever else happens meanwhile.
THEOREM HistorySaysWhoWasTold == Spec => []HistoryIsTrue
<1> DEFINE I == RegistryInv /\ TypeInv /\ RecordInv /\ HistoryInv
<1>1. Init => I
  BY RegistryInvInit, TypeInvInit, RecordInvInit, HistoryInvInit
<1>2. I /\ [Next]_vars => I'
  BY RegistryInvNext, TypeInvNext, RecordInvNext, HistoryInvNext
<1>3. I => HistoryIsTrue
  <2> SUFFICES ASSUME I PROVE HistoryIsTrue
    OBVIOUS
  <2>1. DOMAIN historyEvents = 1..Len(historyEvents)
    BY TypeParts DEF HistoryType
  <2>2. Len(historyEvents) <= HISTORY_MAX_SIZE
    BY DEF HistoryInv
  <2>3. ASSUME NEW h \in DOMAIN historyEvents, NEW i \in DOMAIN historyEvents[h].record.receivers
        PROVE  TrueOf(told, historyEvents[h].record, historyEvents[h].deliveryState, i)
    BY <2>1 DEF HistoryInv, HistoryAgrees
  <2> QED
    BY <2>2, <2>3, Zenon DEF HistoryIsTrue, TrueOf, ToldDirectly
<1> QED
  BY <1>1, <1>2, <1>3, PTL DEF Spec

-----------------------------------------------------------------------------
(* The events kept, posted and heard *)

\* The subscribers for whom nothing is kept under the key of somebody else.
OwnKey == {s \in Subscribers : \A r \in Subscribers : SameKey(r, s) => r = s}

\* Where an event of class k for s is after it was kept, or that s has heard it.
InEntries(entries, s, k) ==
    \E f \in entries : f.owner = s /\ \E i \in 1..Len(f.kept) : Class(f.kept[i]) = k
InHand(m, s, k) == m.at = "replay" /\ InEntries(m.rest, s, k)
Posted(q, s, k) == \E i \in 1..Len(q) : q[i].do = "replay" /\ q[i].to = s /\ Class(q[i].event) = k
Heard(t, s, k) == \E j \in 1..Len(t[s]) : Class(t[s][j]) = k

\* At none of these places is it twice, for a subscriber with a key of its own.
OnceInKept(kept) == \A i, j \in 1..Len(kept) : Class(kept[i]) = Class(kept[j]) => i = j
OnceInEntries(entries) ==
    /\ \A f, g \in entries : f.owner \in OwnKey /\ f.owner = g.owner => f = g
    /\ \A f \in entries : f.owner \in OwnKey => OnceInKept(f.kept)
OnceInHand(m) == m.at = "replay" => OnceInEntries(m.rest)
OncePosted(q) ==
    \A i, j \in 1..Len(q) :
        (/\ q[i].do = "replay" /\ q[j].do = "replay" /\ q[i].to \in OwnKey /\ q[i].to = q[j].to
         /\ Class(q[i].event) = Class(q[j].event))
        => i = j
OnceHeard(t) ==
    \A s \in OwnKey : \A i, j \in 1..Len(t[s]) : Class(t[s][i]) = Class(t[s][j]) => i = j

\* Nor at two of them.
ApartLater(f, m, im, t, s, k) ==
    /\ InEntries(f, s, k) => ~InHand(m, s, k) /\ ~Posted(im, s, k) /\ ~Heard(t, s, k)
    /\ InHand(m, s, k) => ~Posted(im, s, k) /\ ~Heard(t, s, k)
    /\ Posted(im, s, k) => ~Heard(t, s, k)
Later(f, m, im, t, s, k) ==
    InEntries(f, s, k) \/ InHand(m, s, k) \/ Posted(im, s, k) \/ Heard(t, s, k)

OnlyNotifies(q) == \A i \in 1..Len(q) : q[i].do = "notify"

\* The inductive invariant of the events.
EventInv ==
    /\ OnlyNotifies(low)
    /\ OnceInEntries(frozenEvents) /\ OnceInHand(main) /\ OncePosted(immediate) /\ OnceHeard(told)
    /\ \A s \in OwnKey, k \in Classes :
           /\ ApartLater(frozenEvents, main, immediate, told, s, k)
           /\ Later(frozenEvents, main, immediate, told, s, k) => Processed(done, worker, s, k)

LEMMA EventClass ==
    ASSUME NEW e \in FrozenEvents
    PROVE  Class(e) \in Classes
BY EventFields DEF Class, Classes

\* The effect of a new task on what is posted.
LEMMA PostedAppend ==
    ASSUME NEW q \in Seq(Tasks), NEW t \in Tasks
    PROVE  /\ \A s, k : Posted(Append(q, t), s, k) <=>
                  Posted(q, s, k) \/ (t.do = "replay" /\ t.to = s /\ Class(t.event) = k)
           /\ (OncePosted(q) /\ (t.do = "replay" /\ t.to \in OwnKey => ~Posted(q, t.to, Class(t.event))))
              => OncePosted(Append(q, t))
<1> DEFINE u == Append(q, t)
<1>1. /\ u[Len(q) + 1] = t /\ \A i \in 1..Len(q) : u[i] = q[i] /\ i \in 1..Len(u)
      /\ \A i \in 1..Len(u) : i \in 1..Len(q) \/ i = Len(q) + 1
      /\ Len(q) + 1 \in 1..Len(u)
  BY AppendFacts
<1> HIDE DEF u
<1>2. ASSUME NEW s, NEW k
      PROVE  Posted(u, s, k) <=> Posted(q, s, k) \/ (t.do = "replay" /\ t.to = s /\ Class(t.event) = k)
  <2>1. ASSUME Posted(u, s, k)
        PROVE  Posted(q, s, k) \/ (t.do = "replay" /\ t.to = s /\ Class(t.event) = k)
    <3>1. PICK i \in 1..Len(u) : u[i].do = "replay" /\ u[i].to = s /\ Class(u[i].event) = k
      BY <2>1 DEF Posted
    <3> QED
      BY <1>1, <3>1 DEF Posted
  <2>2. ASSUME Posted(q, s, k) PROVE Posted(u, s, k)
    <3>1. PICK i \in 1..Len(q) : q[i].do = "replay" /\ q[i].to = s /\ Class(q[i].event) = k
      BY <2>2 DEF Posted
    <3> QED
      BY <1>1, <3>1 DEF Posted
  <2>3. ASSUME t.do = "replay", t.to = s, Class(t.event) = k PROVE Posted(u, s, k)
    BY <1>1, <2>3 DEF Posted
  <2> QED
    BY <2>1, <2>2, <2>3
<1>3. ASSUME OncePosted(q), t.do = "replay" /\ t.to \in OwnKey => ~Posted(q, t.to, Class(t.event))
      PROVE  OncePosted(u)
  <2> SUFFICES ASSUME NEW i \in 1..Len(u), NEW j \in 1..Len(u), u[i].do = "replay", u[j].do = "replay",
                      u[i].to \in OwnKey, u[i].to = u[j].to, Class(u[i].event) = Class(u[j].event)
               PROVE  i = j
    BY DEF OncePosted
  <2>1. CASE i \in 1..Len(q) /\ j \in 1..Len(q)
    BY <1>1, <1>3, <2>1 DEF OncePosted
  <2>2. CASE i \in 1..Len(q) /\ j = Len(q) + 1
    BY <1>1, <1>3, <2>2 DEF Posted
  <2>3. CASE i = Len(q) + 1 /\ j \in 1..Len(q)
    BY <1>1, <1>3, <2>3 DEF Posted
  <2> QED
    BY <1>1, <2>1, <2>2, <2>3
<1> QED
  BY <1>2, <1>3 DEF u

\* The effect of taking the first task on what is posted.
LEMMA PostedTail ==
    ASSUME NEW q \in Seq(Tasks), q # <<>>
    PROVE  /\ \A s, k : Posted(Tail(q), s, k) => Posted(q, s, k)
           /\ \A s, k : Posted(q, s, k) =>
                  Posted(Tail(q), s, k)
                  \/ (Head(q).do = "replay" /\ Head(q).to = s /\ Class(Head(q).event) = k)
           /\ Head(q).do = "replay" => Posted(q, Head(q).to, Class(Head(q).event))
           /\ OncePosted(q) => OncePosted(Tail(q))
           /\ OncePosted(q) /\ Head(q).do = "replay" /\ Head(q).to \in OwnKey =>
                  ~Posted(Tail(q), Head(q).to, Class(Head(q).event))
<1> DEFINE u == Tail(q)
           t == Head(q)
<1>1. /\ t = q[1] /\ 1 \in 1..Len(q) /\ Len(u) \in Nat
      /\ \A i \in 1..Len(u) : i + 1 \in 1..Len(q) /\ u[i] = q[i + 1]
      /\ \A i \in 1..Len(q) : i = 1 \/ (i - 1 \in 1..Len(u) /\ u[i - 1] = q[i])
  <2>1. /\ t = q[1] /\ 1 \in 1..Len(q) /\ Len(u) \in Nat /\ Len(u) = Len(q) - 1
        /\ \A i \in 1..Len(u) : i + 1 \in 1..Len(q) /\ u[i] = q[i + 1]
    BY HeadTailFacts
  <2> HIDE DEF u
  <2>2. ASSUME NEW i \in 1..Len(q), i # 1 PROVE i - 1 \in 1..Len(u) /\ u[i - 1] = q[i]
    <3>1. i - 1 \in 1..Len(u) /\ (i - 1) + 1 = i
      BY <2>1, <2>2
    <3> QED
      BY <2>1, <3>1
  <2> QED
    BY <2>1, <2>2
<1> HIDE DEF u, t
<1>2. ASSUME NEW s, NEW k, Posted(u, s, k) PROVE Posted(q, s, k)
  BY <1>1, <1>2 DEF Posted
<1>3. ASSUME NEW s, NEW k, Posted(q, s, k)
      PROVE  Posted(u, s, k) \/ (t.do = "replay" /\ t.to = s /\ Class(t.event) = k)
  <2>1. PICK i \in 1..Len(q) : q[i].do = "replay" /\ q[i].to = s /\ Class(q[i].event) = k
    BY <1>3 DEF Posted
  <2> QED
    BY <1>1, <2>1 DEF Posted
<1>4. t.do = "replay" => Posted(q, t.to, Class(t.event))
  BY <1>1 DEF Posted
<1>5. ASSUME OncePosted(q) PROVE OncePosted(u)
  <2> SUFFICES ASSUME NEW i \in 1..Len(u), NEW j \in 1..Len(u), u[i].do = "replay", u[j].do = "replay",
                      u[i].to \in OwnKey, u[i].to = u[j].to, Class(u[i].event) = Class(u[j].event)
               PROVE  i = j
    BY DEF OncePosted
  <2>1. i + 1 = j + 1
    <3>1. /\ i + 1 \in 1..Len(q) /\ q[i + 1] = u[i]
          /\ j + 1 \in 1..Len(q) /\ q[j + 1] = u[j]
      BY <1>1
    <3>2. \A a, b \in 1..Len(q) :
              (/\ q[a].do = "replay" /\ q[b].do = "replay" /\ q[a].to \in OwnKey /\ q[a].to = q[b].to
               /\ Class(q[a].event) = Class(q[b].event))
              => a = b
      BY <1>5 DEF OncePosted
    <3> QED
      BY <3>1, <3>2
  <2> QED
    BY <2>1
<1>6. ASSUME OncePosted(q), t.do = "replay", t.to \in OwnKey, Posted(u, t.to, Class(t.event)) PROVE FALSE
  <2>1. PICK i \in 1..Len(u) : u[i].do = "replay" /\ u[i].to = t.to /\ Class(u[i].event) = Class(t.event)
    BY <1>6 DEF Posted
  <2>2. 1 = i + 1
    <3>1. 1 \in 1..Len(q) /\ q[1] = t /\ i + 1 \in 1..Len(q) /\ q[i + 1] = u[i]
      BY <1>1
    <3>2. \A a, b \in 1..Len(q) :
              (/\ q[a].do = "replay" /\ q[b].do = "replay" /\ q[a].to \in OwnKey /\ q[a].to = q[b].to
               /\ Class(q[a].event) = Class(q[b].event))
              => a = b
      BY <1>6 DEF OncePosted
    <3> QED
      BY <1>6, <2>1, <3>1, <3>2
  <2> QED
    BY <2>2
<1> QED
  BY <1>2, <1>3, <1>4, <1>5, <1>6 DEF u, t

\* The effect of telling a subscriber on what was heard.
LEMMA HeardMore ==
    ASSUME told \in [Subscribers -> Seq(Received)], NEW s \in Subscribers, NEW e \in Received,
           told' = [told EXCEPT ![s] = Append(@, e)]
    PROVE  /\ \A t \in Subscribers : \A k : Heard(told', t, k) => Heard(told, t, k) \/ (t = s /\ k = Class(e))
           /\ OnceHeard(told) /\ (s \in OwnKey => ~Heard(told, s, Class(e))) => OnceHeard(told')
<1>1. ASSUME NEW t \in Subscribers, NEW j \in 1..Len(told'[t])
      PROVE  \/ j \in 1..Len(told[t]) /\ told'[t][j] = told[t][j]
             \/ t = s /\ j = Len(told[t]) + 1 /\ told'[t][j] = e
  BY TellFacts
<1>2. ASSUME NEW t \in Subscribers, NEW k, Heard(told', t, k)
      PROVE  Heard(told, t, k) \/ (t = s /\ k = Class(e))
  <2>1. PICK j \in 1..Len(told'[t]) : Class(told'[t][j]) = k
    BY <1>2 DEF Heard
  <2> QED
    BY <1>1, <2>1 DEF Heard
<1>0. OwnKey \subseteq Subscribers
  BY DEF OwnKey
<1>3. ASSUME OnceHeard(told), s \in OwnKey => ~Heard(told, s, Class(e)) PROVE OnceHeard(told')
  <2> SUFFICES ASSUME NEW t \in OwnKey, NEW i \in 1..Len(told'[t]), NEW j \in 1..Len(told'[t]),
                      Class(told'[t][i]) = Class(told'[t][j])
               PROVE  i = j
    BY DEF OnceHeard
  <2>0. t \in Subscribers
    BY <1>0
  <2>1. CASE i \in 1..Len(told[t]) /\ told'[t][i] = told[t][i] /\ j \in 1..Len(told[t]) /\ told'[t][j] = told[t][j]
    BY <1>3, <2>1 DEF OnceHeard
  <2>2. CASE i \in 1..Len(told[t]) /\ told'[t][i] = told[t][i] /\ t = s /\ told'[t][j] = e
    BY <1>3, <2>2 DEF Heard
  <2>3. CASE j \in 1..Len(told[t]) /\ told'[t][j] = told[t][j] /\ t = s /\ told'[t][i] = e
    BY <1>3, <2>3 DEF Heard
  <2>4. CASE i = Len(told[t]) + 1 /\ j = Len(told[t]) + 1
    BY <2>4
  <2> QED
    BY <1>1, <2>0, <2>1, <2>2, <2>3, <2>4
<1> QED
  BY <1>2, <1>3

LEMMA EntriesSubset ==
    ASSUME NEW E, NEW F, F \subseteq E
    PROVE  /\ \A s, k : InEntries(F, s, k) => InEntries(E, s, k)
           /\ OnceInEntries(E) => OnceInEntries(F)
BY DEF InEntries, OnceInEntries

\* The first event of an entry goes, the others stay.
LEMMA EntriesWithoutFirst ==
    ASSUME TypeInv, main.at = "replay", NEW f \in main.rest, OnceInEntries(main.rest)
    PROVE  /\ InEntries(main.rest, f.owner, Class(Head(f.kept)))
           /\ f.owner \in OwnKey => ~InEntries(WithoutFirst(f), f.owner, Class(Head(f.kept)))
           /\ \A s, k : InEntries(WithoutFirst(f), s, k) => InEntries(main.rest, s, k)
           /\ OnceInEntries(WithoutFirst(f))
<1> DEFINE u == f.kept
           t == Tail(u)
           c == Class(Head(u))
           W == WithoutFirst(f)
           rest == With(f, t)
<1>1. /\ f \in FrozenEntries /\ u # <<>>
      /\ \A g \in W : \/ g \in main.rest /\ g # f
                      \/ t # <<>> /\ g = rest
  BY WithoutFirstFacts
<1>2. u \in Seq(FrozenEvents)
  BY <1>1 DEF FrozenEntries
<1>3. /\ Head(u) = u[1] /\ 1 \in 1..Len(u) /\ t \in Seq(FrozenEvents) /\ Len(t) \in Nat
      /\ \A i \in 1..Len(t) : i + 1 \in 1..Len(u) /\ t[i] = u[i + 1]
  BY <1>1, <1>2, HeadTailFacts
<1>4. rest.owner = f.owner /\ rest.kept = t
  BY <1>1, <1>3, EntryFields
<1>5. /\ f.owner \in OwnKey => OnceInKept(u)
      /\ \A g, h \in main.rest : g.owner \in OwnKey /\ g.owner = h.owner => g = h
      /\ \A g \in main.rest : g.owner \in OwnKey => OnceInKept(g.kept)
  BY DEF OnceInEntries
<1> HIDE DEF u, t, W, rest
<1>6. InEntries(main.rest, f.owner, c)
  BY <1>3 DEF InEntries, u
<1>7. ASSUME NEW s, NEW k, InEntries(W, s, k) PROVE InEntries(main.rest, s, k)
  <2>1. PICK g \in W : g.owner = s /\ \E i \in 1..Len(g.kept) : Class(g.kept[i]) = k
    BY <1>7 DEF InEntries
  <2>2. CASE g \in main.rest
    BY <2>1, <2>2 DEF InEntries
  <2>3. CASE g = rest
    <3>1. PICK i \in 1..Len(t) : Class(t[i]) = k
      BY <1>4, <2>1, <2>3
    <3>2. i + 1 \in 1..Len(f.kept) /\ Class(f.kept[i + 1]) = k
      BY <1>3, <3>1 DEF u
    <3> QED
      BY <1>4, <2>1, <2>3, <3>2 DEF InEntries
  <2> QED
    BY <1>1, <2>2, <2>3
<1>8. ASSUME InEntries(W, f.owner, c), f.owner \in OwnKey PROVE FALSE
  <2>1. PICK g \in W : g.owner = f.owner /\ \E i \in 1..Len(g.kept) : Class(g.kept[i]) = c
    BY <1>8 DEF InEntries
  <2>2. g = rest
    BY <1>1, <1>5, <1>8, <2>1
  <2>3. PICK i \in 1..Len(t) : Class(t[i]) = c
    BY <1>4, <2>1, <2>2
  <2>4. i + 1 = 1
    BY <1>3, <1>5, <1>8, <2>3 DEF OnceInKept
  <2> QED
    BY <2>4
<1>9. ASSUME f.owner \in OwnKey PROVE OnceInKept(t)
  <2> SUFFICES ASSUME NEW i \in 1..Len(t), NEW j \in 1..Len(t), Class(t[i]) = Class(t[j])
               PROVE  i = j
    BY DEF OnceInKept
  <2>1. i + 1 = j + 1
    BY <1>3, <1>5, <1>9 DEF OnceInKept
  <2> QED
    BY <2>1
<1>10. OnceInEntries(W)
  <2>1. \A g \in W : g.owner \in OwnKey /\ g.owner = rest.owner => g = rest
    BY <1>1, <1>4, <1>5
  <2>2. \A g, h \in W : g.owner \in OwnKey /\ g.owner = h.owner => g = h
    BY <1>1, <1>5, <2>1
  <2>3. \A g \in W : g.owner \in OwnKey => OnceInKept(g.kept)
    BY <1>1, <1>4, <1>5, <1>9
  <2> QED
    BY <2>2, <2>3 DEF OnceInEntries
<1> QED
  BY <1>6, <1>7, <1>8, <1>10 DEF u, W

\* What is kept when one more event is, and what is dropped.
LEMMA KeptMore ==
    ASSUME NEW kept \in Seq(FrozenEvents), kept # <<>>, NEW e \in FrozenEvents
    PROVE  LET t == Trim(Append(kept, e)) IN
           /\ \A i \in 1..Len(t) : t[i] = e \/ \E j \in 1..Len(kept) : t[i] = kept[j]
           /\ \E i \in 1..Len(t) : t[i] = e
           /\ \A j \in 1..Len(kept) :
                  \/ \E i \in 1..Len(t) : t[i] = kept[j]
                  \/ e.recordTime - kept[j].recordTime > FREEZE_EVENT_TIMEOUT
           /\ OnceInKept(kept) /\ (\A j \in 1..Len(kept) : Class(kept[j]) # Class(e)) => OnceInKept(t)
<1> DEFINE t == Trim(Append(kept, e))
           n == Len(kept)
<1>1. n \in Nat /\ n > 0
  OBVIOUS
<1>2. /\ t \in Seq(FrozenEvents)
      /\ \/ t = Append(kept, e)
         \/ /\ t = Tail(Append(kept, e)) /\ Len(t) = n
            /\ (\A i \in 1..n - 1 : t[i] = kept[i + 1]) /\ t[n] = e
            /\ e.recordTime - kept[1].recordTime > FREEZE_EVENT_TIMEOUT
  BY TrimFacts
<1> HIDE DEF t
<1>3. CASE t = Append(kept, e)
  <2>1. /\ t[n + 1] = e /\ n + 1 \in 1..Len(t) /\ \A i \in 1..n : t[i] = kept[i] /\ i \in 1..Len(t)
        /\ \A i \in 1..Len(t) : i \in 1..n \/ i = n + 1
    BY <1>3, AppendFacts
  <2> HIDE DEF n
  <2>2. ASSUME OnceInKept(kept), \A j \in 1..n : Class(kept[j]) # Class(e) PROVE OnceInKept(t)
    <3> SUFFICES ASSUME NEW i \in 1..Len(t), NEW j \in 1..Len(t), Class(t[i]) = Class(t[j])
                 PROVE  i = j
      BY DEF OnceInKept
    <3>1. CASE i \in 1..n /\ j \in 1..n
      BY <2>1, <2>2, <3>1 DEF OnceInKept, n
    <3>2. CASE i = n + 1 \/ j = n + 1
      BY <2>1, <2>2, <3>2
    <3> QED
      BY <2>1, <3>1, <3>2
  <2> QED
    BY <2>1, <2>2 DEF t, n
<1>4. CASE /\ Len(t) = n /\ (\A i \in 1..n - 1 : t[i] = kept[i + 1]) /\ t[n] = e
           /\ e.recordTime - kept[1].recordTime > FREEZE_EVENT_TIMEOUT
  <2> HIDE DEF n
  <2>1. /\ t[n] = e /\ n \in 1..Len(t)
        /\ \A i \in 1..Len(t) : i = n \/ (i + 1 \in 1..n /\ t[i] = kept[i + 1])
    BY <1>1, <1>4
  <2>2. ASSUME NEW j \in 1..n, j # 1 PROVE \E i \in 1..Len(t) : t[i] = kept[j]
    <3>1. j - 1 \in 1..n - 1 /\ (j - 1) + 1 = j /\ j - 1 \in 1..Len(t)
      BY <1>1, <1>4, <2>2
    <3>2. t[j - 1] = kept[j]
      BY <1>4, <3>1
    <3> QED
      BY <3>1, <3>2
  <2>3. ASSUME OnceInKept(kept), \A j \in 1..n : Class(kept[j]) # Class(e) PROVE OnceInKept(t)
    <3> SUFFICES ASSUME NEW i \in 1..Len(t), NEW j \in 1..Len(t), Class(t[i]) = Class(t[j])
                 PROVE  i = j
      BY DEF OnceInKept
    <3>1. CASE i = n \/ j = n
      BY <2>1, <2>3, <3>1
    <3>2. CASE i # n /\ j # n
      <4>1. i + 1 = j + 1
        BY <2>1, <2>3, <3>2 DEF OnceInKept, n
      <4> QED
        BY <1>4, <4>1
    <3> QED
      BY <3>1, <3>2
  <2>4. \A i \in 1..Len(t) : t[i] = e \/ \E j \in 1..n : t[i] = kept[j]
    BY <2>1
  <2>5. \A j \in 1..n : (\E i \in 1..Len(t) : t[i] = kept[j])
                        \/ e.recordTime - kept[j].recordTime > FREEZE_EVENT_TIMEOUT
    BY <1>4, <2>2
  <2> QED
    BY <2>1, <2>3, <2>4, <2>5 DEF t, n
<1> QED
  BY <1>2, <1>3, <1>4

\* The effect of keeping an event on the entries.
LEMMA EntriesWith ==
    ASSUME frozenEvents \subseteq FrozenEntries, Filled(frozenEvents),
           OnceInEntries(frozenEvents), NEW s \in Subscribers, NEW e \in FrozenEvents,
           InsertFrozenEvents(s, e)
    PROVE  /\ \A t \in OwnKey : \A k : InEntries(frozenEvents', t, k) =>
                  InEntries(frozenEvents, t, k) \/ (t = s /\ k = Class(e))
           /\ (s \in OwnKey => ~InEntries(frozenEvents, s, Class(e))) => OnceInEntries(frozenEvents')
<1>1. ASSUME s \in OwnKey PROVE \A f \in frozenEvents : f \in EntryOf(s) <=> f.owner = s
  BY <1>1 DEF EntryOf, OwnKey, SameKey, FrozenEntries
<1>2. EntryOf(s) \subseteq frozenEvents
  BY DEF EntryOf
<1>3. CASE s \in OwnKey /\ EntryOf(s) = {}
  <2> DEFINE new == [owner |-> s, kept |-> <<e>>]
  <2>1. frozenEvents' = frozenEvents \cup {new}
    BY <1>3, InsertFrozenFacts
  <2>2. new.owner = s /\ Len(new.kept) = 1 /\ new.kept[1] = e
    OBVIOUS
  <2> HIDE DEF new
  <2>3. \A i \in 1..Len(new.kept) : i = 1
    BY <2>2
  <2>4. \A f \in frozenEvents : f.owner # s
    BY <1>1, <1>3
  <2>5. OnceInKept(new.kept)
    BY <2>3 DEF OnceInKept
  <2>6. OnceInEntries(frozenEvents')
    BY <2>1, <2>2, <2>4, <2>5 DEF OnceInEntries
  <2>7. ASSUME NEW t, NEW k, InEntries(frozenEvents', t, k)
        PROVE  InEntries(frozenEvents, t, k) \/ (t = s /\ k = Class(e))
    <3>1. PICK f \in frozenEvents' : f.owner = t /\ \E i \in 1..Len(f.kept) : Class(f.kept[i]) = k
      BY <2>7 DEF InEntries
    <3>2. CASE f = new
      BY <2>2, <2>3, <3>1, <3>2
    <3>3. CASE f \in frozenEvents
      BY <3>1, <3>3 DEF InEntries
    <3> QED
      BY <2>1, <3>2, <3>3
  <2> QED
    BY <2>6, <2>7
<1>4. CASE s \in OwnKey /\ EntryOf(s) # {}
  <2>1. PICK f \in frozenEvents : f \in EntryOf(s)
    BY <1>2, <1>4
  <2>2. f.owner = s /\ f \in FrozenEntries /\ f.kept \in Seq(FrozenEvents) /\ f.kept # <<>>
    BY <1>1, <1>4, <2>1 DEF FrozenEntries, Filled
  <2>3. EntryOf(s) = {f}
    BY <1>1, <1>2, <1>4, <2>1, <2>2 DEF OnceInEntries
  <2> DEFINE t == Trim(Append(f.kept, e))
             new == With(f, t)
  <2>4. frozenEvents' = (frozenEvents \ {f}) \cup {new}
    <3>1. frozenEvents' = (frozenEvents \ EntryOf(s))
                          \cup {With(g, Trim(Append(g.kept, e))) : g \in EntryOf(s)}
      BY <1>4, InsertFrozenFacts
    <3> QED
      BY <2>3, <3>1
  <2>5. /\ t \in Seq(FrozenEvents)
        /\ \A i \in 1..Len(t) : t[i] = e \/ \E j \in 1..Len(f.kept) : t[i] = f.kept[j]
        /\ OnceInKept(f.kept) /\ (\A j \in 1..Len(f.kept) : Class(f.kept[j]) # Class(e)) => OnceInKept(t)
    BY <2>2, KeptMore, TrimFacts
  <2> HIDE DEF t
  <2>6. new.owner = s /\ new.kept = t
    BY <2>2, <2>5, EntryFields
  <2> HIDE DEF new
  <2>7. \A g \in frozenEvents : g.owner = s => g = f
    BY <1>4, <2>2 DEF OnceInEntries
  <2>8. ASSUME ~InEntries(frozenEvents, s, Class(e)) PROVE OnceInEntries(frozenEvents')
    <3>1. \A j \in 1..Len(f.kept) : Class(f.kept[j]) # Class(e)
      BY <2>2, <2>8 DEF InEntries
    <3>2. OnceInKept(f.kept)
      BY <1>4, <2>2 DEF OnceInEntries
    <3>3. OnceInKept(t)
      BY <2>5, <3>1, <3>2
    <3>4. \A g, h \in frozenEvents' : g.owner \in OwnKey /\ g.owner = h.owner => g = h
      BY <2>4, <2>6, <2>7 DEF OnceInEntries
    <3>5. \A g \in frozenEvents' : g.owner \in OwnKey => OnceInKept(g.kept)
      BY <2>4, <2>6, <3>3 DEF OnceInEntries
    <3> QED
      BY <3>4, <3>5 DEF OnceInEntries
  <2>9. ASSUME NEW u, NEW k, InEntries(frozenEvents', u, k)
        PROVE  InEntries(frozenEvents, u, k) \/ (u = s /\ k = Class(e))
    <3>1. PICK g \in frozenEvents' : g.owner = u /\ \E i \in 1..Len(g.kept) : Class(g.kept[i]) = k
      BY <2>9 DEF InEntries
    <3>2. CASE g \in frozenEvents
      BY <3>1, <3>2 DEF InEntries
    <3>3. CASE g = new
      <4>1. PICK i \in 1..Len(t) : Class(t[i]) = k
        BY <2>6, <3>1, <3>3
      <4>2. CASE t[i] = e
        BY <2>6, <3>1, <3>3, <4>1, <4>2
      <4>3. CASE \E j \in 1..Len(f.kept) : t[i] = f.kept[j]
        BY <2>2, <2>6, <3>1, <3>3, <4>1, <4>3 DEF InEntries
      <4> QED
        BY <2>5, <4>2, <4>3
    <3> QED
      BY <2>4, <3>2, <3>3
  <2> QED
    BY <1>4, <2>8, <2>9
<1>5. CASE s \notin OwnKey
  <2>1. ASSUME NEW g \in frozenEvents', g.owner \in OwnKey PROVE g \in frozenEvents
    <3> SUFFICES ASSUME g \notin frozenEvents PROVE FALSE
      OBVIOUS
    <3>1. \/ g = [owner |-> s, kept |-> <<e>>]
          \/ \E f \in EntryOf(s) : g = With(f, Trim(Append(f.kept, e)))
      BY InsertFrozenFacts
    <3>2. CASE g = [owner |-> s, kept |-> <<e>>]
      BY <1>5, <2>1, <3>2
    <3>3. CASE \E f \in EntryOf(s) : g = With(f, Trim(Append(f.kept, e)))
      <4>1. PICK f \in EntryOf(s) : g = With(f, Trim(Append(f.kept, e)))
        BY <3>3
      <4>2. f \in FrozenEntries /\ f.kept \in Seq(FrozenEvents) /\ f.kept # <<>>
        BY <1>2 DEF FrozenEntries, Filled
      <4>3. Trim(Append(f.kept, e)) \in Seq(FrozenEvents)
        BY <4>2, TrimFacts
      <4>4. g.owner = f.owner
        BY <4>1, <4>2, <4>3, EntryFields
      <4>5. SameKey(s, f.owner)
        BY DEF EntryOf, SameKey
      <4> QED
        BY <1>5, <2>1, <4>4, <4>5 DEF OwnKey
    <3> QED
      BY <3>1, <3>2, <3>3
  <2>2. OnceInEntries(frozenEvents')
    BY <2>1 DEF OnceInEntries
  <2>3. ASSUME NEW t \in OwnKey, NEW k, InEntries(frozenEvents', t, k) PROVE InEntries(frozenEvents, t, k)
    BY <2>1, <2>3 DEF InEntries
  <2> QED
    BY <2>2, <2>3
<1> QED
  BY <1>3, <1>4, <1>5

LEMMA EventInvInit == Init => EventInv
<1> SUFFICES ASSUME Init PROVE EventInv
  OBVIOUS
<1>1. /\ low = <<>> /\ immediate = <<>> /\ frozenEvents = {} /\ main.at = "idle"
      /\ told = [s \in Subscribers |-> <<>>]
  BY DEF Init, RegistryInit, Idle
<1>2. Len(low) = 0 /\ Len(immediate) = 0 /\ \A s \in OwnKey : Len(told[s]) = 0
  BY <1>1 DEF OwnKey
<1>3. OnlyNotifies(low) /\ OncePosted(immediate) /\ OnceHeard(told)
  BY <1>2 DEF OnlyNotifies, OncePosted, OnceHeard
<1>4. OnceInEntries(frozenEvents) /\ OnceInHand(main)
  BY <1>1 DEF OnceInEntries, OnceInHand
<1>5. \A s \in OwnKey, k \in Classes : ~Later(frozenEvents, main, immediate, told, s, k)
  BY <1>1, <1>2 DEF Later, InEntries, InHand, Posted, Heard
<1> QED
  BY <1>3, <1>4, <1>5 DEF EventInv, ApartLater, Later

\* When no event is new and none has moved.
LEMMA EventsKept ==
    ASSUME EventInv, OnlyNotifies(low'), told' = told, frozenEvents' \subseteq frozenEvents,
           main' = main \/ main'.at # "replay",
           OncePosted(immediate'), \A s, k : Posted(immediate', s, k) => Posted(immediate, s, k),
           \A s, k : Processed(done, worker, s, k) => Processed(done', worker', s, k)
    PROVE  EventInv'
<1>1. /\ \A s, k : InEntries(frozenEvents', s, k) => InEntries(frozenEvents, s, k)
      /\ OnceInEntries(frozenEvents')
  BY EntriesSubset DEF EventInv
<1>2. OnceInHand(main') /\ \A s, k : InHand(main', s, k) => InHand(main, s, k)
  BY DEF EventInv, OnceInHand, InHand
<1>3. ASSUME NEW s \in OwnKey, NEW k \in Classes
      PROVE  /\ ApartLater(frozenEvents', main', immediate', told', s, k)
             /\ Later(frozenEvents', main', immediate', told', s, k) => Processed(done', worker', s, k)
  <2>1. /\ ApartLater(frozenEvents, main, immediate, told, s, k)
        /\ Later(frozenEvents, main, immediate, told, s, k) => Processed(done, worker, s, k)
    BY DEF EventInv
  <2>2. Heard(told', s, k) <=> Heard(told, s, k)
    OBVIOUS
  <2> QED
    BY <1>1, <1>2, <2>1, <2>2 DEF ApartLater, Later
<1> QED
  BY <1>1, <1>2, <1>3 DEF EventInv

\* PublishFreezeCommonEvent takes the entries of a uid into its hands.
LEMMA EventsCollect == ASSUME EventInv, CollectFrozenEvents PROVE EventInv'
<1> DEFINE F == FrozenEventsOf(main.uid)
<1>1. /\ main.at = "collect" /\ frozenEvents' = frozenEvents \ F
      /\ main' = IF F = {} THEN Idle ELSE [at |-> "replay", rest |-> F]
      /\ UNCHANGED <<low, immediate, told, done, worker>>
  BY DEF CollectFrozenEvents, GetFrozenEvents, queueVars, ghostVars
<1>2. F \subseteq frozenEvents
  BY DEF FrozenEventsOf
<1> HIDE DEF F
<1>3. /\ OnceInEntries(frozenEvents) /\ OnceInEntries(F) /\ OnceInEntries(frozenEvents')
      /\ \A s, k : InEntries(F, s, k) => InEntries(frozenEvents, s, k)
      /\ \A s, k : InEntries(frozenEvents', s, k) => InEntries(frozenEvents, s, k)
  BY <1>1, <1>2, EntriesSubset DEF EventInv
<1>4. \A s \in OwnKey : \A k : InEntries(frozenEvents', s, k) => ~InEntries(F, s, k)
  <2> SUFFICES ASSUME NEW s \in OwnKey, NEW k, InEntries(frozenEvents', s, k), InEntries(F, s, k) PROVE FALSE
    OBVIOUS
  <2>1. PICK f \in frozenEvents' : f.owner = s
    BY DEF InEntries
  <2>2. PICK g \in F : g.owner = s
    BY DEF InEntries
  <2> QED
    BY <1>1, <1>2, <1>3, <2>1, <2>2 DEF OnceInEntries
<1>5. OnceInHand(main') /\ \A s, k : InHand(main', s, k) => InEntries(F, s, k)
  BY <1>1, <1>3 DEF OnceInHand, InHand, Idle
<1>6. \A s, k : ~InHand(main, s, k)
  BY <1>1 DEF InHand
<1>7. ASSUME NEW s \in OwnKey, NEW k \in Classes
      PROVE  /\ ApartLater(frozenEvents', main', immediate', told', s, k)
             /\ Later(frozenEvents', main', immediate', told', s, k) => Processed(done', worker', s, k)
  <2>1. /\ ApartLater(frozenEvents, main, immediate, told, s, k)
        /\ Later(frozenEvents, main, immediate, told, s, k) => Processed(done, worker, s, k)
    BY DEF EventInv
  <2> QED
    BY <1>1, <1>3, <1>4, <1>5, <2>1 DEF ApartLater, Later
<1> QED
  BY <1>1, <1>3, <1>5, <1>7 DEF EventInv

\* What PostReplay posts, and what stays in main's hands.
LEMMA PostFacts ==
    ASSUME TypeInv, PostReplay
    PROVE  \E f \in main.rest, task \in Tasks :
               /\ main.at = "replay" /\ f \in FrozenEntries /\ f.kept # <<>> /\ NextEntry(f)
               /\ task.do = "replay" /\ task.to = f.owner /\ task.event = Head(f.kept)
               /\ task.event \in FrozenEvents /\ task.listener = (f.owner \in listening)
               /\ immediate' = Append(immediate, task)
               /\ \/ main'.at = "idle" /\ WithoutFirst(f) = {}
                  \/ main'.at = "replay" /\ main'.rest = WithoutFirst(f)
<1>1. main.at = "replay"
  BY DEF PostReplay
<1>2. PICK f \in main.rest :
           /\ NextEntry(f)
           /\ immediate' = Append(immediate, [do |-> "replay", to |-> f.owner, event |-> Head(f.kept),
                                              listener |-> f.owner \in listening])
           /\ main' = IF WithoutFirst(f) = {} THEN Idle ELSE [main EXCEPT !.rest = WithoutFirst(f)]
  BY DEF PostReplay
<1>3. f \in FrozenEntries /\ f.kept # <<>>
  BY <1>1, WithoutFirstFacts
<1> DEFINE task == [do |-> "replay", to |-> f.owner, event |-> Head(f.kept),
                    listener |-> f.owner \in listening]
           rest == WithoutFirst(f)
<1>4. f.owner \in Subscribers /\ Head(f.kept) \in FrozenEvents
  <2>1. f.owner \in Subscribers /\ f.kept \in Seq(FrozenEvents)
    BY <1>3 DEF FrozenEntries
  <2> QED
    BY <1>3, <2>1, HeadTailFacts
<1>5. /\ task \in Tasks /\ task.do = "replay" /\ task.to = f.owner /\ task.event = Head(f.kept)
      /\ task.listener = (f.owner \in listening)
  <2>1. (f.owner \in listening) \in BOOLEAN
    OBVIOUS
  <2> QED
    BY <1>4, <2>1, TaskTypes
<1> HIDE DEF task
<1>6. \/ main'.at = "idle" /\ rest = {}
      \/ main'.at = "replay" /\ main'.rest = rest
  <2>1. main = [at |-> "replay", rest |-> main.rest]
    BY <1>1, TypeParts, MainFields DEF MainType
  <2> HIDE DEF rest
  <2>2. [main EXCEPT !.rest = rest] = [at |-> "replay", rest |-> rest]
    BY <2>1
  <2>3. CASE rest = {}
    BY <1>2, <2>3 DEF Idle, rest
  <2>4. CASE rest # {}
    <3>1. main' = [at |-> "replay", rest |-> rest]
      BY <1>2, <2>2, <2>4 DEF rest
    <3> QED
      BY <3>1
  <2> QED
    BY <2>3, <2>4
<1> HIDE DEF rest
<1>7. immediate' = Append(immediate, task)
  BY <1>2 DEF task
<1> QED
  BY <1>1, <1>2, <1>3, <1>4, <1>5, <1>6, <1>7 DEF rest

\* The first event in hand is posted.
LEMMA EventsPostReplay == ASSUME TypeInv, EventInv, PostReplay PROVE EventInv'
<1>1. PICK f \in main.rest, task \in Tasks :
               /\ main.at = "replay" /\ f \in FrozenEntries /\ f.kept # <<>>
               /\ task.do = "replay" /\ task.to = f.owner /\ task.event = Head(f.kept)
               /\ task.event \in FrozenEvents
               /\ immediate' = Append(immediate, task)
               /\ \/ main'.at = "idle" /\ WithoutFirst(f) = {}
                  \/ main'.at = "replay" /\ main'.rest = WithoutFirst(f)
  BY PostFacts
<1>2. UNCHANGED <<frozenEvents, low, told, done, worker>>
  BY DEF PostReplay, registryVars, ghostVars
<1> DEFINE o == f.owner
           c == Class(task.event)
<1>3. /\ InEntries(main.rest, o, c) /\ (o \in OwnKey => ~InEntries(WithoutFirst(f), o, c))
      /\ \A s, k : InEntries(WithoutFirst(f), s, k) => InEntries(main.rest, s, k)
      /\ OnceInEntries(WithoutFirst(f))
  <2>1. OnceInEntries(main.rest)
    BY <1>1 DEF EventInv, OnceInHand
  <2> QED
    BY <1>1, <2>1, EntriesWithoutFirst
<1>4. o \in Subscribers /\ c \in Classes
  BY <1>1, EventClass DEF FrozenEntries
<1> HIDE DEF o, c
<1>5. /\ \A s, k : InHand(main', s, k) => InHand(main, s, k) /\ ~(o \in OwnKey /\ s = o /\ k = c)
      /\ InHand(main, o, c) /\ OnceInHand(main')
  BY <1>1, <1>3 DEF InHand, OnceInHand
<1>6. /\ \A s, k : Posted(immediate', s, k) => Posted(immediate, s, k) \/ (s = o /\ k = c)
      /\ OncePosted(immediate')
  <2>1. immediate \in Seq(Tasks)
    BY TypeParts DEF QueueTypes
  <2>2. o \in OwnKey => ~Posted(immediate, o, c)
    BY <1>4, <1>5 DEF EventInv, ApartLater
  <2>3. OncePosted(immediate)
    BY DEF EventInv
  <2> QED
    BY <1>1, <2>1, <2>2, <2>3, PostedAppend DEF o, c
<1>7. ASSUME NEW s \in OwnKey, NEW k \in Classes
      PROVE  /\ ApartLater(frozenEvents', main', immediate', told', s, k)
             /\ Later(frozenEvents', main', immediate', told', s, k) => Processed(done', worker', s, k)
  <2>1. /\ ApartLater(frozenEvents, main, immediate, told, s, k)
        /\ Later(frozenEvents, main, immediate, told, s, k) => Processed(done, worker, s, k)
    BY DEF EventInv
  <2>2. CASE s = o /\ k = c
    BY <1>2, <1>5, <1>6, <2>1, <2>2 DEF ApartLater, Later
  <2>3. CASE ~(s = o /\ k = c)
    BY <1>2, <1>5, <1>6, <2>1, <2>3 DEF ApartLater, Later
  <2> QED
    BY <2>2, <2>3
<1> QED
  BY <1>2, <1>5, <1>6, <1>7 DEF EventInv

\* A posted event is heard, or may not be; it is no longer posted.
LEMMA EventsReplayed ==
    ASSUME TypeInv, EventInv, immediate # <<>>, NotifyFreezeEvents(Head(immediate)),
           immediate' = Tail(immediate), UNCHANGED <<frozenEvents, main, low, done>>
    PROVE  EventInv'
<1> DEFINE task == Head(immediate)
           s == task.to
           c == Class(task.event)
<1>1. immediate \in Seq(Tasks) /\ told \in [Subscribers -> Seq(Received)] /\ OncePosted(immediate)
  BY TypeParts DEF QueueTypes, ToldType, EventInv
<1>2. /\ task \in Tasks /\ task.do = "replay" /\ worker' = worker
      /\ s \in Subscribers /\ task.event \in FrozenEvents
  <2>1. task \in Tasks
    BY <1>1, HeadTailFacts
  <2> QED
    BY <2>1, TaskFields DEF NotifyFreezeEvents
<1>3. /\ \A t, k : Posted(immediate', t, k) => Posted(immediate, t, k)
      /\ Posted(immediate, s, c) /\ (s \in OwnKey => ~Posted(immediate', s, c)) /\ OncePosted(immediate')
  BY <1>1, <1>2, PostedTail
<1> DEFINE e == [pub |-> task.event.pub, as |-> task.event.as, action |-> action[task.event.pub],
                 replayed |-> TRUE]
<1>4. e \in Received /\ Class(e) = c
  <2>1. action[task.event.pub] \in Names
    BY <1>2, EventFields, TypeParts DEF StoreTypes
  <2> QED
    BY <1>2, <2>1, EventFields DEF Received, Class
<1>5. told' = told \/ told' = [told EXCEPT ![s] = Append(@, e)]
  BY DEF NotifyFreezeEvents, Tell
<1>6. c \in Classes
  BY <1>2, EventClass
<1> HIDE DEF s, c, e, task
<1>7. s \in OwnKey => ~Heard(told, s, c)
  BY <1>2, <1>3, <1>6 DEF EventInv, ApartLater
<1>8. /\ \A t \in Subscribers : \A k : Heard(told', t, k) => Heard(told, t, k) \/ (t = s /\ k = c)
      /\ OnceHeard(told')
  <2>1. OnceHeard(told)
    BY DEF EventInv
  <2>2. CASE told' = told
    BY <2>1, <2>2
  <2>3. CASE told' = [told EXCEPT ![s] = Append(@, e)]
    BY <1>1, <1>2, <1>4, <1>7, <2>1, <2>3, HeardMore
  <2> QED
    BY <1>5, <2>2, <2>3
<1>9. ASSUME NEW t \in OwnKey, NEW k \in Classes
      PROVE  /\ ApartLater(frozenEvents', main', immediate', told', t, k)
             /\ Later(frozenEvents', main', immediate', told', t, k) => Processed(done', worker', t, k)
  <2>0. t \in Subscribers
    BY DEF OwnKey
  <2>1. /\ ApartLater(frozenEvents, main, immediate, told, t, k)
        /\ Later(frozenEvents, main, immediate, told, t, k) => Processed(done, worker, t, k)
    BY DEF EventInv
  <2>2. CASE t = s /\ k = c
    BY <1>2, <1>3, <1>8, <2>1, <2>2 DEF ApartLater, Later
  <2>3. CASE ~(t = s /\ k = c)
    BY <1>2, <1>3, <1>8, <2>0, <2>1, <2>3 DEF ApartLater, Later
  <2> QED
    BY <2>2, <2>3
<1> QED
  BY <1>3, <1>8, <1>9 DEF EventInv

\* A receiver is told directly: nothing was kept for it or heard by it before.
LEMMA EventsDelivered ==
    ASSUME TypeInv, RecordInv, EventInv, HasReceiver, worker' = Delivered("DELIVERED"),
           Tell(Receiver, worker.record, FALSE),
           UNCHANGED <<frozenEvents, main, immediate, low, done>>
    PROVE  EventInv'
<1> DEFINE w == worker.record
           R == Receiver
           c == Class(w)
           e == [pub |-> w.pub, as |-> w.as, action |-> action[w.pub], replayed |-> FALSE]
<1>1. w \in EventRecords /\ R \in Subscribers
  BY ReceiverFacts
<1>2. /\ Remaining(worker, R, c) /\ c \in Classes
      /\ \A s, k : Passed(worker', s, k) <=> Passed(worker, s, k) \/ (s = R /\ k = c)
  BY MovedOn DEF Deliveries
<1>3. told \in [Subscribers -> Seq(Received)]
  BY TypeParts DEF ToldType
<1>4. e \in Received /\ Class(e) = c
  <2>1. action[w.pub] \in Names
    BY <1>1, RecordFields, TypeParts DEF StoreTypes
  <2> QED
    BY <1>1, <2>1, RecordFields DEF Received, Class
<1>5. told' = [told EXCEPT ![R] = Append(@, e)]
  BY DEF Tell
<1> HIDE DEF w, R, c, e
<1>6. ~Processed(done, worker, R, c)
  BY <1>1, <1>2 DEF RecordInv, Apart
<1>7. R \in OwnKey => ~Later(frozenEvents, main, immediate, told, R, c)
  BY <1>1, <1>2, <1>6 DEF EventInv
<1>8. /\ \A t \in Subscribers : \A k : Heard(told', t, k) => Heard(told, t, k) \/ (t = R /\ k = c)
      /\ OnceHeard(told')
  <2>1. OnceHeard(told) /\ (R \in OwnKey => ~Heard(told, R, c))
    BY <1>7 DEF EventInv, Later
  <2> QED
    BY <1>1, <1>3, <1>4, <1>5, <2>1, HeardMore
<1>9. ASSUME NEW t \in OwnKey, NEW k \in Classes
      PROVE  /\ ApartLater(frozenEvents', main', immediate', told', t, k)
             /\ Later(frozenEvents', main', immediate', told', t, k) => Processed(done', worker', t, k)
  <2>0. t \in Subscribers
    BY DEF OwnKey
  <2>1. /\ ApartLater(frozenEvents, main, immediate, told, t, k)
        /\ Later(frozenEvents, main, immediate, told, t, k) => Processed(done, worker, t, k)
    BY DEF EventInv
  <2>2. CASE t = R /\ k = c
    BY <1>2, <1>7, <2>2 DEF ApartLater, Later, Processed
  <2>3. CASE ~(t = R /\ k = c)
    BY <1>2, <1>8, <2>0, <2>1, <2>3 DEF ApartLater, Later, Processed
  <2> QED
    BY <2>2, <2>3
<1>10. OnlyNotifies(low') /\ OnceInEntries(frozenEvents') /\ OnceInHand(main') /\ OncePosted(immediate')
  BY DEF EventInv
<1> QED
  BY <1>8, <1>9, <1>10 DEF EventInv

\* An event is kept for a frozen receiver: none of its class was before.
LEMMA EventsKeep ==
    ASSUME TypeInv, RecordInv, EventInv, KeepFrozenEvent
    PROVE  EventInv'
<1> DEFINE R == Receiver
           c == Class(worker.record)
           e == KeptEvent
<1>1. /\ e \in FrozenEvents /\ InsertFrozenEvents(R, e) /\ worker' = Delivered("SKIPPED")
      /\ UNCHANGED <<main, immediate, low, done, told>>
  BY KeepFacts DEF queueVars
<1>2. R \in Subscribers
  BY ReceiverFacts DEF KeepFrozenEvent
<1>3. /\ Remaining(worker, R, c) /\ c \in Classes
      /\ \A s, k : Passed(worker', s, k) <=> Passed(worker, s, k) \/ (s = R /\ k = c)
  BY <1>1, MovedOn DEF KeepFrozenEvent, Deliveries
<1>4. Class(e) = c
  BY DEF Class, KeptEvent
<1> HIDE DEF R, c, e
<1>5. ~Processed(done, worker, R, c)
  BY <1>2, <1>3 DEF RecordInv, Apart
<1>6. R \in OwnKey => ~Later(frozenEvents, main, immediate, told, R, c)
  BY <1>2, <1>3, <1>5 DEF EventInv
<1>7. /\ \A t \in OwnKey : \A k : InEntries(frozenEvents', t, k) => InEntries(frozenEvents, t, k) \/ (t = R /\ k = c)
      /\ OnceInEntries(frozenEvents')
  <2>1. /\ frozenEvents \subseteq FrozenEntries /\ Filled(frozenEvents) /\ OnceInEntries(frozenEvents)
        /\ R \in OwnKey => ~InEntries(frozenEvents, R, c)
    BY <1>6, TypeParts DEF RegistryTypes, EventInv, Later
  <2> QED
    BY <1>1, <1>2, <1>4, <2>1, EntriesWith
<1>8. ASSUME NEW t \in OwnKey, NEW k \in Classes
      PROVE  /\ ApartLater(frozenEvents', main', immediate', told', t, k)
             /\ Later(frozenEvents', main', immediate', told', t, k) => Processed(done', worker', t, k)
  <2>1. /\ ApartLater(frozenEvents, main, immediate, told, t, k)
        /\ Later(frozenEvents, main, immediate, told, t, k) => Processed(done, worker, t, k)
    BY DEF EventInv
  <2>2. CASE t = R /\ k = c
    BY <1>1, <1>3, <1>6, <2>2 DEF ApartLater, Later, Processed
  <2>3. CASE ~(t = R /\ k = c)
    BY <1>1, <1>3, <1>7, <2>1, <2>3 DEF ApartLater, Later, Processed
  <2> QED
    BY <2>2, <2>3
<1>9. OnlyNotifies(low') /\ OnceInHand(main') /\ OncePosted(immediate') /\ OnceHeard(told')
  BY <1>1 DEF EventInv
<1> QED
  BY <1>7, <1>8, <1>9 DEF EventInv

\* A subscriber that goes leaves no event that was not there.
LEMMA FrozenAfterRemove ==
    ASSUME NEW s, RemoveSubscriber(s)
    PROVE  frozenEvents' \subseteq frozenEvents
BY DEF RemoveSubscriber, RemoveFrozenEventsBySubscriber, registryVars

\* What is enqueued is a task to notify.
LEMMA EventsEnqueue == ASSUME TypeInv, EventInv, EnqueueUnorderedRecord PROVE EventInv'
<1> DEFINE task == [do |-> "notify", record |-> main.record]
<1>1. main.at = "enqueue" /\ main.record \in EventRecords
  BY TypeParts, MainFields DEF EnqueueUnorderedRecord, MainType
<1>2. task \in Tasks /\ task.do = "notify"
  BY <1>1, TaskTypes
<1>3. \/ immediate' = Append(immediate, task) /\ low' = low
      \/ low' = Append(low, task) /\ immediate' = immediate
  BY DEF EnqueueUnorderedRecord
<1>4. main'.at # "replay" /\ UNCHANGED <<frozenEvents, told, worker, done>>
  BY DEF EnqueueUnorderedRecord, Enqueueing, Idle, registryVars, ghostVars
<1> HIDE DEF task
<1>5. immediate \in Seq(Tasks) /\ low \in Seq(Tasks) /\ OnlyNotifies(low) /\ OncePosted(immediate)
  BY TypeParts DEF QueueTypes, EventInv
<1>6. OncePosted(immediate') /\ \A s, k : Posted(immediate', s, k) => Posted(immediate, s, k)
  BY <1>2, <1>3, <1>5, PostedAppend
<1>7. OnlyNotifies(low')
  <2>1. CASE low' = low
    BY <1>5, <2>1
  <2>2. CASE low' = Append(low, task)
    <3>1. \A i \in 1..Len(low') : low'[i] = task \/ (i \in 1..Len(low) /\ low'[i] = low[i])
      BY <1>2, <1>5, <2>2, AppendFacts
    <3> QED
      BY <1>2, <1>5, <3>1 DEF OnlyNotifies
  <2> QED
    BY <1>3, <2>1, <2>2
<1> QED
  BY <1>4, <1>6, <1>7, EventsKept

\* The worker begins with a task.
LEMMA EventsTake == ASSUME TypeInv, EventInv, TakeImmediate \/ TakeLow PROVE EventInv'
<1>1. /\ UNCHANGED <<frozenEvents, main, done>> /\ worker.at = "idle"
      /\ immediate \in Seq(Tasks) /\ low \in Seq(Tasks) /\ OnlyNotifies(low) /\ OncePosted(immediate)
  BY TypeParts DEF TakeImmediate, TakeLow, registryVars, QueueTypes, EventInv
<1>2. \A s, k : ~Passed(worker, s, k)
  BY <1>1 DEF Passed
<1>3. CASE TakeImmediate
  <2>1. immediate # <<>> /\ immediate' = Tail(immediate) /\ low' = low /\ Run(Head(immediate))
    BY <1>3 DEF TakeImmediate
  <2>2. CASE NotifyFreezeEvents(Head(immediate))
    BY <1>1, <2>1, <2>2, EventsReplayed
  <2>3. CASE NotifyBegin(Head(immediate))
    <3>1. OncePosted(immediate') /\ \A s, k : Posted(immediate', s, k) => Posted(immediate, s, k)
      BY <1>1, <2>1, PostedTail
    <3>2. \A s, k : Processed(done, worker, s, k) => Processed(done', worker', s, k)
      BY <1>1, <1>2 DEF Processed
    <3>3. told' = told
      BY <2>3 DEF NotifyBegin
    <3> QED
      BY <1>1, <2>1, <3>1, <3>2, <3>3, EventsKept
  <2> QED
    BY <2>1, <2>2, <2>3 DEF Run
<1>4. CASE TakeLow
  <2>1. low # <<>> /\ low' = Tail(low) /\ immediate' = immediate /\ Run(Head(low))
    BY <1>4 DEF TakeLow
  <2>2. /\ Head(low) = low[1] /\ 1 \in 1..Len(low)
        /\ \A i \in 1..Len(low') : i + 1 \in 1..Len(low) /\ low'[i] = low[i + 1]
    BY <1>1, <2>1, HeadTailFacts
  <2>3. OnlyNotifies(low') /\ Head(low).do = "notify"
    BY <1>1, <2>2 DEF OnlyNotifies
  <2>4. told' = told
    BY <2>1, <2>3 DEF Run, NotifyBegin, NotifyFreezeEvents
  <2>5. \A s, k : Processed(done, worker, s, k) => Processed(done', worker', s, k)
    BY <1>1, <1>2 DEF Processed
  <2> QED
    BY <1>1, <2>1, <2>3, <2>4, <2>5, EventsKept
<1> QED
  BY <1>3, <1>4

LEMMA EventInvNext ==
    ASSUME TypeInv, RecordInv, EventInv, [Next]_vars
    PROVE  EventInv'
<1>1. ASSUME UNCHANGED <<low, immediate, told, done, worker>>, frozenEvents' \subseteq frozenEvents,
             main' = main \/ main'.at # "replay"
      PROVE  EventInv'
  <2>1. OncePosted(immediate') /\ OnlyNotifies(low')
    BY <1>1 DEF EventInv
  <2> QED
    BY <1>1, <2>1, EventsKept
<1>2. CASE PublishMapped
  BY <1>1, <1>2 DEF PublishMapped, Enqueueing, registryVars, queueVars, ghostVars
<1>3. CASE EnqueueUnorderedRecord \/ CollectFrozenEvents \/ PostReplay
  BY <1>3, EventsEnqueue, EventsCollect, EventsPostReplay
<1>4. CASE TakeImmediate \/ TakeLow
  BY <1>4, EventsTake
<1>5. CASE NotifyReceiver
  <2>1. HasReceiver /\ UNCHANGED <<frozenEvents, main, immediate, low, done>>
    BY <1>5 DEF NotifyReceiver, registryVars, queueVars
  <2>2. CASE Tell(Receiver, worker.record, FALSE) /\ worker' = Delivered("DELIVERED")
    BY <2>1, <2>2, EventsDelivered
  <2>3. CASE told' = told /\ worker' = Delivered("SKIPPED")
    <3>1. \A s, k : Processed(done, worker, s, k) => Processed(done', worker', s, k)
      BY <2>1, <2>3, MovedOn DEF Processed, Deliveries
    <3>2. OncePosted(immediate') /\ OnlyNotifies(low')
      BY <2>1 DEF EventInv
    <3> QED
      BY <2>1, <2>3, <3>1, <3>2, EventsKept
  <2> QED
    BY <1>5, <2>2, <2>3 DEF NotifyReceiver
<1>6. CASE FindFrozen
  <2>1. \A s, k : Passed(worker', s, k) <=> Passed(worker, s, k)
    <3>1. /\ worker.at # "idle"
          /\ worker = [at |-> worker.at, record |-> worker.record, nextReceiver |-> worker.nextReceiver,
                       deliveryState |-> worker.deliveryState]
      BY <1>6, TypeParts, WorkerFields, ReceiverFacts DEF FindFrozen, WorkerType
    <3>2. worker' = [worker EXCEPT !.at = "keep"]
      BY <1>6 DEF FindFrozen
    <3>3. worker'.record = worker.record /\ worker'.nextReceiver = worker.nextReceiver /\ worker'.at = "keep"
      BY <3>1, <3>2
    <3> QED
      BY <3>1, <3>3 DEF Passed
  <2>2. UNCHANGED <<frozenEvents, main, immediate, low, done, told>>
    BY <1>6 DEF FindFrozen, registryVars, queueVars, ghostVars
  <2>3. OncePosted(immediate') /\ OnlyNotifies(low')
    BY <2>2 DEF EventInv
  <2> QED
    BY <2>1, <2>2, <2>3, EventsKept DEF Processed
<1>7. CASE KeepFrozenEvent
  BY <1>7, EventsKeep
<1>8. CASE NotifyEnd
  <2>1. \A s, k : Processed(done, worker, s, k) => Processed(done', worker', s, k)
    BY <1>8, EndFacts
  <2>2. UNCHANGED <<frozenEvents, main, immediate, low, told>>
    BY <1>8 DEF NotifyEnd, registryVars
  <2>3. OncePosted(immediate') /\ OnlyNotifies(low')
    BY <2>2 DEF EventInv
  <2> QED
    BY <2>1, <2>2, <2>3, EventsKept
<1>9. ASSUME NEW p \in Publications, PublishCommonEvent(p) PROVE EventInv'
  BY <1>1, <1>9 DEF PublishCommonEvent, Enqueueing, registryVars, queueVars
<1>10. ASSUME NEW s \in Subscribers, SubscribeCommonEvent(s) PROVE EventInv'
  BY <1>1, <1>10 DEF SubscribeCommonEvent, InsertSubscriber, Idle, Enqueueing, queueVars
<1>11. ASSUME NEW s \in Subscribers, UnsubscribeCommonEvent(s) \/ SubscriberDied(s) PROVE EventInv'
  BY <1>1, <1>11, FrozenAfterRemove DEF UnsubscribeCommonEvent, SubscriberDied, queueVars, ghostVars
<1>12. ASSUME NEW u \in FreezeUids, Freeze(u) \/ Unfreeze(u) PROVE EventInv'
  BY <1>1, <1>12 DEF Freeze, Unfreeze, UpdateFreezeInfo, queueVars, ghostVars
<1>13. CASE Tick \/ UNCHANGED vars
  BY <1>1, <1>13 DEF Tick, vars, registryVars, queueVars, ghostVars
<1> QED
  BY <1>2, <1>3, <1>4, <1>5, <1>6, <1>7, <1>8, <1>9, <1>10, <1>11, <1>12, <1>13
     DEF Next, MainStep, WorkerStep, Calling

\* s receives a publication at most once under its name and once under the
\* mapped name.
HearsOnce(s) ==
    \A i, j \in DOMAIN told[s] :
        (/\ told[s][i].pub = told[s][j].pub
         /\ (told[s][i].as = "mapped") = (told[s][j].as = "mapped"))
        => i = j

\* A listener with a key of its own in frozenEvents_ receives a publication at
\* most once under its name and once under the mapped name, whatever the others
\* do: neither freezing nor thawing makes a second delivery of it.
THEOREM OwnKeyHearsOnce == Spec => [](\A s \in OwnKey : HearsOnce(s))
<1> DEFINE I == RegistryInv /\ TypeInv /\ RecordInv /\ EventInv
<1>1. Init => I
  BY RegistryInvInit, TypeInvInit, RecordInvInit, EventInvInit
<1>2. I /\ [Next]_vars => I'
  BY RegistryInvNext, TypeInvNext, RecordInvNext, EventInvNext
<1>3. I => \A s \in OwnKey : HearsOnce(s)
  <2> SUFFICES ASSUME I, NEW s \in OwnKey, NEW i \in DOMAIN told[s], NEW j \in DOMAIN told[s],
                      told[s][i].pub = told[s][j].pub,
                      (told[s][i].as = "mapped") = (told[s][j].as = "mapped")
               PROVE  i = j
    BY DEF HearsOnce
  <2>1. DOMAIN told[s] = 1..Len(told[s])
    BY TypeParts DEF ToldType, OwnKey
  <2>2. Class(told[s][i]) = Class(told[s][j])
    BY DEF Class
  <2> QED
    BY <2>1, <2>2 DEF EventInv, OnceHeard
<1> QED
  BY <1>1, <1>2, <1>3, PTL DEF Spec

\* Where every subscriber has a key of its own, every listener receives a
\* publication at most once.
THEOREM ToldOncePerKey ==
    ASSUME OwnKey = Subscribers
    PROVE  Spec => []ToldOnce
<1>1. (\A s \in OwnKey : HearsOnce(s)) => ToldOnce
  BY DEF ToldOnce, HearsOnce
<1> QED
  BY <1>1, OwnKeyHearsOnce, PTL

-----------------------------------------------------------------------------
(* Nobody is forgotten *)

\* What is kept is of a publication, with its time, for somebody who subscribed.
EntriesSound(entries, subs, pubs, time) ==
    \A f \in entries :
        /\ f.owner \in subs
        /\ \A i \in 1..Len(f.kept) :
               f.kept[i].pub \in pubs /\ f.kept[i].recordTime = time[f.kept[i].pub]
OwnersKnown(entries, subs) == \A f \in entries : f.owner \in subs

\* A replay without a listener is for somebody who has gone for good.
RepliesSound(q, subs, listeners) ==
    \A i \in 1..Len(q) :
        q[i].do = "replay" => q[i].to \in subs /\ (q[i].listener \/ q[i].to \notin listeners)

\* The inductive invariant of the ways on which an event reaches its receiver.
WaysInv ==
    /\ EntriesSound(frozenEvents, known, ToSet(published), recordTime)
    /\ main.at = "replay" => OwnersKnown(main.rest, known)
    /\ RepliesSound(immediate, known, listening)

\* The times of what has been published stay, and nobody listens again.
Steady ==
    /\ known \subseteq known' /\ ToSet(published) \subseteq ToSet(published')
    /\ \A p \in ToSet(published) : recordTime'[p] = recordTime[p]
    /\ \A s \in known : s \in listening' => s \in listening

LEMMA WaysInvInit == Init => WaysInv
<1> SUFFICES ASSUME Init PROVE WaysInv
  OBVIOUS
<1>1. immediate = <<>> /\ frozenEvents = {} /\ main.at = "idle"
  BY DEF Init, RegistryInit, Idle
<1>2. Len(immediate) = 0
  BY <1>1
<1> QED
  BY <1>1, <1>2 DEF WaysInv, EntriesSound, RepliesSound

\* When nothing new is kept or posted.
LEMMA WaysKept ==
    ASSUME WaysInv, Steady, frozenEvents' \subseteq frozenEvents,
           main' = main \/ main'.at # "replay",
           \A i \in 1..Len(immediate') : immediate'[i].do = "replay" =>
               \E j \in 1..Len(immediate) : immediate[j] = immediate'[i]
    PROVE  WaysInv'
<1>1. EntriesSound(frozenEvents', known', ToSet(published'), recordTime')
  BY DEF WaysInv, EntriesSound, Steady
<1>2. main'.at = "replay" => OwnersKnown(main'.rest, known')
  BY DEF WaysInv, OwnersKnown, Steady
<1>3. RepliesSound(immediate', known', listening')
  <2> SUFFICES ASSUME NEW i \in 1..Len(immediate'), immediate'[i].do = "replay"
               PROVE  /\ immediate'[i].to \in known'
                      /\ immediate'[i].listener \/ immediate'[i].to \notin listening'
    BY DEF RepliesSound
  <2>1. PICK j \in 1..Len(immediate) : immediate[j] = immediate'[i]
    OBVIOUS
  <2> QED
    BY <2>1 DEF WaysInv, RepliesSound, Steady
<1> QED
  BY <1>1, <1>2, <1>3 DEF WaysInv

LEMMA WaysCollect == ASSUME WaysInv, Steady, CollectFrozenEvents PROVE WaysInv'
<1>1. /\ frozenEvents' \subseteq frozenEvents /\ immediate' = immediate
      /\ main' = IF FrozenEventsOf(main.uid) = {} THEN Idle
                 ELSE [at |-> "replay", rest |-> FrozenEventsOf(main.uid)]
  BY DEF CollectFrozenEvents, GetFrozenEvents, queueVars
<1>2. FrozenEventsOf(main.uid) \subseteq frozenEvents
  BY DEF FrozenEventsOf
<1>3. EntriesSound(frozenEvents', known', ToSet(published'), recordTime')
  BY <1>1 DEF WaysInv, EntriesSound, Steady
<1>4. main'.at = "replay" => OwnersKnown(main'.rest, known')
  BY <1>1, <1>2 DEF WaysInv, EntriesSound, OwnersKnown, Steady, Idle
<1>5. RepliesSound(immediate', known', listening')
  BY <1>1 DEF WaysInv, RepliesSound, Steady
<1> QED
  BY <1>3, <1>4, <1>5 DEF WaysInv

LEMMA WaysPostReplay == ASSUME TypeInv, WaysInv, Steady, PostReplay PROVE WaysInv'
<1>1. PICK f \in main.rest, task \in Tasks :
               /\ main.at = "replay" /\ f \in FrozenEntries /\ f.kept # <<>>
               /\ task.do = "replay" /\ task.to = f.owner /\ task.listener = (f.owner \in listening)
               /\ immediate' = Append(immediate, task)
               /\ \/ main'.at = "idle" /\ WithoutFirst(f) = {}
                  \/ main'.at = "replay" /\ main'.rest = WithoutFirst(f)
  BY PostFacts
<1>2. frozenEvents' = frozenEvents /\ listening' = listening
  BY DEF PostReplay, registryVars
<1>3. EntriesSound(frozenEvents', known', ToSet(published'), recordTime')
  BY <1>2 DEF WaysInv, EntriesSound, Steady
<1>4. OwnersKnown(WithoutFirst(f), known')
  <2> SUFFICES ASSUME NEW g \in WithoutFirst(f) PROVE g.owner \in known'
    BY DEF OwnersKnown
  <2>1. \/ g \in main.rest
        \/ Tail(f.kept) # <<>> /\ g = With(f, Tail(f.kept))
    BY <1>1, WithoutFirstFacts
  <2>2. Tail(f.kept) \in Seq(FrozenEvents)
    <3>1. f.kept \in Seq(FrozenEvents)
      BY <1>1 DEF FrozenEntries
    <3> QED
      BY <1>1, <3>1, HeadTailFacts
  <2>3. With(f, Tail(f.kept)).owner = f.owner
    BY <1>1, <2>2, EntryFields
  <2> QED
    BY <1>1, <2>1, <2>3 DEF WaysInv, OwnersKnown, Steady
<1>5. RepliesSound(immediate', known', listening')
  <2>1. immediate \in Seq(Tasks)
    BY TypeParts DEF QueueTypes
  <2>2. /\ \A i \in 1..Len(immediate') : i \in 1..Len(immediate) \/ i = Len(immediate) + 1
        /\ \A i \in 1..Len(immediate) : immediate'[i] = immediate[i]
        /\ immediate'[Len(immediate) + 1] = task
    BY <1>1, <2>1, AppendFacts
  <2>3. task.to \in known /\ (task.listener \/ task.to \notin listening)
    BY <1>1 DEF WaysInv, OwnersKnown
  <2> QED
    BY <1>2, <2>2, <2>3 DEF WaysInv, RepliesSound, Steady
<1> QED
  BY <1>1, <1>3, <1>4, <1>5 DEF WaysInv

\* The receiver in turn subscribed, to something that was published.
LEMMA ReceiverIsKnown ==
    ASSUME TypeInv, RecordInv, HasReceiver \/ worker.at = "keep"
    PROVE  Receiver \in known /\ worker.record.pub \in ToSet(published)
           /\ Receiver \in ToSet(worker.record.receivers)
<1>1. /\ worker.at # "idle" /\ worker.record \in EventRecords
      /\ worker.nextReceiver \in 1..Len(worker.record.receivers)
      /\ Receiver = worker.record.receivers[worker.nextReceiver]
  BY ReceiverFacts
<1>2. worker.record \in Records
  BY <1>1 DEF Records, RecordsOf, WorkerRecords
<1>3. Receiver \in ToSet(worker.record.receivers)
  BY <1>1, WorkerDomain DEF ToSet
<1> QED
  BY <1>2, <1>3 DEF RecordInv, Sound

LEMMA WaysKeep == ASSUME TypeInv, RecordInv, WaysInv, Steady, KeepFrozenEvent PROVE WaysInv'
<1> DEFINE e == KeptEvent
           R == Receiver
           pubs == ToSet(published)
<1>1. /\ e \in FrozenEvents /\ InsertFrozenEvents(R, e)
      /\ UNCHANGED <<main, immediate, listening, published, known, recordTime>>
  BY KeepFacts DEF queueVars, storeVars, InsertFrozenEvents
<1>2. R \in Subscribers /\ R \in known /\ e.pub \in pubs /\ e.recordTime = recordTime[e.pub]
  BY ReceiverFacts, ReceiverIsKnown DEF KeepFrozenEvent, KeptEvent
<1> HIDE DEF e, R, pubs
<1>3. frozenEvents \subseteq FrozenEntries /\ Filled(frozenEvents)
      /\ EntriesSound(frozenEvents, known, pubs, recordTime)
  BY TypeParts DEF RegistryTypes, WaysInv, pubs
<1>4. ASSUME NEW g \in frozenEvents'
      PROVE  /\ g.owner \in known
             /\ \A i \in 1..Len(g.kept) :
                    g.kept[i].pub \in pubs /\ g.kept[i].recordTime = recordTime[g.kept[i].pub]
  <2>1. \/ g \in frozenEvents
        \/ g = [owner |-> R, kept |-> <<e>>]
        \/ \E f \in EntryOf(R) : g = With(f, Trim(Append(f.kept, e)))
    BY <1>1, <1>2, <1>3, InsertFrozenFacts
  <2>2. CASE g \in frozenEvents
    BY <1>3, <2>2 DEF EntriesSound
  <2>3. CASE g = [owner |-> R, kept |-> <<e>>]
    <3>1. g.owner = R /\ Len(g.kept) = 1 /\ g.kept[1] = e
      BY <2>3
    <3>2. \A i \in 1..Len(g.kept) : i = 1
      BY <3>1
    <3> QED
      BY <1>2, <3>1, <3>2
  <2>4. CASE \E f \in EntryOf(R) : g = With(f, Trim(Append(f.kept, e)))
    <3>1. PICK f \in EntryOf(R) : g = With(f, Trim(Append(f.kept, e)))
      BY <2>4
    <3>2. f \in frozenEvents /\ f \in FrozenEntries /\ f.kept \in Seq(FrozenEvents) /\ f.kept # <<>>
      BY <1>3 DEF EntryOf, FrozenEntries, Filled
    <3> DEFINE t == Trim(Append(f.kept, e))
    <3>3. t \in Seq(FrozenEvents) /\ \A i \in 1..Len(t) : t[i] = e \/ \E j \in 1..Len(f.kept) : t[i] = f.kept[j]
      BY <1>1, <3>2, TrimFacts, KeptMore
    <3> HIDE DEF t
    <3>4. g.owner = f.owner /\ g.kept = t
      BY <3>1, <3>2, <3>3, EntryFields DEF t
    <3>5. f.owner \in known /\ \A j \in 1..Len(f.kept) :
              f.kept[j].pub \in pubs /\ f.kept[j].recordTime = recordTime[f.kept[j].pub]
      BY <1>3, <3>2 DEF EntriesSound
    <3>6. \A i \in 1..Len(t) : t[i].pub \in pubs /\ t[i].recordTime = recordTime[t[i].pub]
      BY <1>2, <3>3, <3>5
    <3> QED
      BY <3>4, <3>5, <3>6
  <2> QED
    BY <2>1, <2>2, <2>3, <2>4
<1>5. EntriesSound(frozenEvents', known', ToSet(published'), recordTime')
  BY <1>1, <1>4 DEF EntriesSound, pubs
<1> QED
  BY <1>1, <1>5 DEF WaysInv

\* Every step is steady.
LEMMA StepsAreSteady ==
    ASSUME TypeInv, [Next]_vars
    PROVE  Steady
<1>1. ASSUME UNCHANGED <<known, published, recordTime>>, listening' \subseteq listening PROVE Steady
  BY <1>1 DEF Steady
<1>2. ASSUME NEW p \in Publications, PublishCommonEvent(p) PROVE Steady
  <2>1. /\ p \notin ToSet(published) /\ published' = Append(published, p)
        /\ recordTime' = [recordTime EXCEPT ![p] = clock] /\ UNCHANGED <<known, listening>>
    BY <1>2 DEF PublishCommonEvent, registryVars
  <2>2. published \in Seq(Publications) /\ recordTime \in [Publications -> 0..MaxTime]
    BY TypeParts DEF GhostTypes, StoreTypes
  <2>3. ToSet(published') = ToSet(published) \cup {p}
    BY <2>1, <2>2, AppendIsIn
  <2>4. ToSet(published) \subseteq Publications
    BY <2>2 DEF ToSet
  <2>5. \A q \in ToSet(published) : recordTime'[q] = recordTime[q]
    BY <2>1, <2>2, <2>4
  <2> QED
    BY <2>1, <2>3, <2>5 DEF Steady
<1>3. ASSUME NEW s \in Subscribers, SubscribeCommonEvent(s) PROVE Steady
  BY <1>3 DEF SubscribeCommonEvent, InsertSubscriber, storeVars, Steady
<1>4. ASSUME NEW s \in Subscribers, UnsubscribeCommonEvent(s) \/ SubscriberDied(s) PROVE Steady
  <2>1. listening' \subseteq listening
    BY <1>4 DEF UnsubscribeCommonEvent, SubscriberDied, RemoveSubscriber, registryVars
  <2> QED
    BY <1>1, <1>4, <2>1 DEF UnsubscribeCommonEvent, SubscriberDied, storeVars, ghostVars
<1>5. ASSUME NEW u \in FreezeUids, Freeze(u) \/ Unfreeze(u) PROVE Steady
  BY <1>1, <1>5 DEF Freeze, Unfreeze, UpdateFreezeInfo, storeVars, ghostVars
<1>6. CASE MainStep
  BY <1>1, <1>6 DEF MainStep, PublishMapped, EnqueueUnorderedRecord, CollectFrozenEvents, GetFrozenEvents,
                    PostReplay, registryVars, storeVars, ghostVars
<1>7. CASE WorkerStep
  BY <1>1, <1>7 DEF WorkerStep, TakeImmediate, TakeLow, NotifyReceiver, FindFrozen, KeepFrozenEvent,
                    InsertFrozenEvents, NotifyEnd, registryVars, storeVars, ghostVars
<1>8. CASE Tick \/ UNCHANGED vars
  BY <1>1, <1>8 DEF Tick, vars, registryVars, storeVars, ghostVars
<1> QED
  BY <1>2, <1>3, <1>4, <1>5, <1>6, <1>7, <1>8 DEF Next, Calling

\* The replays after a step were there before, unless main posts one.
LEMMA RepliesKept ==
    ASSUME TypeInv, TakeImmediate \/ EnqueueUnorderedRecord \/ immediate' = immediate
    PROVE  \A i \in 1..Len(immediate') : immediate'[i].do = "replay" =>
               \E j \in 1..Len(immediate) : immediate[j] = immediate'[i]
<1>1. immediate \in Seq(Tasks)
  BY TypeParts DEF QueueTypes
<1>2. CASE TakeImmediate
  <2>1. \A i \in 1..Len(immediate') : i + 1 \in 1..Len(immediate) /\ immediate'[i] = immediate[i + 1]
    BY <1>1, <1>2, HeadTailFacts DEF TakeImmediate
  <2> QED
    BY <2>1
<1>3. CASE EnqueueUnorderedRecord
  <2> DEFINE task == [do |-> "notify", record |-> main.record]
  <2>1. main.at = "enqueue" /\ main.record \in EventRecords
    BY <1>3, TypeParts, MainFields DEF EnqueueUnorderedRecord, MainType
  <2>2. task \in Tasks /\ task.do = "notify"
    BY <2>1, TaskTypes
  <2>3. immediate' = immediate \/ immediate' = Append(immediate, task)
    BY <1>3 DEF EnqueueUnorderedRecord
  <2> HIDE DEF task
  <2>4. CASE immediate' = Append(immediate, task)
    BY <1>1, <2>2, <2>4, AppendFacts
  <2> QED
    BY <2>3, <2>4
<1> QED
  BY <1>2, <1>3

LEMMA WaysInvNext ==
    ASSUME TypeInv, RecordInv, WaysInv, [Next]_vars
    PROVE  WaysInv'
<1>1. Steady
  BY StepsAreSteady
<1>2. CASE CollectFrozenEvents \/ PostReplay \/ KeepFrozenEvent
  BY <1>1, <1>2, WaysCollect, WaysPostReplay, WaysKeep
<1>3. ASSUME TakeImmediate \/ EnqueueUnorderedRecord \/ immediate' = immediate,
             frozenEvents' \subseteq frozenEvents, main' = main \/ main'.at # "replay"
      PROVE  WaysInv'
  <2>1. \A i \in 1..Len(immediate') : immediate'[i].do = "replay" =>
            \E j \in 1..Len(immediate) : immediate[j] = immediate'[i]
    BY <1>3, RepliesKept
  <2> QED
    BY <1>1, <1>3, <2>1, WaysKept
<1>4. CASE PublishMapped \/ EnqueueUnorderedRecord
  BY <1>3, <1>4 DEF PublishMapped, EnqueueUnorderedRecord, Enqueueing, Idle, registryVars, queueVars
<1>5. CASE TakeImmediate \/ TakeLow \/ NotifyReceiver \/ FindFrozen \/ NotifyEnd
  BY <1>3, <1>5 DEF TakeImmediate, TakeLow, NotifyReceiver, FindFrozen, NotifyEnd, registryVars, queueVars
<1>6. ASSUME NEW p \in Publications, PublishCommonEvent(p) PROVE WaysInv'
  BY <1>3, <1>6 DEF PublishCommonEvent, Enqueueing, registryVars, queueVars
<1>7. ASSUME NEW s \in Subscribers, SubscribeCommonEvent(s) PROVE WaysInv'
  BY <1>3, <1>7 DEF SubscribeCommonEvent, InsertSubscriber, Idle, Enqueueing, queueVars
<1>8. ASSUME NEW s \in Subscribers, UnsubscribeCommonEvent(s) \/ SubscriberDied(s) PROVE WaysInv'
  BY <1>3, <1>8, FrozenAfterRemove DEF UnsubscribeCommonEvent, SubscriberDied, queueVars
<1>9. ASSUME NEW u \in FreezeUids, Freeze(u) \/ Unfreeze(u) PROVE WaysInv'
  BY <1>3, <1>9 DEF Freeze, Unfreeze, UpdateFreezeInfo, queueVars
<1>10. CASE Tick \/ UNCHANGED vars
  BY <1>3, <1>10 DEF Tick, vars, registryVars, queueVars
<1> QED
  BY <1>2, <1>4, <1>5, <1>6, <1>7, <1>8, <1>9, <1>10 DEF Next, MainStep, WorkerStep, Calling

\* r has been dealt with for s: the worker has passed it, or is done with r.
Past(d, w, s, r) ==
    \/ r \in d /\ s \in ToSet(r.receivers)
    \/ /\ w.at # "idle" /\ r = w.record
       /\ \E i \in 1..Len(w.record.receivers) : i < w.nextReceiver /\ w.record.receivers[i] = s

\* The places of an event that is the event r itself.
KeptFor(entries, s, r) ==
    \E f \in entries : f.owner = s /\ \E i \in 1..Len(f.kept) : Is(f.kept[i], r)
PostedFor(q, s, r) == \E i \in 1..Len(q) : q[i].do = "replay" /\ q[i].to = s /\ Is(q[i].event, r)
OnWay(entries, m, q, s, r) ==
    KeptFor(entries, s, r) \/ (m.at = "replay" /\ KeptFor(m.rest, s, r)) \/ PostedFor(q, s, r)
ToldOf(t, s, r) == \E i \in 1..Len(t[s]) : Is(t[s][i], r)
OutdatedBy(records, time, s, r) ==
    \E q \in records : s \in ToSet(q.receivers) /\ time[q.pub] - time[r.pub] > FREEZE_EVENT_TIMEOUT

DealtWith == done \cup WorkerRecords(worker)
Served(s, r) ==
    \/ ToldOf(told, s, r) \/ OnWay(frozenEvents, main, immediate, s, r)
    \/ OutdatedBy(DealtWith, recordTime, s, r)
    \/ <<s, r.pub>> \notin Permitted
    \/ s \notin listening

\* The inductive invariant: who is past has been served.
ServedInv == \A s \in OwnKey : \A r : Past(done, worker, s, r) => Served(s, r)

LEMMA ServedInvInit == Init => ServedInv
<1> SUFFICES ASSUME Init PROVE ServedInv
  OBVIOUS
<1>1. done = {} /\ worker.at = "idle"
  BY DEF Init, Idle
<1> QED
  BY <1>1 DEF ServedInv, Past

LEMMA PastFacts ==
    ASSUME TypeInv, RecordInv, NEW s, NEW r, Past(done, worker, s, r)
    PROVE  r \in DealtWith /\ r.pub \in ToSet(published) /\ s \in known
<1>1. r \in DealtWith /\ s \in ToSet(r.receivers)
  <2>1. CASE r \in done /\ s \in ToSet(r.receivers)
    BY <2>1 DEF DealtWith
  <2>2. CASE /\ worker.at # "idle" /\ r = worker.record
             /\ \E i \in 1..Len(worker.record.receivers) :
                    i < worker.nextReceiver /\ worker.record.receivers[i] = s
    <3>1. s \in ToSet(worker.record.receivers)
      BY <2>2, WorkerDomain DEF ToSet
    <3> QED
      BY <2>2, <3>1 DEF DealtWith, WorkerRecords
  <2> QED
    BY <2>1, <2>2 DEF Past
<1>2. r \in Records
  BY <1>1 DEF DealtWith, Records, RecordsOf
<1> QED
  BY <1>1, <1>2 DEF RecordInv, Sound

\* The step keeps everybody served, given what it does to those who are told, to
\* those whose event is on its way, and to those whom the worker passes.
LEMMA ServedKept ==
    ASSUME TypeInv, RecordInv, ServedInv, Steady, DealtWith \subseteq DealtWith',
           \A s \in OwnKey : \A r :
               Past(done', worker', s, r) => Past(done, worker, s, r) \/ Served(s, r)',
           \A s \in OwnKey : \A r : ToldOf(told, s, r) => ToldOf(told', s, r),
           \A s \in OwnKey : \A r :
               Past(done, worker, s, r) /\ OnWay(frozenEvents, main, immediate, s, r) => Served(s, r)'
    PROVE  ServedInv'
<1> SUFFICES ASSUME NEW s \in OwnKey, NEW r, Past(done', worker', s, r), ~Served(s, r)'
             PROVE  FALSE
  BY DEF ServedInv
<1>1. Past(done, worker, s, r)
  OBVIOUS
<1>2. r.pub \in ToSet(published) /\ s \in known
  BY <1>1, PastFacts
<1>3. ~ToldOf(told', s, r) /\ <<s, r.pub>> \in Permitted /\ s \in listening'
      /\ ~OutdatedBy(DealtWith', recordTime', s, r)
  BY DEF Served
<1>4. ~ToldOf(told, s, r) /\ s \in listening /\ ~OnWay(frozenEvents, main, immediate, s, r)
  BY <1>1, <1>2, <1>3 DEF Steady
<1>5. ~OutdatedBy(DealtWith, recordTime, s, r)
  <2> SUFFICES ASSUME NEW q \in DealtWith, s \in ToSet(q.receivers),
                      recordTime[q.pub] - recordTime[r.pub] > FREEZE_EVENT_TIMEOUT
               PROVE  FALSE
    BY DEF OutdatedBy
  <2>1. q \in Records
    BY DEF DealtWith, Records, RecordsOf
  <2>2. q.pub \in ToSet(published)
    BY <2>1 DEF RecordInv, Sound
  <2>3. recordTime'[q.pub] = recordTime[q.pub] /\ recordTime'[r.pub] = recordTime[r.pub]
    BY <1>2, <2>2 DEF Steady
  <2>4. q \in DealtWith'
    OBVIOUS
  <2> QED
    BY <1>3, <2>3, <2>4 DEF OutdatedBy
<1> QED
  BY <1>1, <1>3, <1>4, <1>5 DEF ServedInv, Served

\* What a new task and what a taken one make of the events posted.
LEMMA PostedForAppend ==
    ASSUME NEW q \in Seq(Tasks), NEW t \in Tasks
    PROVE  \A s, r : PostedFor(q, s, r) \/ (t.do = "replay" /\ t.to = s /\ Is(t.event, r))
                     => PostedFor(Append(q, t), s, r)
<1> DEFINE u == Append(q, t)
<1>1. /\ u[Len(q) + 1] = t /\ Len(q) + 1 \in 1..Len(u)
      /\ \A i \in 1..Len(q) : u[i] = q[i] /\ i \in 1..Len(u)
  BY AppendFacts
<1> HIDE DEF u
<1> QED
  BY <1>1 DEF PostedFor, u

LEMMA PostedForTail ==
    ASSUME NEW q \in Seq(Tasks), q # <<>>, NEW s, NEW r, PostedFor(q, s, r)
    PROVE  \/ PostedFor(Tail(q), s, r)
           \/ Head(q).do = "replay" /\ Head(q).to = s /\ Is(Head(q).event, r)
<1>1. PICK i \in 1..Len(q) : q[i].do = "replay" /\ q[i].to = s /\ Is(q[i].event, r)
  BY DEF PostedFor
<1>2. CASE i = 1
  BY <1>1, <1>2, HeadTailFacts
<1>3. CASE i # 1
  <2> DEFINE u == Tail(q)
  <2>1. Len(u) = Len(q) - 1 /\ Len(q) \in Nat /\ \A j \in 1..Len(u) : u[j] = q[j + 1]
    BY HeadTailFacts
  <2> HIDE DEF u
  <2>2. i - 1 \in 1..Len(u) /\ (i - 1) + 1 = i
    BY <1>3, <2>1
  <2>3. u[i - 1] = q[i]
    BY <2>1, <2>2
  <2> QED
    BY <1>1, <2>2, <2>3 DEF PostedFor, u
<1> QED
  BY <1>2, <1>3

\* An event in main's hands stays there, or is the first of the entry.
LEMMA KeptWithoutFirst ==
    ASSUME TypeInv, main.at = "replay", NEW f \in main.rest, NEW s, NEW r, KeptFor(main.rest, s, r)
    PROVE  KeptFor(WithoutFirst(f), s, r) \/ (s = f.owner /\ Is(Head(f.kept), r))
<1>1. PICK g \in main.rest : g.owner = s /\ \E i \in 1..Len(g.kept) : Is(g.kept[i], r)
  BY DEF KeptFor
<1>2. CASE g # f
  <2>1. g \in WithoutFirst(f)
    BY <1>2 DEF WithoutFirst
  <2> QED
    BY <1>1, <2>1 DEF KeptFor
<1>3. CASE g = f
  <2> DEFINE u == f.kept
             t == Tail(u)
  <2>1. f \in FrozenEntries /\ u # <<>> /\ u \in Seq(FrozenEvents)
    BY WithoutFirstFacts DEF FrozenEntries
  <2>2. /\ Head(u) = u[1] /\ t \in Seq(FrozenEvents) /\ Len(u) \in Nat /\ Len(t) = Len(u) - 1
        /\ \A j \in 1..Len(t) : t[j] = u[j + 1]
    BY <2>1, HeadTailFacts
  <2>3. With(f, t).owner = f.owner /\ With(f, t).kept = t
    BY <2>1, <2>2, EntryFields
  <2>4. t # <<>> => With(f, t) \in WithoutFirst(f)
    BY DEF WithoutFirst, With
  <2>6. PICK i \in 1..Len(u) : Is(u[i], r)
    BY <1>1, <1>3
  <2> HIDE DEF u, t
  <2>5. t = <<>> => Len(t) = 0
    OBVIOUS
  <2>7. CASE i = 1
    BY <1>1, <1>3, <2>2, <2>6, <2>7 DEF u
  <2>8. CASE i # 1
    <3>1. i - 1 \in 1..Len(t) /\ (i - 1) + 1 = i
      BY <2>2, <2>8
    <3>2. t[i - 1] = u[i] /\ t # <<>>
      BY <2>2, <2>5, <3>1
    <3> QED
      BY <1>1, <1>3, <2>3, <2>4, <2>6, <3>1, <3>2 DEF KeptFor
  <2> QED
    BY <2>7, <2>8
<1> QED
  BY <1>2, <1>3

\* Keeping an event for s drops at most one that is outdated, and keeps the new one.
LEMMA KeptWith ==
    ASSUME frozenEvents \subseteq FrozenEntries, Filled(frozenEvents),
           NEW R \in Subscribers, NEW e \in FrozenEvents, InsertFrozenEvents(R, e), NEW s \in OwnKey
    PROVE  /\ \A r : KeptFor(frozenEvents, s, r) =>
                  \/ KeptFor(frozenEvents', s, r)
                  \/ s = R /\ \E f \in frozenEvents : \E j \in 1..Len(f.kept) :
                         Is(f.kept[j], r) /\ e.recordTime - f.kept[j].recordTime > FREEZE_EVENT_TIMEOUT
           /\ s = R => \A r : Is(e, r) => KeptFor(frozenEvents', s, r)
<1>1. ASSUME NEW f \in EntryOf(R)
      PROVE  LET t == Trim(Append(f.kept, e)) IN
             /\ f \in frozenEvents /\ With(f, t) \in frozenEvents'
             /\ With(f, t).owner = f.owner /\ With(f, t).kept = t
             /\ \E i \in 1..Len(t) : t[i] = e
             /\ \A j \in 1..Len(f.kept) : \/ \E i \in 1..Len(t) : t[i] = f.kept[j]
                                          \/ e.recordTime - f.kept[j].recordTime > FREEZE_EVENT_TIMEOUT
             /\ f.owner = s => s = R
             /\ s = R => f.owner = s
  <2> DEFINE t == Trim(Append(f.kept, e))
  <2>1. f \in frozenEvents /\ f \in FrozenEntries /\ f.kept \in Seq(FrozenEvents) /\ f.kept # <<>>
        /\ f.owner \in Subscribers
    BY DEF EntryOf, FrozenEntries, Filled
  <2>2. /\ t \in Seq(FrozenEvents)
        /\ \E i \in 1..Len(t) : t[i] = e
        /\ \A j \in 1..Len(f.kept) : \/ \E i \in 1..Len(t) : t[i] = f.kept[j]
                                     \/ e.recordTime - f.kept[j].recordTime > FREEZE_EVENT_TIMEOUT
    BY <2>1, TrimFacts, KeptMore
  <2>3. With(f, t) \in frozenEvents'
    BY InsertFrozenFacts
  <2> HIDE DEF t
  <2>4. With(f, t).owner = f.owner /\ With(f, t).kept = t
    BY <2>1, <2>2, EntryFields
  <2>5. SameKey(f.owner, R)
    BY DEF EntryOf
  <2>6. (f.owner = s => s = R) /\ (s = R => f.owner = s)
    BY <2>1, <2>5 DEF OwnKey, SameKey
  <2> QED
    BY <2>1, <2>2, <2>3, <2>4, <2>6 DEF t
<1>2. ASSUME NEW f \in frozenEvents, f \notin EntryOf(R) PROVE f \in frozenEvents'
  BY <1>2, InsertFrozenFacts
<1>3. ASSUME NEW r, KeptFor(frozenEvents, s, r)
      PROVE  \/ KeptFor(frozenEvents', s, r)
             \/ s = R /\ \E f \in frozenEvents : \E j \in 1..Len(f.kept) :
                    Is(f.kept[j], r) /\ e.recordTime - f.kept[j].recordTime > FREEZE_EVENT_TIMEOUT
  <2>1. PICK f \in frozenEvents : f.owner = s /\ \E j \in 1..Len(f.kept) : Is(f.kept[j], r)
    BY <1>3 DEF KeptFor
  <2>2. CASE f \notin EntryOf(R)
    BY <1>2, <2>1, <2>2 DEF KeptFor
  <2>3. CASE f \in EntryOf(R)
    <3>1. PICK j \in 1..Len(f.kept) : Is(f.kept[j], r)
      BY <2>1
    <3> DEFINE t == Trim(Append(f.kept, e))
    <3>2. /\ With(f, t) \in frozenEvents' /\ With(f, t).owner = s /\ With(f, t).kept = t /\ s = R
          /\ \/ \E i \in 1..Len(t) : t[i] = f.kept[j]
             \/ e.recordTime - f.kept[j].recordTime > FREEZE_EVENT_TIMEOUT
      BY <1>1, <2>1, <2>3
    <3> HIDE DEF t
    <3> QED
      BY <3>1, <3>2 DEF KeptFor
  <2> QED
    BY <2>2, <2>3
<1>4. ASSUME s = R, NEW r, Is(e, r) PROVE KeptFor(frozenEvents', s, r)
  <2>1. CASE EntryOf(R) = {}
    <3> DEFINE new == [owner |-> R, kept |-> <<e>>]
    <3>1. new \in frozenEvents' /\ new.owner = R /\ 1 \in 1..Len(new.kept) /\ new.kept[1] = e
      BY <2>1, InsertFrozenFacts
    <3> HIDE DEF new
    <3> QED
      BY <1>4, <3>1 DEF KeptFor
  <2>2. CASE EntryOf(R) # {}
    <3>1. PICK f : f \in EntryOf(R)
      BY <2>2
    <3> DEFINE t == Trim(Append(f.kept, e))
    <3>2. /\ With(f, t) \in frozenEvents' /\ With(f, t).owner = s /\ With(f, t).kept = t
          /\ \E i \in 1..Len(t) : t[i] = e
      BY <1>1, <1>4, <3>1
    <3> HIDE DEF t
    <3> QED
      BY <1>4, <3>2 DEF KeptFor
  <2> QED
    BY <2>1, <2>2
<1> QED
  BY <1>3, <1>4

\* When the worker has not moved, those who are past are the same.
LEMMA ServedIdle ==
    ASSUME TypeInv, RecordInv, ServedInv, Steady, UNCHANGED <<worker, done, told>>,
           \A s \in OwnKey : \A r :
               Past(done, worker, s, r) /\ OnWay(frozenEvents, main, immediate, s, r) => Served(s, r)'
    PROVE  ServedInv'
<1>1. DealtWith' = DealtWith
  BY DEF DealtWith
<1>2. \A s \in OwnKey : \A r : Past(done', worker', s, r) => Past(done, worker, s, r)
  OBVIOUS
<1>3. \A s \in OwnKey : \A r : ToldOf(told, s, r) => ToldOf(told', s, r)
  OBVIOUS
<1> QED
  BY <1>1, <1>2, <1>3, ServedKept

LEMMA OnWayIsServed ==
    ASSUME NEW s, NEW r, OnWay(frozenEvents', main', immediate', s, r)
    PROVE  Served(s, r)'
BY DEF Served

LEMMA ServedEnqueue ==
    ASSUME TypeInv, RecordInv, ServedInv, Steady, EnqueueUnorderedRecord
    PROVE  ServedInv'
<1>1. main.at = "enqueue" /\ UNCHANGED <<worker, done, told, frozenEvents>>
  BY DEF EnqueueUnorderedRecord, registryVars, ghostVars
<1>2. immediate \in Seq(Tasks) /\ main.record \in EventRecords
  BY <1>1, TypeParts, MainFields DEF QueueTypes, MainType
<1>3. \A s, r : PostedFor(immediate, s, r) => PostedFor(immediate', s, r)
  <2> DEFINE task == [do |-> "notify", record |-> main.record]
  <2>1. task \in Tasks
    BY <1>2, TaskTypes
  <2>2. immediate' = immediate \/ immediate' = Append(immediate, task)
    BY DEF EnqueueUnorderedRecord
  <2> HIDE DEF task
  <2> QED
    BY <1>2, <2>1, <2>2, PostedForAppend
<1>4. \A s, r : OnWay(frozenEvents, main, immediate, s, r) => OnWay(frozenEvents', main', immediate', s, r)
  BY <1>1, <1>3 DEF OnWay
<1> QED
  BY <1>1, <1>4, OnWayIsServed, ServedIdle

LEMMA ServedCollect ==
    ASSUME TypeInv, RecordInv, ServedInv, Steady, CollectFrozenEvents
    PROVE  ServedInv'
<1> DEFINE F == FrozenEventsOf(main.uid)
<1>1. /\ main.at = "collect" /\ frozenEvents' = frozenEvents \ F
      /\ main' = IF F = {} THEN Idle ELSE [at |-> "replay", rest |-> F]
      /\ UNCHANGED <<immediate, told, done, worker>>
  BY DEF CollectFrozenEvents, GetFrozenEvents, queueVars, ghostVars
<1> HIDE DEF F
<1>2. ASSUME NEW s, NEW r, OnWay(frozenEvents, main, immediate, s, r)
      PROVE  OnWay(frozenEvents', main', immediate', s, r)
  <2>1. CASE KeptFor(frozenEvents, s, r)
    <3>1. PICK f \in frozenEvents : f.owner = s /\ \E i \in 1..Len(f.kept) : Is(f.kept[i], r)
      BY <2>1 DEF KeptFor
    <3>2. CASE f \in F
      <4>1. main' = [at |-> "replay", rest |-> F]
        BY <1>1, <3>2
      <4>2. main'.at = "replay" /\ main'.rest = F
        BY <4>1
      <4> QED
        BY <3>1, <3>2, <4>2 DEF OnWay, KeptFor
    <3>3. CASE f \notin F
      BY <1>1, <3>1, <3>3 DEF OnWay, KeptFor
    <3> QED
      BY <3>2, <3>3
  <2>2. CASE PostedFor(immediate, s, r)
    BY <1>1, <2>2 DEF OnWay
  <2> QED
    BY <1>1, <1>2, <2>1, <2>2 DEF OnWay
<1> QED
  BY <1>1, <1>2, OnWayIsServed, ServedIdle

LEMMA ServedPostReplay ==
    ASSUME TypeInv, RecordInv, ServedInv, Steady, PostReplay
    PROVE  ServedInv'
<1>1. PICK f \in main.rest, task \in Tasks :
               /\ main.at = "replay" /\ f \in FrozenEntries /\ f.kept # <<>>
               /\ task.do = "replay" /\ task.to = f.owner /\ task.event = Head(f.kept)
               /\ immediate' = Append(immediate, task)
               /\ \/ main'.at = "idle" /\ WithoutFirst(f) = {}
                  \/ main'.at = "replay" /\ main'.rest = WithoutFirst(f)
  BY PostFacts
<1>2. UNCHANGED <<frozenEvents, told, worker, done>>
  BY DEF PostReplay, registryVars, ghostVars
<1>3. \A s, r : PostedFor(immediate, s, r) \/ (task.to = s /\ Is(task.event, r))
                => PostedFor(immediate', s, r)
  <2>1. immediate \in Seq(Tasks)
    BY TypeParts DEF QueueTypes
  <2> QED
    BY <1>1, <2>1, PostedForAppend
<1>4. ASSUME NEW s, NEW r, OnWay(frozenEvents, main, immediate, s, r)
      PROVE  OnWay(frozenEvents', main', immediate', s, r)
  <2>1. CASE KeptFor(main.rest, s, r)
    <3>1. KeptFor(WithoutFirst(f), s, r) \/ (s = f.owner /\ Is(Head(f.kept), r))
      BY <1>1, <2>1, KeptWithoutFirst
    <3>2. CASE KeptFor(WithoutFirst(f), s, r)
      <4>1. WithoutFirst(f) # {}
        BY <3>2 DEF KeptFor
      <4> QED
        BY <1>1, <3>2, <4>1 DEF OnWay
    <3>3. CASE s = f.owner /\ Is(Head(f.kept), r)
      BY <1>1, <1>3, <3>3 DEF OnWay
    <3> QED
      BY <3>1, <3>2, <3>3
  <2>2. CASE KeptFor(frozenEvents, s, r) \/ PostedFor(immediate, s, r)
    BY <1>2, <1>3, <2>2 DEF OnWay
  <2> QED
    BY <1>4, <2>1, <2>2 DEF OnWay
<1> QED
  BY <1>2, <1>4, OnWayIsServed, ServedIdle

\* A subscriber that goes loses what was kept for it, and nobody else does.
LEMMA ServedRemove ==
    ASSUME TypeInv, RecordInv, ServedInv, Steady, NEW x \in Subscribers, RemoveSubscriber(x),
           UNCHANGED <<main, immediate, worker, done, told>>
    PROVE  ServedInv'
<1>1. \/ UNCHANGED <<frozenEvents, listening>>
      \/ frozenEvents' = frozenEvents \ EntryOf(x) /\ listening' = listening \ {x}
  BY DEF RemoveSubscriber, RemoveFrozenEventsBySubscriber, registryVars
<1>2. ASSUME NEW s \in OwnKey, NEW r, OnWay(frozenEvents, main, immediate, s, r)
      PROVE  Served(s, r)'
  <2>1. CASE KeptFor(frozenEvents, s, r)
    <3>1. PICK f \in frozenEvents : f.owner = s /\ \E i \in 1..Len(f.kept) : Is(f.kept[i], r)
      BY <2>1 DEF KeptFor
    <3>2. CASE f \in frozenEvents'
      <4>1. KeptFor(frozenEvents', s, r)
        BY <3>1, <3>2 DEF KeptFor
      <4> QED
        BY <4>1 DEF Served, OnWay
    <3>3. CASE f \notin frozenEvents'
      <4>1. f \in EntryOf(x) /\ listening' = listening \ {x}
        BY <1>1, <3>3
      <4>2. s = x
        BY <3>1, <4>1 DEF EntryOf, OwnKey, SameKey
      <4> QED
        BY <4>1, <4>2 DEF Served
    <3> QED
      BY <3>2, <3>3
  <2>2. CASE (main.at = "replay" /\ KeptFor(main.rest, s, r)) \/ PostedFor(immediate, s, r)
    BY <2>2 DEF Served, OnWay
  <2> QED
    BY <1>2, <2>1, <2>2 DEF OnWay
<1> QED
  BY <1>2, ServedIdle

\* A replay reaches its subscriber, unless that may not have it or is gone.
LEMMA ServedReplayed ==
    ASSUME TypeInv, RecordInv, WaysInv, ServedInv, Steady, immediate # <<>>,
           NotifyFreezeEvents(Head(immediate)), immediate' = Tail(immediate),
           UNCHANGED <<registryVars, main, done>>
    PROVE  ServedInv'
<1> DEFINE task == Head(immediate)
           e == [pub |-> task.event.pub, as |-> task.event.as, action |-> action[task.event.pub],
                 replayed |-> TRUE]
           t == task.to
<1>1. immediate \in Seq(Tasks) /\ told \in [Subscribers -> Seq(Received)]
  BY TypeParts DEF QueueTypes, ToldType
<1>2. /\ task \in Tasks /\ task.do = "replay" /\ worker' = worker /\ task = immediate[1]
      /\ t \in Subscribers /\ task.event \in FrozenEvents /\ 1 \in 1..Len(immediate)
  <2>1. task \in Tasks /\ task = immediate[1] /\ 1 \in 1..Len(immediate)
    BY <1>1, HeadTailFacts
  <2> QED
    BY <2>1, TaskFields DEF NotifyFreezeEvents
<1>3. e \in Received /\ \A r : Is(task.event, r) => Is(e, r)
  <2>1. action[task.event.pub] \in Names
    BY <1>2, EventFields, TypeParts DEF StoreTypes
  <2> QED
    BY <1>2, <2>1, EventFields DEF Received, Is
<1>4. \/ /\ task.listener /\ <<t, task.event.pub>> \in Permitted
         /\ told' = [told EXCEPT ![t] = Append(@, e)]
      \/ ~(task.listener /\ <<t, task.event.pub>> \in Permitted) /\ told' = told
  BY DEF NotifyFreezeEvents, Tell
<1>5. task.listener \/ t \notin listening'
  <2>1. immediate[1].do = "replay" => immediate[1].listener \/ immediate[1].to \notin listening
    BY <1>2 DEF WaysInv, RepliesSound
  <2>2. listening' = listening
    BY DEF registryVars
  <2> QED
    BY <1>2, <2>1, <2>2
<1>6. \A s, r : PostedFor(immediate, s, r) =>
          PostedFor(immediate', s, r) \/ (task.to = s /\ Is(task.event, r))
  BY <1>1, PostedForTail
<1>7. OwnKey \subseteq Subscribers
  BY DEF OwnKey
<1>8. t = task.to
  OBVIOUS
<1> HIDE DEF task, e, t
<1>9. ASSUME told' = [told EXCEPT ![t] = Append(@, e)]
      PROVE  /\ \A s \in Subscribers : \A r : ToldOf(told, s, r) => ToldOf(told', s, r)
             /\ \A r : Is(e, r) => ToldOf(told', t, r)
  <2>1. ASSUME NEW s \in Subscribers
        PROVE  /\ \A j \in 1..Len(told[s]) : j \in 1..Len(told'[s]) /\ told'[s][j] = told[s][j]
               /\ s = t => Len(told[s]) + 1 \in 1..Len(told'[s]) /\ told'[s][Len(told[s]) + 1] = e
    BY <1>1, <1>2, <1>3, <1>9, TellFacts
  <2> QED
    BY <1>2, <2>1 DEF ToldOf
<1>10. \A s \in OwnKey : \A r : ToldOf(told, s, r) => ToldOf(told', s, r)
  BY <1>4, <1>7, <1>9
<1>11. ASSUME NEW s \in OwnKey, NEW r, OnWay(frozenEvents, main, immediate, s, r)
       PROVE  Served(s, r)'
  <2>1. CASE KeptFor(frozenEvents, s, r) \/ (main.at = "replay" /\ KeptFor(main.rest, s, r))
    BY <2>1 DEF Served, OnWay, registryVars
  <2>2. CASE PostedFor(immediate', s, r)
    BY <2>2 DEF Served, OnWay
  <2>3. CASE task.to = s /\ Is(task.event, r)
    <3>1. task.event.pub = r.pub
      BY <2>3 DEF Is
    <3>2. CASE ToldOf(told', s, r) \/ <<s, r.pub>> \notin Permitted \/ s \notin listening'
      BY <3>2 DEF Served
    <3>3. CASE ~task.listener
      BY <1>5, <1>8, <2>3, <3>2, <3>3
    <3>4. CASE task.listener
      BY <1>3, <1>4, <1>8, <1>9, <2>3, <3>1, <3>2, <3>4
    <3> QED
      BY <3>3, <3>4
  <2> QED
    BY <1>6, <1>11, <2>1, <2>2, <2>3 DEF OnWay
<1>12. \A s \in OwnKey : \A r : Past(done', worker', s, r) => Past(done, worker, s, r)
  BY <1>2
<1>13. DealtWith' = DealtWith
  BY <1>2 DEF DealtWith
<1> QED
  BY <1>10, <1>11, <1>12, <1>13, ServedKept

\* The worker begins: nobody of the record is past.
LEMMA ServedBegin ==
    ASSUME TypeInv, RecordInv, ServedInv, Steady, worker.at = "idle", NEW task, NotifyBegin(task),
           \A s, r : PostedFor(immediate, s, r) => PostedFor(immediate', s, r),
           UNCHANGED <<registryVars, main, done>>
    PROVE  ServedInv'
<1>1. worker'.nextReceiver = 1 /\ told' = told
  BY DEF NotifyBegin
<1>2. DealtWith \subseteq DealtWith'
  BY DEF DealtWith, WorkerRecords
<1>3. \A s \in OwnKey : \A r : Past(done', worker', s, r) => Past(done, worker, s, r)
  <2>1. \A i \in 1..Len(worker'.record.receivers) : ~(i < 1)
    OBVIOUS
  <2> QED
    BY <1>1, <2>1 DEF Past
<1>4. \A s, r : OnWay(frozenEvents, main, immediate, s, r) => OnWay(frozenEvents', main', immediate', s, r)
  BY DEF OnWay, registryVars
<1>5. \A s \in OwnKey : \A r : ToldOf(told, s, r) => ToldOf(told', s, r)
  BY <1>1
<1>6. \A s \in OwnKey : \A r : OnWay(frozenEvents, main, immediate, s, r) => Served(s, r)'
  BY <1>4, OnWayIsServed
<1> QED
  BY <1>2, <1>3, <1>5, <1>6, ServedKept

\* The worker moves on: its receiver is past, and nobody else that was not.
LEMMA PastDelivered ==
    ASSUME TypeInv, HasReceiver \/ worker.at = "keep", NEW state \in Deliveries,
           worker' = Delivered(state), done' = done
    PROVE  /\ \A s, r : Past(done', worker', s, r) =>
                  Past(done, worker, s, r) \/ (s = Receiver /\ r = worker.record)
           /\ DealtWith' = DealtWith /\ worker.record \in DealtWith
<1> DEFINE w == worker.record
           n == worker.nextReceiver
<1>1. /\ worker.at # "idle" /\ w \in EventRecords /\ n \in 1..Len(w.receivers)
      /\ Receiver = w.receivers[n]
  BY ReceiverFacts
<1>2. worker'.at = "notify" /\ worker'.record = w /\ worker'.nextReceiver = n + 1
  BY <1>1, DeliveredFields
<1>3. DealtWith' = DealtWith /\ w \in DealtWith
  BY <1>1, <1>2 DEF DealtWith, WorkerRecords
<1> HIDE DEF w, n
<1>4. ASSUME NEW s, NEW r, Past(done', worker', s, r)
      PROVE  Past(done, worker, s, r) \/ (s = Receiver /\ r = w)
  <2>1. CASE r \in done /\ s \in ToSet(r.receivers)
    BY <2>1 DEF Past
  <2>2. CASE r = w /\ \E i \in 1..Len(w.receivers) : i < n + 1 /\ w.receivers[i] = s
    <3>1. PICK i \in 1..Len(w.receivers) : i < n + 1 /\ w.receivers[i] = s
      BY <2>2
    <3>2. i < n \/ i = n
      BY <1>1, <3>1
    <3>3. CASE i = n
      BY <1>1, <2>2, <3>1, <3>3
    <3>4. CASE i < n
      BY <1>1, <2>2, <3>1, <3>4 DEF Past, w, n
    <3> QED
      BY <3>2, <3>3, <3>4
  <2> QED
    BY <1>2, <1>4, <2>1, <2>2 DEF Past
<1> QED
  BY <1>3, <1>4 DEF w

\* A receiver is told, may not have the event, or is gone.
LEMMA ServedNotify ==
    ASSUME TypeInv, RecordInv, ServedInv, Steady, NotifyReceiver
    PROVE  ServedInv'
<1> DEFINE w == worker.record
           R == Receiver
           e == [pub |-> w.pub, as |-> w.as, action |-> action[w.pub], replayed |-> FALSE]
<1>1. HasReceiver /\ UNCHANGED <<frozenEvents, listening, main, immediate, done>>
  BY DEF NotifyReceiver, registryVars, queueVars
<1>2. w \in EventRecords /\ R \in Subscribers
  BY <1>1, ReceiverFacts
<1>3. told \in [Subscribers -> Seq(Received)]
  BY TypeParts DEF ToldType
<1>4. e \in Received /\ Is(e, w)
  <2>1. action[w.pub] \in Names
    BY <1>2, RecordFields, TypeParts DEF StoreTypes
  <2> QED
    BY <1>2, <2>1, RecordFields DEF Received, Is
<1>5. \/ told' = [told EXCEPT ![R] = Append(@, e)] /\ worker' = Delivered("DELIVERED")
      \/ told' = told /\ worker' = Delivered("SKIPPED")
         /\ ~(R \in listening /\ <<R, w.pub>> \in Permitted)
  BY DEF NotifyReceiver, Tell
<1>6. /\ \A s, r : Past(done', worker', s, r) =>
             Past(done, worker, s, r) \/ (s = R /\ r = w)
      /\ DealtWith' = DealtWith
  BY <1>1, <1>5, PastDelivered DEF Deliveries
<1>7. OwnKey \subseteq Subscribers
  BY DEF OwnKey
<1> HIDE DEF w, R, e
<1>8. ASSUME told' = [told EXCEPT ![R] = Append(@, e)]
      PROVE  /\ \A s \in Subscribers : \A r : ToldOf(told, s, r) => ToldOf(told', s, r)
             /\ ToldOf(told', R, w)
  <2>1. ASSUME NEW s \in Subscribers
        PROVE  /\ \A j \in 1..Len(told[s]) : j \in 1..Len(told'[s]) /\ told'[s][j] = told[s][j]
               /\ s = R => Len(told[s]) + 1 \in 1..Len(told'[s]) /\ told'[s][Len(told[s]) + 1] = e
    BY <1>2, <1>3, <1>4, <1>8, TellFacts
  <2> QED
    BY <1>2, <1>4, <2>1 DEF ToldOf
<1>9. \A s \in OwnKey : \A r : ToldOf(told, s, r) => ToldOf(told', s, r)
  BY <1>5, <1>7, <1>8
<1>10. ASSUME NEW s \in OwnKey, NEW r, s = R, r = w PROVE Served(s, r)'
  <2>1. ToldOf(told', s, r) \/ ~(s \in listening' /\ <<s, r.pub>> \in Permitted)
    BY <1>1, <1>5, <1>8, <1>10
  <2> QED
    BY <2>1 DEF Served
<1>12. \A s \in OwnKey : \A r : Past(done', worker', s, r) => Past(done, worker, s, r) \/ Served(s, r)'
  BY <1>6, <1>10
<1>11. \A s \in OwnKey : \A r : OnWay(frozenEvents, main, immediate, s, r) => Served(s, r)'
  BY <1>1 DEF Served
<1> QED
  BY <1>6, <1>9, <1>11, <1>12, ServedKept

\* The event is kept for a frozen receiver; one that goes for it is outdated.
LEMMA ServedKeep ==
    ASSUME TypeInv, RecordInv, WaysInv, ServedInv, Steady, KeepFrozenEvent
    PROVE  ServedInv'
<1> DEFINE w == worker.record
           R == Receiver
           e == KeptEvent
<1>1. /\ e \in FrozenEvents /\ InsertFrozenEvents(R, e) /\ worker' = Delivered("SKIPPED")
      /\ UNCHANGED <<main, immediate, done, told, recordTime>> /\ worker.at = "keep"
  BY KeepFacts DEF KeepFrozenEvent, queueVars, storeVars
<1>2. R \in Subscribers /\ R \in ToSet(w.receivers)
  BY <1>1, ReceiverFacts, ReceiverIsKnown
<1>3. /\ \A s, r : Past(done', worker', s, r) =>
             Past(done, worker, s, r) \/ (s = R /\ r = w)
      /\ DealtWith' = DealtWith /\ w \in DealtWith
  BY <1>1, PastDelivered DEF Deliveries
<1>4. Is(e, w) /\ e.recordTime = recordTime[w.pub]
  BY DEF KeptEvent, Is
<1>5. frozenEvents \subseteq FrozenEntries /\ Filled(frozenEvents)
      /\ EntriesSound(frozenEvents, known, ToSet(published), recordTime)
  BY TypeParts DEF RegistryTypes, WaysInv
<1> HIDE DEF w, R, e
<1>6. ASSUME NEW s \in OwnKey
      PROVE  /\ \A r : KeptFor(frozenEvents, s, r) =>
                    \/ KeptFor(frozenEvents', s, r)
                    \/ s = R /\ \E f \in frozenEvents : \E j \in 1..Len(f.kept) :
                           Is(f.kept[j], r) /\ e.recordTime - f.kept[j].recordTime > FREEZE_EVENT_TIMEOUT
             /\ s = R => \A r : Is(e, r) => KeptFor(frozenEvents', s, r)
  BY <1>1, <1>2, <1>5, KeptWith
<1>7. ASSUME NEW s \in OwnKey, NEW r, s = R, r = w PROVE Served(s, r)'
  <2>1. KeptFor(frozenEvents', s, r)
    BY <1>4, <1>6, <1>7
  <2> QED
    BY <2>1 DEF Served, OnWay
<1>8. \A s \in OwnKey : \A r : Past(done', worker', s, r) => Past(done, worker, s, r) \/ Served(s, r)'
  BY <1>3, <1>7
<1>9. ASSUME NEW s \in OwnKey, NEW r, OnWay(frozenEvents, main, immediate, s, r)
      PROVE  Served(s, r)'
  <2>1. CASE (main.at = "replay" /\ KeptFor(main.rest, s, r)) \/ PostedFor(immediate, s, r)
    BY <1>1, <2>1 DEF Served, OnWay
  <2>2. CASE KeptFor(frozenEvents', s, r)
    BY <2>2 DEF Served, OnWay
  <2>3. CASE s = R /\ \E f \in frozenEvents : \E j \in 1..Len(f.kept) :
                 Is(f.kept[j], r) /\ e.recordTime - f.kept[j].recordTime > FREEZE_EVENT_TIMEOUT
    <3>0. PICK f \in frozenEvents : \E i \in 1..Len(f.kept) :
              Is(f.kept[i], r) /\ e.recordTime - f.kept[i].recordTime > FREEZE_EVENT_TIMEOUT
      BY <2>3
    <3>1. PICK j \in 1..Len(f.kept) :
              Is(f.kept[j], r) /\ e.recordTime - f.kept[j].recordTime > FREEZE_EVENT_TIMEOUT
      BY <3>0
    <3>2. f.kept[j].recordTime = recordTime[f.kept[j].pub]
      BY <1>5 DEF EntriesSound
    <3>3. f.kept[j].pub = r.pub
      BY <3>1 DEF Is
    <3>4. recordTime[w.pub] - recordTime[r.pub] > FREEZE_EVENT_TIMEOUT
      BY <1>4, <3>1, <3>2, <3>3
    <3>5. OutdatedBy(DealtWith', recordTime', s, r)
      BY <1>1, <1>2, <1>3, <2>3, <3>4 DEF OutdatedBy
    <3> QED
      BY <3>5 DEF Served
  <2> QED
    BY <1>6, <1>9, <2>1, <2>2, <2>3 DEF OnWay
<1>10. \A s \in OwnKey : \A r : ToldOf(told, s, r) => ToldOf(told', s, r)
  BY <1>1
<1> QED
  BY <1>3, <1>8, <1>9, <1>10, ServedKept

\* The worker is done with a record, all of whose receivers are past.
LEMMA ServedEnd ==
    ASSUME TypeInv, RecordInv, ServedInv, Steady, NotifyEnd
    PROVE  ServedInv'
<1> DEFINE w == worker.record
<1>1. /\ worker.at # "idle" /\ worker'.at = "idle" /\ done' = done \cup {w}
      /\ \A i \in 1..Len(w.receivers) : i < worker.nextReceiver
  BY EndFacts
<1>2. UNCHANGED <<frozenEvents, main, immediate, told, listening>>
  BY DEF NotifyEnd, registryVars
<1>3. DOMAIN w.receivers = 1..Len(w.receivers)
  BY <1>1, WorkerDomain
<1>4. DealtWith' = DealtWith
  BY <1>1 DEF DealtWith, WorkerRecords
<1>5. ASSUME NEW s, NEW r, Past(done', worker', s, r) PROVE Past(done, worker, s, r)
  <2>1. r \in done' /\ s \in ToSet(r.receivers)
    BY <1>1, <1>5 DEF Past
  <2>2. CASE r \in done
    BY <2>1, <2>2 DEF Past
  <2>3. CASE r = w
    <3>1. PICK i \in 1..Len(w.receivers) : w.receivers[i] = s
      BY <1>3, <2>1, <2>3 DEF ToSet
    <3> QED
      BY <1>1, <2>3, <3>1 DEF Past
  <2> QED
    BY <1>1, <2>1, <2>2, <2>3
<1>6. \A s \in OwnKey : \A r : OnWay(frozenEvents, main, immediate, s, r) => Served(s, r)'
  BY <1>2 DEF Served
<1>7. \A s \in OwnKey : \A r : ToldOf(told, s, r) => ToldOf(told', s, r)
  BY <1>2
<1> QED
  BY <1>4, <1>5, <1>6, <1>7, ServedKept

LEMMA ServedFindFrozen ==
    ASSUME TypeInv, RecordInv, ServedInv, Steady, FindFrozen
    PROVE  ServedInv'
<1>1. /\ worker.at # "idle" /\ worker'.at = "keep" /\ worker'.record = worker.record
      /\ worker'.nextReceiver = worker.nextReceiver
  <2>1. /\ worker.at # "idle"
        /\ worker = [at |-> worker.at, record |-> worker.record, nextReceiver |-> worker.nextReceiver,
                     deliveryState |-> worker.deliveryState]
    BY TypeParts, WorkerFields, ReceiverFacts DEF FindFrozen, WorkerType
  <2>2. worker' = [worker EXCEPT !.at = "keep"]
    BY DEF FindFrozen
  <2> QED
    BY <2>1, <2>2
<1>2. UNCHANGED <<frozenEvents, main, immediate, done, told>>
  BY DEF FindFrozen, registryVars, queueVars, ghostVars
<1>3. DealtWith' = DealtWith
  BY <1>1, <1>2 DEF DealtWith, WorkerRecords
<1>4. \A s \in OwnKey : \A r : Past(done', worker', s, r) => Past(done, worker, s, r)
  BY <1>1, <1>2 DEF Past
<1>5. \A s \in OwnKey : \A r : OnWay(frozenEvents, main, immediate, s, r) => Served(s, r)'
  BY <1>2 DEF Served
<1>6. \A s \in OwnKey : \A r : ToldOf(told, s, r) => ToldOf(told', s, r)
  BY <1>2
<1> QED
  BY <1>3, <1>4, <1>5, <1>6, ServedKept

LEMMA ServedTake ==
    ASSUME TypeInv, RecordInv, WaysInv, EventInv, ServedInv, Steady, TakeImmediate \/ TakeLow
    PROVE  ServedInv'
<1>1. worker.at = "idle" /\ UNCHANGED <<registryVars, main, done>>
      /\ immediate \in Seq(Tasks) /\ low \in Seq(Tasks)
  BY TypeParts DEF TakeImmediate, TakeLow, QueueTypes
<1>2. CASE TakeImmediate
  <2>1. immediate # <<>> /\ immediate' = Tail(immediate) /\ Run(Head(immediate))
    BY <1>2 DEF TakeImmediate
  <2>2. CASE NotifyFreezeEvents(Head(immediate))
    BY <1>1, <2>1, <2>2, ServedReplayed
  <2>3. CASE NotifyBegin(Head(immediate))
    <3>1. Head(immediate).do = "notify"
      BY <2>3 DEF NotifyBegin
    <3>2. \A s, r : PostedFor(immediate, s, r) => PostedFor(immediate', s, r)
      BY <1>1, <2>1, <3>1, PostedForTail
    <3> QED
      BY <1>1, <2>3, <3>2, ServedBegin
  <2> QED
    BY <2>1, <2>2, <2>3 DEF Run
<1>3. CASE TakeLow
  <2>1. low # <<>> /\ immediate' = immediate /\ Run(Head(low))
    BY <1>3 DEF TakeLow
  <2>2. Head(low) = low[1] /\ 1 \in 1..Len(low)
    BY <1>1, <2>1, HeadTailFacts
  <2>3. NotifyBegin(Head(low))
    BY <2>1, <2>2 DEF EventInv, OnlyNotifies, Run, NotifyFreezeEvents
  <2>4. \A s, r : PostedFor(immediate, s, r) => PostedFor(immediate', s, r)
    BY <2>1
  <2> QED
    BY <1>1, <2>3, <2>4, ServedBegin
<1> QED
  BY <1>2, <1>3

LEMMA ServedInvNext ==
    ASSUME TypeInv, RecordInv, EventInv, WaysInv, ServedInv, [Next]_vars
    PROVE  ServedInv'
<1>1. Steady
  BY StepsAreSteady
<1>2. CASE EnqueueUnorderedRecord \/ CollectFrozenEvents \/ PostReplay
  BY <1>1, <1>2, ServedEnqueue, ServedCollect, ServedPostReplay
<1>3. CASE WorkerStep
  BY <1>1, <1>3, ServedTake, ServedNotify, ServedFindFrozen, ServedKeep, ServedEnd DEF WorkerStep
<1>4. ASSUME UNCHANGED <<frozenEvents, immediate, worker, done, told>>,
             main' = main \/ main.at # "replay"
      PROVE  ServedInv'
  <2>1. \A s, r : OnWay(frozenEvents, main, immediate, s, r) =>
            OnWay(frozenEvents', main', immediate', s, r)
    BY <1>4 DEF OnWay
  <2> QED
    BY <1>1, <1>4, <2>1, OnWayIsServed, ServedIdle
<1>5. CASE PublishMapped
  BY <1>4, <1>5 DEF PublishMapped, registryVars, queueVars, ghostVars
<1>6. ASSUME NEW p \in Publications, PublishCommonEvent(p) PROVE ServedInv'
  BY <1>4, <1>6 DEF PublishCommonEvent, registryVars, queueVars
<1>7. ASSUME NEW s \in Subscribers, SubscribeCommonEvent(s) PROVE ServedInv'
  BY <1>4, <1>7 DEF SubscribeCommonEvent, InsertSubscriber, queueVars
<1>8. ASSUME NEW s \in Subscribers, UnsubscribeCommonEvent(s) \/ SubscriberDied(s) PROVE ServedInv'
  BY <1>1, <1>8, ServedRemove DEF UnsubscribeCommonEvent, SubscriberDied, queueVars, ghostVars
<1>9. ASSUME NEW u \in FreezeUids, Freeze(u) \/ Unfreeze(u) PROVE ServedInv'
  BY <1>4, <1>9 DEF Freeze, Unfreeze, UpdateFreezeInfo, queueVars, ghostVars
<1>10. CASE Tick \/ UNCHANGED vars
  BY <1>4, <1>10 DEF Tick, vars, registryVars, queueVars, ghostVars
<1> QED
  BY <1>2, <1>3, <1>5, <1>6, <1>7, <1>8, <1>9, <1>10 DEF Next, MainStep, Calling

\* s got every event that has been dealt with for it, may not have it, is gone,
\* or has it kept or on its way; only an event outdated by a newer one is dropped.
IsNotForgotten(s) ==
    \A r \in done : s \in ToSet(r.receivers) =>
        \/ WasTold(s, r) \/ OnItsWay(s, r) \/ Outdated(s, r)
        \/ <<s, r.pub>> \notin Permitted
        \/ s \notin listening

LEMMA ServedIsNotForgotten ==
    ASSUME TypeInv, ServedInv
    PROVE  \A s \in OwnKey : IsNotForgotten(s)
<1> SUFFICES ASSUME NEW s \in OwnKey, NEW r \in done, s \in ToSet(r.receivers)
             PROVE  \/ WasTold(s, r) \/ OnItsWay(s, r) \/ Outdated(s, r)
                    \/ <<s, r.pub>> \notin Permitted
                    \/ s \notin listening
  BY DEF IsNotForgotten
<1>1. Served(s, r)
  BY DEF ServedInv, Past
<1>2. DOMAIN told[s] = 1..Len(told[s])
  BY TypeParts DEF ToldType, OwnKey
<1>3. ToldOf(told, s, r) => WasTold(s, r)
  BY <1>2 DEF ToldOf, WasTold
<1>4. ASSUME NEW f \in FrozenEntries PROVE DOMAIN f.kept = 1..Len(f.kept)
  BY DEF FrozenEntries
<1>5. KeptFor(frozenEvents, s, r) => OnItsWay(s, r)
  <2>1. \A f \in frozenEvents : DOMAIN f.kept = 1..Len(f.kept)
    BY <1>4, TypeParts DEF RegistryTypes
  <2> QED
    BY <2>1 DEF KeptFor, OnItsWay
<1>6. main.at = "replay" /\ KeptFor(main.rest, s, r) => OnItsWay(s, r)
  <2>1. main.at = "replay" => \A f \in main.rest : DOMAIN f.kept = 1..Len(f.kept)
    BY <1>4, TypeParts, MainFields DEF MainType
  <2> QED
    BY <2>1 DEF KeptFor, OnItsWay
<1>7. PostedFor(immediate, s, r) => OnItsWay(s, r)
  <2>1. DOMAIN immediate = 1..Len(immediate)
    BY TypeParts DEF QueueTypes
  <2> QED
    BY <2>1 DEF PostedFor, OnItsWay
<1>8. OutdatedBy(DealtWith, recordTime, s, r) => Outdated(s, r)
  BY DEF OutdatedBy, Outdated, DealtWith, WorkerRecords
<1> QED
  BY <1>1, <1>3, <1>5, <1>6, <1>7, <1>8 DEF Served, OnWay

\* A subscriber with a key of its own in frozenEvents_ is not forgotten: freezing,
\* thawing and dying at any point of a delivery lose nothing, whatever the others do.
THEOREM OwnKeyIsNotForgotten == Spec => [](\A s \in OwnKey : IsNotForgotten(s))
<1> DEFINE I == RegistryInv /\ TypeInv /\ RecordInv /\ EventInv /\ WaysInv /\ ServedInv
<1>1. Init => I
  BY RegistryInvInit, TypeInvInit, RecordInvInit, EventInvInit, WaysInvInit, ServedInvInit
<1>2. I /\ [Next]_vars => I'
  BY RegistryInvNext, TypeInvNext, RecordInvNext, EventInvNext, WaysInvNext, ServedInvNext
<1>3. I => \A s \in OwnKey : IsNotForgotten(s)
  BY ServedIsNotForgotten
<1> QED
  BY <1>1, <1>2, <1>3, PTL DEF Spec

\* Where every subscriber has a key of its own, nobody is forgotten.
THEOREM NobodyForgottenPerKey ==
    ASSUME OwnKey = Subscribers
    PROVE  Spec => []NobodyForgotten
<1> DEFINE A == \A s \in OwnKey : IsNotForgotten(s)
<1>1. TypeInv /\ A => NobodyForgotten
  <2> SUFFICES ASSUME TypeInv, A, NEW r \in done, NEW s \in ToSet(r.receivers)
               PROVE  \/ WasTold(s, r) \/ OnItsWay(s, r) \/ Outdated(s, r)
                      \/ <<s, r.pub>> \notin Permitted
                      \/ s \notin listening
    BY DEF NobodyForgotten
  <2>1. r.receivers \in Seq(Subscribers)
    BY TypeParts, RecordFields DEF GhostTypes
  <2>2. s \in Subscribers
    BY <2>1 DEF ToSet
  <2> QED
    BY <2>2 DEF IsNotForgotten
<1>2. Spec => []TypeInv
  <2>1. Init => RegistryInv /\ TypeInv
    BY RegistryInvInit, TypeInvInit
  <2>2. RegistryInv /\ TypeInv /\ [Next]_vars => (RegistryInv /\ TypeInv)'
    BY RegistryInvNext, TypeInvNext
  <2> QED
    BY <2>1, <2>2, PTL DEF Spec
<1>3. Spec => []A
  BY OwnKeyIsNotForgotten
<1> QED
  BY <1>1, <1>2, <1>3, PTL
=============================================================================
