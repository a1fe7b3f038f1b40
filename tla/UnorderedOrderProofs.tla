------------------------ MODULE UnorderedOrderProofs ------------------------
(***************************************************************************)
(* What UnorderedDispatch promises about order: publications of a name are *)
(* heard in the order of publication, so are their replays, and of every   *)
(* sticky name the latest event is seen last.                              *)
(*                                                                         *)
(* LineInv orders what a subscriber was given, what the worker still has   *)
(* to give, what is queued and what main has in hand; ReplayInv what is    *)
(* kept, in hand, posted and told of what is replayed; StickyInv says that *)
(* the latest sticky event is somewhere on that line.                      *)
(***************************************************************************)
EXTENDS UnorderedDispatchProofs

-----------------------------------------------------------------------------
(* The order of what is on its way *)

\* p was not published later than q; and k need not come after l: they are for
\* different names, or in the order of publication.
NotLater(pubs, p, q) == \A i, j \in 1..Len(pubs) : pubs[i] = p /\ pubs[j] = q => i <= j
Before(pubs, k, l) == Name[k[1]] = Name[l[1]] /\ k[2] = l[2] => NotLater(pubs, k[1], l[1])

\* What waits for s in the queues, and what main is about to put there.
Queued(im, lo, s, k) == InQueue(im, s, k) \/ InQueue(lo, s, k)
Coming(m, s, k) == InMain(m, s, k) \/ InLoop(m, s, k)

\* What s was told directly, or as a replay.
ToldAs(t, s, k, replayed) == \E j \in 1..Len(t[s]) : Class(t[s][j]) = k /\ t[s][j].replayed = replayed

\* What the worker has dealt with for s; where s shares a key, only what was
\* told directly.
Given(f, m, im, t, s, k) ==
    \/ ToldAs(t, s, k, FALSE)
    \/ /\ s \in OwnKey
       /\ ToldAs(t, s, k, TRUE) \/ Posted(im, s, k) \/ InHand(m, s, k) \/ InEntries(f, s, k)
GivenSound(f, m, im, t, pubs, subs) ==
    \A s \in Subscribers, k \in Classes : Given(f, m, im, t, s, k) => s \in subs /\ k[1] \in ToSet(pubs)

\* The line: what was given, what the worker still has to give, what is queued,
\* what main has in hand, and what follows in its loop.
InLine(pubs, f, m, im, lo, w, t, s, k, l) ==
    /\ Given(f, m, im, t, s, k) /\ (Remaining(w, s, l) \/ Queued(im, lo, s, l) \/ Coming(m, s, l))
           => Before(pubs, k, l)
    /\ Remaining(w, s, k) /\ (Queued(im, lo, s, l) \/ Coming(m, s, l)) => Before(pubs, k, l)
    /\ Queued(im, lo, s, k) /\ Coming(m, s, l) => Before(pubs, k, l)
    /\ InMain(m, s, k) /\ InLoop(m, s, l) => Before(pubs, k, l)

\* Each queue and main's loop are in order themselves.
QueueInOrder(pubs, q) ==
    \A s \in Subscribers : \A i, j \in 1..Len(q) :
        (/\ i < j /\ q[i].do = "notify" /\ q[j].do = "notify"
         /\ s \in ToSet(q[i].record.receivers) /\ s \in ToSet(q[j].record.receivers))
        => Before(pubs, Class(q[i].record), Class(q[j].record))
LoopInOrder(pubs, m) ==
    m.at = "enqueue" =>
        \A s \in Subscribers : \A i, j \in 1..Len(m.rest) :
            i < j /\ s \in ToSet(m.rest[i].receivers) /\ s \in ToSet(m.rest[j].receivers)
            => Before(pubs, Class(m.rest[i]), Class(m.rest[j]))

\* A name has one queue.
IsSystem(k) == Name[k[1]] \in SystemEvents
OneQueueEach(im, lo) ==
    \A s \in Subscribers, k \in Classes :
        (InQueue(im, s, k) => IsSystem(k)) /\ (InQueue(lo, s, k) => ~IsSystem(k))

\* What main publishes, under its name and then under the mapped one, is the newest.
NewestInMain(pubs, m) ==
    (m.at = "map" \/ (m.at = "enqueue" /\ m.record.as = "named")) =>
        \A p \in Publications : NotLater(pubs, p, m.record.pub)

\* The inductive invariant of the line.
LineInv ==
    /\ IsInjective(published)
    /\ GivenSound(frozenEvents, main, immediate, told, published, known)
    /\ \A s \in Subscribers, k, l \in Classes :
           InLine(published, frozenEvents, main, immediate, low, worker, told, s, k, l)
    /\ QueueInOrder(published, immediate) /\ QueueInOrder(published, low)
    /\ LoopInOrder(published, main)
    /\ OneQueueEach(immediate, low)
    /\ NewestInMain(published, main)

\* What is kept, in hand and posted for a subscriber with a key of its own is in
\* order, and what was replayed comes first.
KeptInOrder(pubs, kept) ==
    \A i, j \in 1..Len(kept) : i < j => Before(pubs, Class(kept[i]), Class(kept[j]))
EntriesInOrder(pubs, entries) == \A f \in entries : f.owner \in OwnKey => KeptInOrder(pubs, f.kept)
PostedInOrder(pubs, q) ==
    \A i, j \in 1..Len(q) :
        (/\ i < j /\ q[i].do = "replay" /\ q[j].do = "replay"
         /\ q[i].to \in OwnKey /\ q[i].to = q[j].to)
        => Before(pubs, Class(q[i].event), Class(q[j].event))
ReplayInLine(pubs, f, m, im, t, s, k, l) ==
    /\ ToldAs(t, s, k, TRUE) /\ (Posted(im, s, l) \/ InHand(m, s, l) \/ InEntries(f, s, l))
           => Before(pubs, k, l)
    /\ Posted(im, s, k) /\ (InHand(m, s, l) \/ InEntries(f, s, l)) => Before(pubs, k, l)
    /\ InHand(m, s, k) /\ InEntries(f, s, l) => Before(pubs, k, l)

\* And so is what was told.
ToldInOrder(pubs, t) ==
    \A s \in Subscribers : \A i, j \in 1..Len(t[s]) :
        (/\ i < j /\ t[s][i].replayed = t[s][j].replayed
         /\ t[s][i].replayed => s \in OwnKey)
        => Before(pubs, Class(t[s][i]), Class(t[s][j]))

ReplayInv ==
    /\ EntriesInOrder(published, frozenEvents)
    /\ main.at = "replay" => EntriesInOrder(published, main.rest)
    /\ PostedInOrder(published, immediate)
    /\ \A s \in OwnKey, k, l \in Classes :
           ReplayInLine(published, frozenEvents, main, immediate, told, s, k, l)
    /\ ToldInOrder(published, told)

-----------------------------------------------------------------------------
(* Publications in order *)

LEMMA BeforeItself ==
    ASSUME IsInjective(published), published \in Seq(Publications), NEW k
    PROVE  Before(published, k, k)
BY DEF Before, NotLater, IsInjective

\* Publications stay in the order they have, and the next one is the newest.
LEMMA BeforeAppend ==
    ASSUME NEW pubs \in Seq(Publications), NEW p \in Publications, p \notin ToSet(pubs)
    PROVE  /\ \A k, l : Before(pubs, k, l) /\ k[1] \in ToSet(pubs) => Before(Append(pubs, p), k, l)
           /\ \A q : NotLater(Append(pubs, p), q, p)
           /\ IsInjective(pubs) => IsInjective(Append(pubs, p))
<1> DEFINE t == Append(pubs, p)
           n == Len(pubs)
<1>1. /\ n \in Nat /\ Len(t) = n + 1 /\ t[n + 1] = p /\ (\A i \in 1..n : t[i] = pubs[i])
      /\ \A i \in 1..n + 1 : i \in 1..n \/ i = n + 1
      /\ t \in Seq(Publications) /\ DOMAIN t = 1..n + 1 /\ DOMAIN pubs = 1..n
  BY AppendFacts
<1> HIDE DEF t, n
<1>2. \A i \in 1..n : pubs[i] # p
  BY <1>1 DEF ToSet
<1>3. ASSUME NEW k, NEW l, Before(pubs, k, l), k[1] \in ToSet(pubs) PROVE Before(t, k, l)
  <2> SUFFICES ASSUME Name[k[1]] = Name[l[1]], k[2] = l[2], NEW i \in 1..n + 1, NEW j \in 1..n + 1,
                      t[i] = k[1], t[j] = l[1]
               PROVE  i <= j
    BY <1>1 DEF Before, NotLater
  <2>1. k[1] # p
    BY <1>1, <1>2, <1>3 DEF ToSet
  <2>2. i \in 1..n
    BY <1>1, <2>1
  <2>3. CASE j = n + 1
    BY <1>1, <2>2, <2>3
  <2>4. CASE j \in 1..n
    <3>1. pubs[i] = k[1] /\ pubs[j] = l[1]
      BY <1>1, <2>2, <2>4
    <3> QED
      BY <1>3, <2>2, <2>4, <3>1 DEF Before, NotLater, n
  <2> QED
    BY <1>1, <2>3, <2>4
<1>4. ASSUME NEW q PROVE NotLater(t, q, p)
  <2> SUFFICES ASSUME NEW i \in 1..n + 1, NEW j \in 1..n + 1, t[i] = q, t[j] = p PROVE i <= j
    BY <1>1 DEF NotLater
  <2>1. j = n + 1
    BY <1>1, <1>2
  <2> QED
    BY <1>1, <2>1
<1>5. ASSUME IsInjective(pubs) PROVE IsInjective(t)
  <2> SUFFICES ASSUME NEW i \in 1..n + 1, NEW j \in 1..n + 1, t[i] = t[j] PROVE i = j
    BY <1>1 DEF IsInjective
  <2>1. CASE i \in 1..n /\ j \in 1..n
    BY <1>1, <1>5, <2>1 DEF IsInjective
  <2>2. CASE i = n + 1 \/ j = n + 1
    BY <1>1, <1>2, <2>2
  <2> QED
    BY <1>1, <2>1, <2>2
<1> QED
  BY <1>3, <1>4, <1>5 DEF t

\* The effect of a new task on the order of a queue.
LEMMA OrderAppend ==
    ASSUME NEW pubs, NEW q \in Seq(Tasks), NEW t \in Tasks, QueueInOrder(pubs, q),
           t.do = "notify" => \A s \in Subscribers, k \in Classes :
               s \in ToSet(t.record.receivers) /\ InQueue(q, s, k) => Before(pubs, k, Class(t.record))
    PROVE  QueueInOrder(pubs, Append(q, t))
<1> DEFINE u == Append(q, t)
<1>1. /\ u[Len(q) + 1] = t /\ (\A i \in 1..Len(q) : u[i] = q[i]) /\ Len(u) = Len(q) + 1 /\ Len(q) \in Nat
      /\ \A i \in 1..Len(u) : i \in 1..Len(q) \/ i = Len(q) + 1
      /\ \A i \in 1..Len(q) : q[i] \in Tasks
  BY AppendFacts
<1> HIDE DEF u
<1> SUFFICES ASSUME NEW s \in Subscribers, NEW i \in 1..Len(u), NEW j \in 1..Len(u), i < j,
                    u[i].do = "notify", u[j].do = "notify",
                    s \in ToSet(u[i].record.receivers), s \in ToSet(u[j].record.receivers)
             PROVE  Before(pubs, Class(u[i].record), Class(u[j].record))
  BY DEF QueueInOrder, u
<1>2. i \in 1..Len(q)
  BY <1>1
<1>3. CASE j \in 1..Len(q)
  <2>1. u[i] = q[i] /\ u[j] = q[j]
    BY <1>1, <1>2, <1>3
  <2> QED
    BY <1>2, <1>3, <2>1 DEF QueueInOrder
<1>4. CASE j = Len(q) + 1
  <2>1. u[i] = q[i] /\ u[j] = t
    BY <1>1, <1>2, <1>4
  <2>2. InQueue(q, s, Class(q[i].record))
    BY <1>2, <2>1 DEF InQueue, For
  <2>3. Class(q[i].record) \in Classes
    BY <1>1, <1>2, <2>1, TaskFields, ClassType
  <2> QED
    BY <2>1, <2>2, <2>3
<1> QED
  BY <1>1, <1>3, <1>4

\* The effect of taking the first task.
LEMMA OrderTail ==
    ASSUME NEW pubs, NEW q \in Seq(Tasks), q # <<>>, QueueInOrder(pubs, q)
    PROVE  /\ QueueInOrder(pubs, Tail(q))
           /\ Head(q).do = "notify" => \A s \in Subscribers : \A l :
                  s \in ToSet(Head(q).record.receivers) /\ InQueue(Tail(q), s, l)
                      => Before(pubs, Class(Head(q).record), l)
<1> DEFINE u == Tail(q)
           t == Head(q)
<1>1. /\ t = q[1] /\ 1 \in 1..Len(q) /\ Len(u) \in Nat
      /\ \A i \in 1..Len(u) : i + 1 \in 1..Len(q) /\ u[i] = q[i + 1]
  BY HeadTailFacts
<1> HIDE DEF u, t
<1>2. QueueInOrder(pubs, u)
  <2> SUFFICES ASSUME NEW s \in Subscribers, NEW i \in 1..Len(u), NEW j \in 1..Len(u), i < j,
                      u[i].do = "notify", u[j].do = "notify",
                      s \in ToSet(u[i].record.receivers), s \in ToSet(u[j].record.receivers)
               PROVE  Before(pubs, Class(u[i].record), Class(u[j].record))
    BY DEF QueueInOrder
  <2>1. i + 1 \in 1..Len(q) /\ j + 1 \in 1..Len(q) /\ i + 1 < j + 1 /\ u[i] = q[i + 1] /\ u[j] = q[j + 1]
    BY <1>1
  <2> QED
    BY <2>1 DEF QueueInOrder
<1>3. ASSUME t.do = "notify", NEW s \in Subscribers, NEW l,
             s \in ToSet(t.record.receivers), InQueue(u, s, l)
      PROVE  Before(pubs, Class(t.record), l)
  <2>1. PICK i \in 1..Len(u) : u[i].do = "notify" /\ For(u[i].record, s, l)
    BY <1>3 DEF InQueue
  <2>2. i + 1 \in 1..Len(q) /\ u[i] = q[i + 1] /\ 1 < i + 1
    BY <1>1
  <2>3. s \in ToSet(u[i].record.receivers) /\ Class(u[i].record) = l
    BY <2>1 DEF For
  <2> QED
    BY <1>1, <1>3, <2>1, <2>2, <2>3 DEF QueueInOrder
<1> QED
  BY <1>2, <1>3 DEF u, t

\* The effect of going on to the next record of main's loop.
LEMMA OrderLoopTail ==
    ASSUME NEW pubs, NEW rest \in Seq(EventRecords), rest # <<>>, NEW m, m.at = "enqueue", m.rest = rest,
           LoopInOrder(pubs, m)
    PROVE  LET m2 == Enqueueing(Head(rest), Tail(rest)) IN
           /\ LoopInOrder(pubs, m2)
           /\ \A s \in Subscribers : \A k, l : InMain(m2, s, k) /\ InLoop(m2, s, l) => Before(pubs, k, l)
<1> DEFINE u == Tail(rest)
           t == Head(rest)
           m2 == Enqueueing(t, u)
<1>1. /\ t = rest[1] /\ 1 \in 1..Len(rest) /\ Len(u) \in Nat
      /\ \A i \in 1..Len(u) : i + 1 \in 1..Len(rest) /\ u[i] = rest[i + 1]
  BY HeadTailFacts
<1>2. m2.at = "enqueue" /\ m2.record = t /\ m2.rest = u
  BY DEF Enqueueing
<1> HIDE DEF u, t, m2
<1>3. LoopInOrder(pubs, m2)
  <2> SUFFICES ASSUME NEW s \in Subscribers, NEW i \in 1..Len(u), NEW j \in 1..Len(u), i < j,
                      s \in ToSet(u[i].receivers), s \in ToSet(u[j].receivers)
               PROVE  Before(pubs, Class(u[i]), Class(u[j]))
    BY <1>2 DEF LoopInOrder
  <2>1. /\ i + 1 \in 1..Len(rest) /\ j + 1 \in 1..Len(rest) /\ i + 1 < j + 1
        /\ u[i] = rest[i + 1] /\ u[j] = rest[j + 1]
    BY <1>1
  <2> QED
    BY <2>1 DEF LoopInOrder
<1>4. ASSUME NEW s \in Subscribers, NEW k, NEW l, InMain(m2, s, k), InLoop(m2, s, l)
      PROVE  Before(pubs, k, l)
  <2>1. PICK i \in 1..Len(u) : For(u[i], s, l)
    BY <1>2, <1>4 DEF InLoop
  <2>2. i + 1 \in 1..Len(rest) /\ u[i] = rest[i + 1] /\ 1 < i + 1
    BY <1>1
  <2>3. s \in ToSet(t.receivers) /\ Class(t) = k /\ s \in ToSet(u[i].receivers) /\ Class(u[i]) = l
    BY <1>2, <1>4, <2>1 DEF InMain, For
  <2> QED
    BY <1>1, <2>2, <2>3 DEF LoopInOrder
<1> QED
  BY <1>3, <1>4 DEF u, t, m2

-----------------------------------------------------------------------------
(* The line stays in order *)

\* What is on its way is of a publication, for somebody who subscribed.
LEMMA InLineSound ==
    ASSUME TypeInv, RecordInv, NEW s, NEW k,
           Remaining(worker, s, k) \/ Queued(immediate, low, s, k) \/ Coming(main, s, k)
    PROVE  s \in known /\ k[1] \in ToSet(published)
<1>1. PICK r \in Records : For(r, s, k)
  BY PlacesAreRecords, WorkerDomain DEF Queued, Coming, Records
<1>2. Sound(r, ToSet(published), known) /\ s \in ToSet(r.receivers) /\ k = Class(r)
  BY <1>1 DEF RecordInv, For
<1>3. k[1] = r.pub
  BY <1>2 DEF Class
<1> QED
  BY <1>2, <1>3 DEF Sound

LEMMA LineInvInit == Init => LineInv
<1> SUFFICES ASSUME Init PROVE LineInv
  OBVIOUS
<1>1. /\ published = <<>> /\ low = <<>> /\ immediate = <<>> /\ frozenEvents = {}
      /\ main.at = "idle" /\ worker.at = "idle" /\ told = [s \in Subscribers |-> <<>>]
  BY DEF Init, RegistryInit, Idle
<1>2. Len(low) = 0 /\ Len(immediate) = 0 /\ \A s \in Subscribers : Len(told[s]) = 0
  BY <1>1
<1>3. \A s \in Subscribers, k \in Classes : ~Given(frozenEvents, main, immediate, told, s, k)
  BY <1>1, <1>2 DEF Given, ToldAs, Posted, InHand, InEntries
<1>4. \A s, k : ~Remaining(worker, s, k) /\ ~Queued(immediate, low, s, k) /\ ~Coming(main, s, k)
  BY <1>1, <1>2 DEF Remaining, Queued, InQueue, Coming, InMain, InLoop
<1>5. QueueInOrder(published, immediate) /\ QueueInOrder(published, low) /\ LoopInOrder(published, main)
  BY <1>1, <1>2 DEF QueueInOrder, LoopInOrder
<1>6. OneQueueEach(immediate, low) /\ NewestInMain(published, main) /\ IsInjective(published)
  BY <1>1, <1>4 DEF OneQueueEach, NewestInMain, Queued, IsInjective
<1>7. ASSUME NEW s \in Subscribers, NEW k \in Classes, NEW l \in Classes
      PROVE  InLine(published, frozenEvents, main, immediate, low, worker, told, s, k, l)
  BY <1>3, <1>4 DEF InLine, Coming
<1> QED
  BY <1>3, <1>5, <1>6, <1>7 DEF LineInv, GivenSound

\* When nothing is new in the line and nothing has moved.
LEMMA LineKept ==
    ASSUME LineInv, published' = published, known \subseteq known',
           main' = main \/ main'.at \notin {"enqueue", "map"},
           \A s \in Subscribers, k \in Classes :
               /\ Given(frozenEvents', main', immediate', told', s, k)
                      => Given(frozenEvents, main, immediate, told, s, k)
               /\ Remaining(worker', s, k) => Remaining(worker, s, k)
               /\ InQueue(immediate', s, k) => InQueue(immediate, s, k)
               /\ InQueue(low', s, k) => InQueue(low, s, k),
           QueueInOrder(published, immediate'), QueueInOrder(published, low')
    PROVE  LineInv'
<1>1. \A s, k : (InMain(main', s, k) => InMain(main, s, k)) /\ (InLoop(main', s, k) => InLoop(main, s, k))
  BY DEF InMain, InLoop
<1>2. GivenSound(frozenEvents', main', immediate', told', published', known')
  BY DEF LineInv, GivenSound
<1>3. ASSUME NEW s \in Subscribers, NEW k \in Classes, NEW l \in Classes
      PROVE  InLine(published', frozenEvents', main', immediate', low', worker', told', s, k, l)
  <2>1. InLine(published, frozenEvents, main, immediate, low, worker, told, s, k, l)
    BY DEF LineInv
  <2> QED
    BY <1>1, <2>1 DEF InLine, Queued, Coming
<1>4. LoopInOrder(published', main') /\ NewestInMain(published', main')
  BY DEF LineInv, LoopInOrder, NewestInMain
<1>5. OneQueueEach(immediate', low')
  BY DEF LineInv, OneQueueEach
<1> QED
  BY <1>2, <1>3, <1>4, <1>5 DEF LineInv

\* The records in main's hands are new, and come after everything that is not.
LEMMA LineNew ==
    ASSUME TypeInv, RecordInv, LineInv, main.at \notin {"enqueue", "replay"}, main'.at = "enqueue",
           UNCHANGED <<frozenEvents, immediate, low, worker, told>>, known \subseteq known',
           ToSet(published) \subseteq ToSet(published'), IsInjective(published'),
           \A k, l : Before(published, k, l) /\ k[1] \in ToSet(published) => Before(published', k, l),
           \A s \in Subscribers, k, l \in Classes :
               (s \in known /\ k[1] \in ToSet(published) /\ Coming(main', s, l)) => Before(published', k, l),
           \A s \in Subscribers, k, l \in Classes :
               InMain(main', s, k) /\ InLoop(main', s, l) => Before(published', k, l),
           LoopInOrder(published', main'), NewestInMain(published', main')
    PROVE  LineInv'
<1>1. \A s, k : ~Coming(main, s, k) /\ ~InHand(main, s, k) /\ ~InHand(main', s, k)
  BY DEF Coming, InMain, InLoop, InHand
<1>2. \A s, k : Given(frozenEvents', main', immediate', told', s, k)
                    <=> Given(frozenEvents, main, immediate, told, s, k)
  BY <1>1 DEF Given
<1>3. GivenSound(frozenEvents', main', immediate', told', published', known')
  BY <1>2 DEF LineInv, GivenSound
<1>4. ASSUME NEW s \in Subscribers, NEW k \in Classes, NEW l \in Classes
      PROVE  InLine(published', frozenEvents', main', immediate', low', worker', told', s, k, l)
  <2>1. InLine(published, frozenEvents, main, immediate, low, worker, told, s, k, l)
    BY DEF LineInv
  <2>2. Given(frozenEvents, main, immediate, told, s, k) => s \in known /\ k[1] \in ToSet(published)
    BY DEF LineInv, GivenSound
  <2>3. Remaining(worker, s, k) \/ Queued(immediate, low, s, k) => s \in known /\ k[1] \in ToSet(published)
    BY InLineSound
  <2>4. Coming(main', s, l) /\ s \in known /\ k[1] \in ToSet(published) => Before(published', k, l)
    OBVIOUS
  <2>5. Before(published, k, l) /\ k[1] \in ToSet(published) => Before(published', k, l)
    OBVIOUS
  <2>6. InMain(main', s, k) /\ InLoop(main', s, l) => Before(published', k, l)
    OBVIOUS
  <2> QED
    BY <1>2, <2>1, <2>2, <2>3, <2>4, <2>5, <2>6 DEF InLine
<1>5. ASSUME NEW q \in {immediate, low} PROVE QueueInOrder(published', q)
  <2> SUFFICES ASSUME NEW s \in Subscribers, NEW i \in 1..Len(q), NEW j \in 1..Len(q), i < j,
                      q[i].do = "notify", q[j].do = "notify",
                      s \in ToSet(q[i].record.receivers), s \in ToSet(q[j].record.receivers)
               PROVE  Before(published', Class(q[i].record), Class(q[j].record))
    BY DEF QueueInOrder
  <2>1. QueueInOrder(published, q)
    BY <1>5 DEF LineInv
  <2>2. Before(published, Class(q[i].record), Class(q[j].record))
    BY <2>1 DEF QueueInOrder
  <2>3. InQueue(q, s, Class(q[i].record))
    BY DEF InQueue, For
  <2>4. Class(q[i].record)[1] \in ToSet(published)
    BY <1>5, <2>3, InLineSound DEF Queued
  <2> QED
    BY <2>2, <2>4
<1> QED
  BY <1>3, <1>4, <1>5 DEF LineInv

LEMMA LinePublish ==
    ASSUME TypeInv, RecordInv, LineInv, NEW p \in Publications, PublishCommonEvent(p)
    PROVE  LineInv'
<1>1. /\ main.at = "idle" /\ p \notin ToSet(published) /\ published' = Append(published, p)
      /\ main' = Enqueueing(EventRecord(p, "named", GetSubscriberRecords(Name[p], Passing[p])), <<>>)
      /\ UNCHANGED <<frozenEvents, immediate, low, worker, told, known>>
  BY DEF PublishCommonEvent, registryVars, queueVars
<1>2. main'.at = "enqueue" /\ main'.record.pub = p /\ Len(main'.rest) = 0
  BY <1>1 DEF Enqueueing, EventRecord
<1>3. published \in Seq(Publications) /\ IsInjective(published)
  BY TypeParts DEF GhostTypes, LineInv
<1>4. /\ \A k, l : Before(published, k, l) /\ k[1] \in ToSet(published) => Before(published', k, l)
      /\ \A q : NotLater(published', q, p)
      /\ IsInjective(published') /\ ToSet(published) \subseteq ToSet(published')
  BY <1>1, <1>3, BeforeAppend, AppendIsIn
<1>5. \A s, k : Coming(main', s, k) => k[1] = p
  BY <1>2 DEF Coming, InMain, InLoop, For, Class
<1>6. \A s, k, l : Coming(main', s, l) => Before(published', k, l)
  BY <1>4, <1>5 DEF Before
<1>7. \A s, k : ~InLoop(main', s, k)
  BY <1>2 DEF InLoop
<1>8. LoopInOrder(published', main') /\ NewestInMain(published', main')
  BY <1>2, <1>4 DEF LoopInOrder, NewestInMain
<1> QED
  BY <1>1, <1>2, <1>4, <1>6, <1>7, <1>8, LineNew

LEMMA LinePublishMapped == ASSUME TypeInv, RecordInv, LineInv, PublishMapped PROVE LineInv'
<1> DEFINE p == main.record.pub
<1>1. /\ main.at = "map"
      /\ main' = Enqueueing(EventRecord(p, "mapped", GetSubscriberRecords(Mapped[Name[p]], Passing[p])), <<>>)
      /\ UNCHANGED <<published, frozenEvents, immediate, low, worker, told, known>>
  BY DEF PublishMapped, registryVars, queueVars, ghostVars
<1>2. main'.at = "enqueue" /\ main'.record.pub = p /\ main'.record.as = "mapped" /\ Len(main'.rest) = 0
  BY <1>1 DEF Enqueueing, EventRecord
<1>3. \A q \in Publications : NotLater(published, q, p)
  BY <1>1 DEF LineInv, NewestInMain
<1> HIDE DEF p
<1>4. \A s, k : Coming(main', s, k) => k[1] = p
  BY <1>2 DEF Coming, InMain, InLoop, For, Class
<1>5. \A s, k, l : k[1] \in Publications /\ Coming(main', s, l) => Before(published', k, l)
  BY <1>1, <1>3, <1>4 DEF Before
<1>6. ToSet(published) \subseteq Publications
  <2>1. published \in Seq(Publications)
    BY TypeParts DEF GhostTypes
  <2> QED
    BY <2>1 DEF ToSet
<1>7. \A s, k : ~InLoop(main', s, k)
  BY <1>2 DEF InLoop
<1>8. LoopInOrder(published', main') /\ NewestInMain(published', main')
  BY <1>2 DEF LoopInOrder, NewestInMain
<1>9. IsInjective(published')
  BY <1>1 DEF LineInv
<1> QED
  BY <1>1, <1>2, <1>5, <1>6, <1>7, <1>8, <1>9, LineNew

LEMMA LineSubscribe ==
    ASSUME TypeInv, RecordInv, LineInv, NEW s \in Subscribers, SubscribeCommonEvent(s), StickyFor(s) # <<>>
    PROVE  LineInv'
<1> DEFINE new == StickyFor(s)
<1>1. /\ main.at = "idle" /\ main' = Enqueueing(Head(new), Tail(new))
      /\ UNCHANGED <<frozenEvents, immediate, low, worker, told, published>>
      /\ known' = known \cup {s} /\ s \notin known
  BY DEF SubscribeCommonEvent, InsertSubscriber, queueVars, storeVars
<1>2. new \in Seq(EventRecords) /\ new # <<>>
  BY StickyFacts, TypeParts DEF StoreTypes
<1>3. PICK found \in Seq(Names) :
                 /\ IsInjective(found) /\ Len(found) = Len(new)
                 /\ \A i \in 1..Len(found) :
                       /\ commonEventRecords[found[i]] \in Publications
                       /\ new[i] = EventRecord(commonEventRecords[found[i]], s, <<s>>)
  BY StickyFacts, TypeParts DEF StoreTypes
<1> HIDE DEF new
<1>4. DOMAIN found = 1..Len(new) /\ \A i \in 1..Len(new) : found[i] \in Names
  BY <1>3
<1>5. ASSUME NEW i \in 1..Len(new)
      PROVE  new[i].as = s /\ new[i].receivers = <<s>> /\ Name[new[i].pub] = found[i]
  <2>1. commonEventRecords[found[i]] \in Publications
        /\ new[i] = EventRecord(commonEventRecords[found[i]], s, <<s>>)
    BY <1>3
  <2>2. /\ new[i].as = s /\ new[i].receivers = <<s>> /\ new[i].pub = commonEventRecords[found[i]]
    BY <2>1 DEF EventRecord
  <2>3. commonEventRecords[found[i]] # None
    BY <2>1, UnorderedAssumption
  <2> QED
    BY <1>4, <2>1, <2>2, <2>3 DEF RecordInv, StoreIsTrue
<1> DEFINE m == Enqueueing(Head(new), new)
<1>6. m.at = "enqueue" /\ m.rest = new
  BY DEF Enqueueing
<1> HIDE DEF m
<1>7. LoopInOrder(published, m)
  <2> SUFFICES ASSUME NEW i \in 1..Len(new), NEW j \in 1..Len(new), i < j
               PROVE  Before(published, Class(new[i]), Class(new[j]))
    BY <1>6 DEF LoopInOrder
  <2>1. found[i] # found[j]
    BY <1>3, <1>4 DEF IsInjective
  <2>2. Name[Class(new[i])[1]] # Name[Class(new[j])[1]]
    BY <1>5, <2>1 DEF Class
  <2> QED
    BY <2>2 DEF Before
<1>8. /\ LoopInOrder(published, main')
      /\ \A t \in Subscribers : \A k, l : InMain(main', t, k) /\ InLoop(main', t, l) => Before(published, k, l)
  BY <1>1, <1>2, <1>6, <1>7, OrderLoopTail
<1>9. main'.at = "enqueue" /\ main'.record = Head(new) /\ main'.rest = Tail(new)
  BY <1>1 DEF Enqueueing
<1>10. \A t, k : Coming(main', t, k) => t \notin known
  <2>1. Head(new) = new[1] /\ 1 \in 1..Len(new)
        /\ \A i \in 1..Len(Tail(new)) : i + 1 \in 1..Len(new) /\ Tail(new)[i] = new[i + 1]
    BY <1>2, HeadTailFacts
  <2>2. ToSet(<<s>>) = {s}
    BY DEF ToSet
  <2>3. \A i \in 1..Len(new) : \A x \in ToSet(new[i].receivers) : x = s
    BY <1>5, <2>2
  <2>4. ASSUME NEW t, NEW k, InMain(main', t, k) PROVE t = s
    <3>1. t \in ToSet(new[1].receivers)
      BY <1>9, <2>1, <2>4 DEF InMain, For
    <3> QED
      BY <2>1, <2>3, <3>1
  <2>5. ASSUME NEW t, NEW k, InLoop(main', t, k) PROVE t = s
    <3>1. PICK i \in 1..Len(Tail(new)) : t \in ToSet(Tail(new)[i].receivers)
      BY <1>9, <2>5 DEF InLoop, For
    <3>2. t \in ToSet(new[i + 1].receivers) /\ i + 1 \in 1..Len(new)
      BY <2>1, <3>1
    <3> QED
      BY <2>3, <3>2
  <2> QED
    BY <1>1, <2>4, <2>5 DEF Coming
<1>11. NewestInMain(published', main')
  <2>1. Head(new) = new[1] /\ 1 \in 1..Len(new)
    BY <1>2, HeadTailFacts
  <2>2. main'.record.as = s
    BY <1>5, <1>9, <2>1
  <2> QED
    BY <1>9, <2>2, UnorderedAssumption DEF NewestInMain
<1>12. IsInjective(published')
  BY <1>1 DEF LineInv
<1> QED
  BY <1>1, <1>8, <1>9, <1>10, <1>11, <1>12, LineNew

LEMMA ToldMore ==
    ASSUME told \in [Subscribers -> Seq(Received)], NEW s \in Subscribers, NEW e \in Received,
           told' = [told EXCEPT ![s] = Append(@, e)]
    PROVE  \A t \in Subscribers : \A k, b :
               ToldAs(told', t, k, b) => ToldAs(told, t, k, b) \/ (t = s /\ k = Class(e) /\ b = e.replayed)
<1> SUFFICES ASSUME NEW t \in Subscribers, NEW k, NEW b, ToldAs(told', t, k, b)
             PROVE  ToldAs(told, t, k, b) \/ (t = s /\ k = Class(e) /\ b = e.replayed)
  OBVIOUS
<1>1. PICK j \in 1..Len(told'[t]) : Class(told'[t][j]) = k /\ told'[t][j].replayed = b
  BY DEF ToldAs
<1>2. \/ j \in 1..Len(told[t]) /\ told'[t][j] = told[t][j]
      \/ t = s /\ told'[t][j] = e
  BY TellFacts
<1> QED
  BY <1>1, <1>2 DEF ToldAs

\* main's record is queued; it goes on to the next one of its loop.
LEMMA LineEnqueue == ASSUME TypeInv, RecordInv, LineInv, EnqueueUnorderedRecord PROVE LineInv'
<1> DEFINE r == main.record
           rest == main.rest
           task == [do |-> "notify", record |-> r]
<1>1. main.at = "enqueue" /\ r \in EventRecords /\ rest \in Seq(EventRecords)
  BY TypeParts, MainFields DEF EnqueueUnorderedRecord, MainType
<1>2. task \in Tasks /\ task.do = "notify" /\ task.record = r
  BY <1>1, TaskTypes
<1>3. main' = IF r.as = "named" /\ Name[r.pub] \in DOMAIN Mapped THEN [at |-> "map", record |-> r]
              ELSE IF rest = <<>> THEN Idle ELSE Enqueueing(Head(rest), Tail(rest))
  BY DEF EnqueueUnorderedRecord
<1>4. \/ IsImmediate(r) /\ immediate' = Append(immediate, task) /\ low' = low
      \/ ~IsImmediate(r) /\ low' = Append(low, task) /\ immediate' = immediate
  BY DEF EnqueueUnorderedRecord
<1>5. UNCHANGED <<frozenEvents, worker, told, published, known>>
  BY DEF EnqueueUnorderedRecord, registryVars, ghostVars
<1>6. immediate \in Seq(Tasks) /\ low \in Seq(Tasks)
  BY TypeParts DEF QueueTypes
<1> HIDE DEF task
<1>7. \A s, k : For(r, s, k) <=> InMain(main, s, k)
  BY <1>1 DEF InMain
<1>8. /\ LoopInOrder(published, main')
      /\ \A s, k : InMain(main', s, k) => InLoop(main, s, k)
      /\ \A s, k : InLoop(main', s, k) => InLoop(main, s, k)
      /\ \A s \in Subscribers : \A k, l : InMain(main', s, k) /\ InLoop(main', s, l) => Before(published, k, l)
      /\ NewestInMain(published, main') /\ main'.at # "replay"
  <2>1. CASE main' = [at |-> "map", record |-> r] /\ r.as = "named"
    <3>1. main'.at = "map" /\ main'.record = r
      BY <2>1
    <3>2. \A p \in Publications : NotLater(published, p, r.pub)
      BY <1>1, <2>1 DEF LineInv, NewestInMain
    <3> HIDE DEF r
    <3> QED
      BY <3>1, <3>2 DEF InMain, InLoop, LoopInOrder, NewestInMain
  <2>2. CASE main' = Idle
    <3>1. main'.at = "idle"
      BY <2>2 DEF Idle
    <3> QED
      BY <3>1 DEF InMain, InLoop, LoopInOrder, NewestInMain
  <2>3. CASE rest # <<>> /\ main' = Enqueueing(Head(rest), Tail(rest))
    <3>1. main'.at = "enqueue"
      BY <2>3 DEF Enqueueing
    <3>2. LoopInOrder(published, main) /\ LoopIsSticky(main)
      BY DEF LineInv, RecordInv
    <3>3. /\ LoopInOrder(published, main')
          /\ \A s \in Subscribers : \A k, l : InMain(main', s, k) /\ InLoop(main', s, l) => Before(published, k, l)
      BY <1>1, <2>3, <3>2, OrderLoopTail
    <3>4. /\ \A s, k : InMain(main', s, k) \/ InLoop(main', s, k) => InLoop(main, s, k)
          /\ main'.record.as \in Subscribers
      BY <1>1, <2>3, <3>2, LoopTail
    <3>5. NewestInMain(published, main')
      BY <3>1, <3>4, UnorderedAssumption DEF NewestInMain
    <3> QED
      BY <3>1, <3>3, <3>4, <3>5
  <2> QED
    BY <1>3, <2>1, <2>2, <2>3
<1>9. ASSUME NEW q \in {immediate, low} PROVE QueueInOrder(published, Append(q, task))
  <2>1. QueueInOrder(published, q) /\ q \in Seq(Tasks)
    BY <1>6, <1>9 DEF LineInv
  <2>2. ASSUME NEW s \in Subscribers, NEW k \in Classes, s \in ToSet(r.receivers), InQueue(q, s, k)
        PROVE  Before(published, k, Class(r))
    <3>1. InMain(main, s, Class(r)) /\ Class(r) \in Classes
      BY <1>1, <1>7, <2>2, ClassType DEF For
    <3>2. Queued(immediate, low, s, k) /\ Coming(main, s, Class(r))
      BY <1>9, <2>2, <3>1 DEF Queued, Coming
    <3> QED
      BY <3>1, <3>2 DEF LineInv, InLine
  <2> QED
    BY <1>2, <2>1, <2>2, OrderAppend
<1>10. /\ \A s, k : InQueue(immediate', s, k) => InQueue(immediate, s, k) \/ (InMain(main, s, k) /\ IsImmediate(r))
       /\ \A s, k : InQueue(low', s, k) => InQueue(low, s, k) \/ (InMain(main, s, k) /\ ~IsImmediate(r))
       /\ QueueInOrder(published, immediate') /\ QueueInOrder(published, low')
  <2>1. QueueInOrder(published, immediate) /\ QueueInOrder(published, low)
    BY DEF LineInv
  <2>2. CASE IsImmediate(r) /\ immediate' = Append(immediate, task) /\ low' = low
    BY <1>2, <1>6, <1>7, <1>9, <2>1, <2>2, QueueAppend
  <2>3. CASE ~IsImmediate(r) /\ low' = Append(low, task) /\ immediate' = immediate
    BY <1>2, <1>6, <1>7, <1>9, <2>1, <2>3, QueueAppend
  <2> QED
    BY <1>4, <2>2, <2>3
<1>11. \A s, k : Posted(immediate', s, k) => Posted(immediate, s, k)
  BY <1>2, <1>4, <1>6, PostedAppend
<1>12. \A s, k : Given(frozenEvents', main', immediate', told', s, k)
                     => Given(frozenEvents, main, immediate, told, s, k)
  BY <1>5, <1>8, <1>11 DEF Given, InHand
<1>13. GivenSound(frozenEvents', main', immediate', told', published', known')
  BY <1>5, <1>12 DEF LineInv, GivenSound
<1>14. ASSUME NEW s \in Subscribers, NEW k \in Classes, NEW l \in Classes
      PROVE  InLine(published', frozenEvents', main', immediate', low', worker', told', s, k, l)
  <2>1. InLine(published, frozenEvents, main, immediate, low, worker, told, s, k, l)
    BY DEF LineInv
  <2>2. /\ Given(frozenEvents', main', immediate', told', s, k)
               => Given(frozenEvents, main, immediate, told, s, k)
        /\ Queued(immediate', low', s, k) => Queued(immediate, low, s, k) \/ InMain(main, s, k)
        /\ Queued(immediate', low', s, l) => Queued(immediate, low, s, l) \/ InMain(main, s, l)
        /\ Coming(main', s, l) => InLoop(main, s, l)
    BY <1>8, <1>10, <1>12 DEF Queued, Coming
  <2>3. InMain(main', s, k) /\ InLoop(main', s, l) => Before(published, k, l)
    BY <1>8
  <2> HIDE DEF r
  <2> QED
    BY <1>5, <2>1, <2>2, <2>3 DEF InLine, Coming
<1>15. OneQueueEach(immediate', low')
  <2>1. \A s, k : InMain(main, s, k) => (IsSystem(k) <=> IsImmediate(r))
    <3>1. \A s, k : For(r, s, k) => k[1] = r.pub
      BY DEF For, Class
    <3> QED
      BY <1>7, <3>1 DEF IsSystem, IsImmediate
  <2> QED
    BY <1>10, <2>1 DEF LineInv, OneQueueEach
<1> QED
  BY <1>5, <1>8, <1>10, <1>13, <1>14, <1>15 DEF LineInv

\* The worker begins with a record that was queued.
LEMMA LineBegin ==
    ASSUME TypeInv, RecordInv, LineInv, NEW q \in {immediate, low}, q # <<>>, worker.at = "idle",
           NotifyBegin(Head(q)),
           \/ q = immediate /\ immediate' = Tail(q) /\ low' = low
           \/ q = low /\ low' = Tail(q) /\ immediate' = immediate,
           UNCHANGED <<frozenEvents, main, published, known>>
    PROVE  LineInv'
<1>1. q \in Seq(Tasks) /\ Head(q) \in Tasks /\ QueueInOrder(published, q)
  <2>1. q \in Seq(Tasks) /\ QueueInOrder(published, q)
    BY TypeParts DEF QueueTypes, LineInv
  <2> QED
    BY <2>1, HeadTailFacts
<1> DEFINE t == Head(q)
           c == Class(t.record)
<1>2. /\ t.do = "notify" /\ t.record \in EventRecords /\ told' = told
      /\ worker'.at = "notify" /\ worker'.record = t.record /\ worker'.nextReceiver = 1
  BY <1>1, TaskFields DEF NotifyBegin
<1>3. /\ \A s, k : InQueue(Tail(q), s, k) => InQueue(q, s, k)
      /\ \A s, k : For(t.record, s, k) => InQueue(q, s, k)
      /\ \A s, k : Posted(Tail(q), s, k) => Posted(q, s, k)
      /\ QueueInOrder(published, Tail(q))
      /\ \A s \in Subscribers : \A l :
             s \in ToSet(t.record.receivers) /\ InQueue(Tail(q), s, l) => Before(published, c, l)
  BY <1>1, <1>2, QueueTail, PostedTail, OrderTail
<1> HIDE DEF t, c
<1>4. \A s, k : Remaining(worker', s, k) => For(t.record, s, k)
  <2>1. DOMAIN t.record.receivers = 1..Len(t.record.receivers)
    BY <1>2, RecordFields
  <2> QED
    BY <1>2, <2>1 DEF Remaining, For, ToSet
<1>5. \A s, k : /\ InQueue(immediate', s, k) => InQueue(immediate, s, k)
                /\ InQueue(low', s, k) => InQueue(low, s, k)
                /\ Posted(immediate', s, k) => Posted(immediate, s, k)
  BY <1>3
<1>6. \A s, k : Given(frozenEvents', main', immediate', told', s, k)
                     => Given(frozenEvents, main, immediate, told, s, k)
  BY <1>2, <1>5 DEF Given
<1>7. GivenSound(frozenEvents', main', immediate', told', published', known')
  BY <1>6 DEF LineInv, GivenSound
<1>8. ASSUME NEW s \in Subscribers, NEW k \in Classes, NEW l \in Classes,
             Remaining(worker', s, k), Queued(immediate', low', s, l)
      PROVE  Before(published, k, l)
  <2>1. s \in ToSet(t.record.receivers) /\ k = c
    BY <1>4, <1>8 DEF For, c
  <2>2. InQueue(q, s, k)
    BY <1>3, <1>4, <1>8
  <2>3. CASE InQueue(Tail(q), s, l)
    BY <1>3, <2>1, <2>3
  <2>4. CASE ~InQueue(Tail(q), s, l)
    <3>1. \/ q = immediate /\ InQueue(low, s, l)
          \/ q = low /\ InQueue(immediate, s, l)
      BY <1>8, <2>4 DEF Queued
    <3>2. IsSystem(k) # IsSystem(l)
      BY <2>2, <3>1 DEF LineInv, OneQueueEach
    <3>3. Name[k[1]] # Name[l[1]]
      BY <3>2 DEF IsSystem
    <3> QED
      BY <3>3 DEF Before
  <2> QED
    BY <2>3, <2>4
<1>9. ASSUME NEW s \in Subscribers, NEW k \in Classes, NEW l \in Classes
      PROVE  InLine(published', frozenEvents', main', immediate', low', worker', told', s, k, l)
  <2>1. InLine(published, frozenEvents, main, immediate, low, worker, told, s, k, l)
    BY DEF LineInv
  <2>2. /\ Given(frozenEvents', main', immediate', told', s, k)
               => Given(frozenEvents, main, immediate, told, s, k)
        /\ Queued(immediate', low', s, k) => Queued(immediate, low, s, k)
        /\ Queued(immediate', low', s, l) => Queued(immediate, low, s, l)
        /\ Remaining(worker', s, k) => Queued(immediate, low, s, k)
        /\ Remaining(worker', s, l) => Queued(immediate, low, s, l)
    BY <1>3, <1>4, <1>5, <1>6 DEF Queued
  <2>3. Remaining(worker', s, k) /\ Queued(immediate', low', s, l) => Before(published, k, l)
    BY <1>8
  <2> QED
    BY <2>1, <2>2, <2>3 DEF InLine
<1>10. QueueInOrder(published, immediate') /\ QueueInOrder(published, low')
  BY <1>3 DEF LineInv
<1>11. OneQueueEach(immediate', low')
  BY <1>5 DEF LineInv, OneQueueEach
<1> QED
  BY <1>7, <1>9, <1>10, <1>11 DEF LineInv

\* The worker moves on from a receiver, who was told, or for whom it is kept.
LEMMA LineDeliver ==
    ASSUME TypeInv, RecordInv, LineInv, HasReceiver \/ worker.at = "keep",
           NEW state \in Deliveries, worker' = Delivered(state),
           UNCHANGED <<main, immediate, low, published, known>>,
           \A s \in Subscribers, k \in Classes :
               Given(frozenEvents', main', immediate', told', s, k) =>
                   \/ Given(frozenEvents, main, immediate, told, s, k)
                   \/ s = Receiver /\ k = Class(worker.record)
    PROVE  LineInv'
<1> DEFINE c == Class(worker.record)
<1>1. /\ worker'.record = worker.record
      /\ Remaining(worker, Receiver, c) /\ c \in Classes
      /\ \A s, k : Remaining(worker', s, k) => Remaining(worker, s, k) /\ s # Receiver
  BY MovedOn
<1>2. Receiver \in known /\ c[1] \in ToSet(published)
  BY <1>1, InLineSound
<1> HIDE DEF c
<1>3. GivenSound(frozenEvents', main', immediate', told', published', known')
  BY <1>2 DEF LineInv, GivenSound, c
<1>4. ASSUME NEW s \in Subscribers, NEW k \in Classes, NEW l \in Classes
      PROVE  InLine(published', frozenEvents', main', immediate', low', worker', told', s, k, l)
  <2>1. InLine(published, frozenEvents, main, immediate, low, worker, told, s, k, l)
    BY DEF LineInv
  <2>2. Given(frozenEvents', main', immediate', told', s, k) =>
            \/ Given(frozenEvents, main, immediate, told, s, k)
            \/ s = Receiver /\ k = c
    BY DEF c
  <2> QED
    BY <1>1, <2>1, <2>2 DEF InLine
<1> QED
  BY <1>3, <1>4 DEF LineInv

\* What PublishFreezeCommonEvent takes into its hands.
LEMMA CollectFacts ==
    ASSUME EventInv, CollectFrozenEvents
    PROVE  /\ UNCHANGED <<low, immediate, told, done, worker, published, known>>
           /\ \A s, k : ~InHand(main, s, k)
           /\ \A s, k : InEntries(frozenEvents', s, k) => InEntries(frozenEvents, s, k)
           /\ \A s, k : InHand(main', s, k) => InEntries(frozenEvents, s, k)
           /\ \A s \in OwnKey : \A k, l : ~(InHand(main', s, k) /\ InEntries(frozenEvents', s, l))
           /\ frozenEvents' \subseteq frozenEvents /\ main'.at \in {"idle", "replay"}
           /\ main'.at = "replay" => main'.rest \subseteq frozenEvents
<1> DEFINE F == FrozenEventsOf(main.uid)
<1>1. /\ main.at = "collect" /\ frozenEvents' = frozenEvents \ F
      /\ main' = IF F = {} THEN Idle ELSE [at |-> "replay", rest |-> F]
      /\ UNCHANGED <<low, immediate, told, done, worker, published, known>>
  BY DEF CollectFrozenEvents, GetFrozenEvents, queueVars, ghostVars
<1>2. F \subseteq frozenEvents
  BY DEF FrozenEventsOf
<1> HIDE DEF F
<1>3. main'.at \in {"idle", "replay"} /\ (main'.at = "replay" => main'.rest = F)
  BY <1>1 DEF Idle
<1>4. \A s, k : InEntries(F, s, k) => InEntries(frozenEvents, s, k)
  BY <1>2 DEF InEntries
<1>5. \A s, k : InHand(main', s, k) => InEntries(F, s, k)
  BY <1>3 DEF InHand
<1>6. ASSUME NEW s \in OwnKey, NEW k, NEW l, InHand(main', s, k), InEntries(frozenEvents', s, l) PROVE FALSE
  <2>1. PICK f \in frozenEvents' : f.owner = s
    BY <1>6 DEF InEntries
  <2>2. PICK g \in F : g.owner = s
    BY <1>5, <1>6 DEF InEntries
  <2> QED
    BY <1>1, <1>2, <2>1, <2>2 DEF EventInv, OnceInEntries
<1>7. \A s, k : InEntries(frozenEvents', s, k) => InEntries(frozenEvents, s, k)
  BY <1>1 DEF InEntries
<1>8. \A s, k : ~InHand(main, s, k)
  BY <1>1 DEF InHand
<1> QED
  BY <1>1, <1>2, <1>3, <1>4, <1>5, <1>6, <1>7, <1>8

LEMMA LineCollect == ASSUME TypeInv, EventInv, LineInv, CollectFrozenEvents PROVE LineInv'
<1>1. /\ UNCHANGED <<low, immediate, told, worker, published, known>>
      /\ \A s, k : InEntries(frozenEvents', s, k) => InEntries(frozenEvents, s, k)
      /\ \A s, k : InHand(main', s, k) => InEntries(frozenEvents, s, k)
      /\ main'.at \in {"idle", "replay"}
  BY CollectFacts
<1>2. \A s \in Subscribers, k \in Classes :
          Given(frozenEvents', main', immediate', told', s, k) => Given(frozenEvents, main, immediate, told, s, k)
  BY <1>1 DEF Given
<1>3. QueueInOrder(published, immediate') /\ QueueInOrder(published, low')
  BY <1>1 DEF LineInv
<1> QED
  BY <1>1, <1>2, <1>3, LineKept

\* The first event in hand becomes the last one that is posted.
LEMMA PostedFacts ==
    ASSUME TypeInv, EventInv, PostReplay
    PROVE  \E f \in main.rest, task \in Tasks :
               /\ f \in FrozenEntries /\ f.kept # <<>> /\ main.at = "replay"
               /\ task.do = "replay" /\ task.to = f.owner /\ task.event = Head(f.kept)
               /\ Class(task.event) \in Classes
               /\ immediate' = Append(immediate, task)
               /\ main'.at \in {"idle", "replay"}
               /\ main'.at = "replay" => main'.rest = WithoutFirst(f)
               /\ \A s, k : InHand(main', s, k) =>
                      InHand(main, s, k) /\ InEntries(WithoutFirst(f), s, k)
               /\ InHand(main, f.owner, Class(task.event))
               /\ \A s, k : Posted(immediate', s, k) =>
                      Posted(immediate, s, k) \/ (s = f.owner /\ k = Class(task.event))
               /\ UNCHANGED <<frozenEvents, low, told, done, worker, published, known>>
<1>1. PICK f \in main.rest, task \in Tasks :
               /\ main.at = "replay" /\ f \in FrozenEntries /\ f.kept # <<>>
               /\ task.do = "replay" /\ task.to = f.owner /\ task.event = Head(f.kept)
               /\ task.event \in FrozenEvents
               /\ immediate' = Append(immediate, task)
               /\ \/ main'.at = "idle" /\ WithoutFirst(f) = {}
                  \/ main'.at = "replay" /\ main'.rest = WithoutFirst(f)
  BY PostFacts
<1>2. UNCHANGED <<frozenEvents, low, told, done, worker, published, known>>
  BY DEF PostReplay, registryVars, ghostVars
<1>3. /\ InEntries(main.rest, f.owner, Class(Head(f.kept)))
      /\ \A s, k : InEntries(WithoutFirst(f), s, k) => InEntries(main.rest, s, k)
  <2>1. OnceInEntries(main.rest)
    BY <1>1 DEF EventInv, OnceInHand
  <2> QED
    BY <1>1, <2>1, EntriesWithoutFirst
<1>4. /\ \A s, k : InHand(main', s, k) => InHand(main, s, k) /\ InEntries(WithoutFirst(f), s, k)
      /\ InHand(main, f.owner, Class(task.event))
  BY <1>1, <1>3 DEF InHand
<1>5. \A s, k : Posted(immediate', s, k) => Posted(immediate, s, k) \/ (s = f.owner /\ k = Class(task.event))
  <2>1. immediate \in Seq(Tasks)
    BY TypeParts DEF QueueTypes
  <2> QED
    BY <1>1, <2>1, PostedAppend
<1>6. Class(task.event) \in Classes
  BY <1>1, EventClass
<1> QED
  BY <1>1, <1>2, <1>4, <1>5, <1>6

LEMMA LinePostReplay == ASSUME TypeInv, EventInv, LineInv, PostReplay PROVE LineInv'
<1>1. PICK f \in main.rest, task \in Tasks :
               /\ task.do = "replay"
               /\ immediate' = Append(immediate, task)
               /\ main'.at \in {"idle", "replay"}
               /\ \A s, k : InHand(main', s, k) => InHand(main, s, k)
               /\ InHand(main, f.owner, Class(task.event))
               /\ \A s, k : Posted(immediate', s, k) =>
                      Posted(immediate, s, k) \/ (s = f.owner /\ k = Class(task.event))
               /\ UNCHANGED <<frozenEvents, low, told, worker, published, known>>
  BY PostedFacts
<1>2. immediate \in Seq(Tasks) /\ QueueInOrder(published, immediate)
  BY TypeParts DEF QueueTypes, LineInv
<1>3. /\ \A s, k : InQueue(immediate', s, k) => InQueue(immediate, s, k)
      /\ QueueInOrder(published, immediate')
  BY <1>1, <1>2, QueueAppend, OrderAppend
<1>4. \A s \in Subscribers, k \in Classes :
          Given(frozenEvents', main', immediate', told', s, k) => Given(frozenEvents, main, immediate, told, s, k)
  BY <1>1 DEF Given
<1>5. QueueInOrder(published, low')
  BY <1>1 DEF LineInv
<1> QED
  BY <1>1, <1>3, <1>4, <1>5, LineKept

\* A posted event is told, or may not be; it is no longer posted.
LEMMA ReplayedFacts ==
    ASSUME TypeInv, immediate # <<>>, NotifyFreezeEvents(Head(immediate)), immediate' = Tail(immediate)
    PROVE  LET task == Head(immediate) IN
           /\ task.do = "replay" /\ task.to \in Subscribers /\ worker' = worker
           /\ Class(task.event) \in Classes /\ Posted(immediate, task.to, Class(task.event))
           /\ \A s, k : Posted(immediate', s, k) => Posted(immediate, s, k)
           /\ \A s, k : InQueue(immediate', s, k) => InQueue(immediate, s, k)
           /\ \/ told' = told
              \/ \E e \in Received :
                    /\ Class(e) = Class(task.event) /\ e.replayed = TRUE
                    /\ told' = [told EXCEPT ![task.to] = Append(@, e)]
<1> DEFINE task == Head(immediate)
           s == task.to
           c == Class(task.event)
<1>1. immediate \in Seq(Tasks)
  BY TypeParts DEF QueueTypes
<1>2. /\ task \in Tasks /\ task.do = "replay" /\ worker' = worker
      /\ s \in Subscribers /\ task.event \in FrozenEvents
  <2>1. task \in Tasks
    BY <1>1, HeadTailFacts
  <2> QED
    BY <2>1, TaskFields DEF NotifyFreezeEvents
<1>3. /\ \A t, k : Posted(immediate', t, k) => Posted(immediate, t, k)
      /\ \A t, k : InQueue(immediate', t, k) => InQueue(immediate, t, k)
      /\ Posted(immediate, s, c)
  BY <1>1, <1>2, PostedTail, QueueTail
<1> DEFINE e == [pub |-> task.event.pub, as |-> task.event.as, action |-> action[task.event.pub],
                 replayed |-> TRUE]
<1>4. e \in Received /\ Class(e) = c /\ e.replayed = TRUE
  <2>1. action[task.event.pub] \in Names
    BY <1>2, EventFields, TypeParts DEF StoreTypes
  <2> QED
    BY <1>2, <2>1, EventFields DEF Received, Class
<1>5. told' = told \/ told' = [told EXCEPT ![s] = Append(@, e)]
  BY DEF NotifyFreezeEvents, Tell
<1>6. c \in Classes
  BY <1>2, EventClass
<1> HIDE DEF e
<1> QED
  BY <1>2, <1>3, <1>4, <1>5, <1>6

LEMMA LineReplayed ==
    ASSUME TypeInv, LineInv, immediate # <<>>, NotifyFreezeEvents(Head(immediate)),
           immediate' = Tail(immediate), UNCHANGED <<frozenEvents, main, low, published, known>>
    PROVE  LineInv'
<1> DEFINE o == Head(immediate).to
           c == Class(Head(immediate).event)
<1>1. /\ o \in Subscribers /\ worker' = worker /\ Posted(immediate, o, c)
      /\ \A s, k : Posted(immediate', s, k) => Posted(immediate, s, k)
      /\ \A s, k : InQueue(immediate', s, k) => InQueue(immediate, s, k)
      /\ \/ told' = told
         \/ \E e \in Received :
               /\ Class(e) = c /\ e.replayed = TRUE
               /\ told' = [told EXCEPT ![o] = Append(@, e)]
  BY ReplayedFacts
<1> HIDE DEF o, c
<1>2. told \in [Subscribers -> Seq(Received)] /\ immediate \in Seq(Tasks) /\ QueueInOrder(published, immediate)
      /\ QueueInOrder(published, low)
  BY TypeParts DEF ToldType, QueueTypes, LineInv
<1>3. QueueInOrder(published, immediate') /\ QueueInOrder(published, low')
  BY <1>2, OrderTail
<1>4. \A s \in Subscribers : \A k, b :
          ToldAs(told', s, k, b) => ToldAs(told, s, k, b) \/ (s = o /\ k = c /\ b = TRUE)
  <2>1. CASE told' = told
    BY <2>1
  <2>2. CASE \E e \in Received : /\ Class(e) = c /\ e.replayed = TRUE
                                 /\ told' = [told EXCEPT ![o] = Append(@, e)]
    <3>1. PICK e \in Received : /\ Class(e) = c /\ e.replayed = TRUE
                                /\ told' = [told EXCEPT ![o] = Append(@, e)]
      BY <2>2
    <3> QED
      BY <1>1, <1>2, <3>1, ToldMore
  <2> QED
    BY <1>1, <2>1, <2>2
<1>5. \A s \in Subscribers, k \in Classes :
          Given(frozenEvents', main', immediate', told', s, k) => Given(frozenEvents, main, immediate, told, s, k)
  BY <1>1, <1>4 DEF Given
<1> QED
  BY <1>1, <1>3, <1>5, LineKept

\* What is told directly.
LEMMA DirectFacts ==
    ASSUME TypeInv, HasReceiver, Tell(Receiver, worker.record, FALSE)
    PROVE  \E e \in Received :
               /\ Class(e) = Class(worker.record) /\ e.replayed = FALSE
               /\ told' = [told EXCEPT ![Receiver] = Append(@, e)]
<1> DEFINE w == worker.record
           e == [pub |-> w.pub, as |-> w.as, action |-> action[w.pub], replayed |-> FALSE]
<1>1. w \in EventRecords
  BY ReceiverFacts
<1>2. action[w.pub] \in Names
  BY <1>1, RecordFields, TypeParts DEF StoreTypes
<1>3. e \in Received /\ Class(e) = Class(w) /\ e.replayed = FALSE
  BY <1>1, <1>2, RecordFields DEF Received, Class
<1>4. told' = [told EXCEPT ![Receiver] = Append(@, e)]
  BY DEF Tell
<1> HIDE DEF e
<1> QED
  BY <1>3, <1>4

LEMMA LineNotify == ASSUME TypeInv, RecordInv, LineInv, NotifyReceiver PROVE LineInv'
<1>1. HasReceiver /\ UNCHANGED <<frozenEvents, main, immediate, low, published, known>>
  BY DEF NotifyReceiver, registryVars, queueVars
<1>2. CASE Tell(Receiver, worker.record, FALSE) /\ worker' = Delivered("DELIVERED")
  <2>1. PICK e \in Received :
               /\ Class(e) = Class(worker.record) /\ e.replayed = FALSE
               /\ told' = [told EXCEPT ![Receiver] = Append(@, e)]
    BY <1>1, <1>2, DirectFacts
  <2>2. told \in [Subscribers -> Seq(Received)] /\ Receiver \in Subscribers
    BY <1>1, TypeParts, ReceiverFacts DEF ToldType
  <2> DEFINE R == Receiver
             c == Class(worker.record)
  <2>3. \A s \in Subscribers : \A k, b :
            ToldAs(told', s, k, b) => ToldAs(told, s, k, b) \/ (s = R /\ k = c)
    <3>1. e \in Received /\ told' = [told EXCEPT ![Receiver] = Append(@, e)]
      BY <2>1
    <3>2. \A s \in Subscribers : \A k, b :
              ToldAs(told', s, k, b) =>
                  ToldAs(told, s, k, b) \/ (s = Receiver /\ k = Class(e) /\ b = e.replayed)
      BY ONLY <2>2, <3>1, ToldMore
    <3> QED
      BY <2>1, <3>2
  <2> HIDE DEF R, c
  <2>4. \A s \in Subscribers, k \in Classes :
            Given(frozenEvents', main', immediate', told', s, k) =>
                Given(frozenEvents, main, immediate, told, s, k) \/ (s = R /\ k = c)
    BY <1>1, <2>3 DEF Given
  <2> QED
    BY <1>1, <1>2, <2>4, LineDeliver DEF Deliveries, R, c
<1>3. CASE told' = told /\ worker' = Delivered("SKIPPED")
  <2>1. \A s \in Subscribers, k \in Classes :
            Given(frozenEvents', main', immediate', told', s, k) =>
                Given(frozenEvents, main, immediate, told, s, k)
    BY <1>1, <1>3 DEF Given
  <2> QED
    BY <1>1, <1>3, <2>1, LineDeliver DEF Deliveries
<1> QED
  BY <1>2, <1>3 DEF NotifyReceiver

\* What is kept for a subscriber with a key of its own.
LEMMA KeptFacts ==
    ASSUME TypeInv, EventInv, KeepFrozenEvent
    PROVE  /\ UNCHANGED <<main, immediate, low, told, published, known>>
           /\ worker' = Delivered("SKIPPED")
           /\ \A t \in OwnKey : \A k : InEntries(frozenEvents', t, k) =>
                  InEntries(frozenEvents, t, k) \/ (t = Receiver /\ k = Class(worker.record))
<1> DEFINE R == Receiver
           c == Class(worker.record)
           e == KeptEvent
<1>1. /\ e \in FrozenEvents /\ InsertFrozenEvents(R, e) /\ worker' = Delivered("SKIPPED")
      /\ UNCHANGED <<main, immediate, low, told, published, known>>
  BY KeepFacts DEF queueVars
<1>2. R \in Subscribers
  BY ReceiverFacts DEF KeepFrozenEvent
<1>3. Class(e) = c
  BY DEF Class, KeptEvent
<1> HIDE DEF R, c, e
<1>4. frozenEvents \subseteq FrozenEntries /\ Filled(frozenEvents) /\ OnceInEntries(frozenEvents)
  BY TypeParts DEF RegistryTypes, EventInv
<1>5. \A t \in OwnKey : \A k : InEntries(frozenEvents', t, k) => InEntries(frozenEvents, t, k) \/ (t = R /\ k = c)
  BY <1>1, <1>2, <1>3, <1>4, EntriesWith
<1> QED
  BY <1>1, <1>5 DEF R, c

LEMMA LineKeep == ASSUME TypeInv, RecordInv, EventInv, LineInv, KeepFrozenEvent PROVE LineInv'
<1> DEFINE R == Receiver
           c == Class(worker.record)
<1>1. /\ UNCHANGED <<main, immediate, low, told, published, known>>
      /\ worker' = Delivered("SKIPPED") /\ worker.at = "keep"
      /\ \A t \in OwnKey : \A k : InEntries(frozenEvents', t, k) => InEntries(frozenEvents, t, k) \/ (t = R /\ k = c)
  BY KeptFacts DEF KeepFrozenEvent
<1> HIDE DEF R, c
<1>2. \A s \in Subscribers, k \in Classes :
          Given(frozenEvents', main', immediate', told', s, k) =>
              Given(frozenEvents, main, immediate, told, s, k) \/ (s = R /\ k = c)
  BY <1>1 DEF Given
<1> QED
  BY <1>1, <1>2, LineDeliver DEF Deliveries, R, c

LEMMA LineTake == ASSUME TypeInv, RecordInv, LineInv, TakeImmediate \/ TakeLow, EventInv PROVE LineInv'
<1>1. worker.at = "idle" /\ UNCHANGED <<frozenEvents, main, published, known>>
  BY DEF TakeImmediate, TakeLow, registryVars
<1>2. CASE TakeImmediate
  <2>1. immediate # <<>> /\ immediate' = Tail(immediate) /\ low' = low /\ Run(Head(immediate))
    BY <1>2 DEF TakeImmediate
  <2>2. CASE NotifyFreezeEvents(Head(immediate))
    BY <1>1, <2>1, <2>2, LineReplayed
  <2>3. CASE NotifyBegin(Head(immediate))
    BY <1>1, <2>1, <2>3, LineBegin
  <2> QED
    BY <2>1, <2>2, <2>3 DEF Run
<1>3. CASE TakeLow
  <2>1. low # <<>> /\ low' = Tail(low) /\ immediate' = immediate /\ Run(Head(low))
    BY <1>3 DEF TakeLow
  <2>2. Head(low).do = "notify"
    <3>1. low \in Seq(Tasks) /\ OnlyNotifies(low)
      BY TypeParts DEF QueueTypes, EventInv
    <3>2. Head(low) = low[1] /\ 1 \in 1..Len(low)
      BY <2>1, <3>1, HeadTailFacts
    <3> QED
      BY <3>1, <3>2 DEF OnlyNotifies
  <2>3. NotifyBegin(Head(low))
    BY <2>1, <2>2 DEF Run, NotifyFreezeEvents
  <2> QED
    BY <1>1, <2>1, <2>3, LineBegin
<1> QED
  BY <1>2, <1>3

LEMMA LineInvNext ==
    ASSUME TypeInv, RecordInv, EventInv, LineInv, [Next]_vars
    PROVE  LineInv'
<1>1. ASSUME UNCHANGED <<low, immediate, told, published>>, known \subseteq known',
             frozenEvents' \subseteq frozenEvents,
             main' = main \/ main'.at \in {"idle", "collect"},
             \A s, k : Remaining(worker', s, k) => Remaining(worker, s, k)
      PROVE  LineInv'
  <2>1. \A s, k : /\ InEntries(frozenEvents', s, k) => InEntries(frozenEvents, s, k)
                  /\ InHand(main', s, k) => InHand(main, s, k)
    BY <1>1 DEF InEntries, InHand
  <2>2. \A s \in Subscribers, k \in Classes :
            Given(frozenEvents', main', immediate', told', s, k) => Given(frozenEvents, main, immediate, told, s, k)
    BY <1>1, <2>1 DEF Given
  <2>3. QueueInOrder(published, immediate') /\ QueueInOrder(published, low')
    BY <1>1 DEF LineInv
  <2> QED
    BY <1>1, <2>2, <2>3, LineKept
<1>2. CASE PublishMapped \/ EnqueueUnorderedRecord \/ CollectFrozenEvents \/ PostReplay
  BY <1>2, LinePublishMapped, LineEnqueue, LineCollect, LinePostReplay
<1>3. CASE TakeImmediate \/ TakeLow \/ NotifyReceiver \/ KeepFrozenEvent
  BY <1>3, LineTake, LineNotify, LineKeep
<1>4. CASE FindFrozen
  <2>1. \A s, k : Remaining(worker', s, k) <=> Remaining(worker, s, k)
    <3>1. /\ worker.at # "idle"
          /\ worker = [at |-> worker.at, record |-> worker.record, nextReceiver |-> worker.nextReceiver,
                       deliveryState |-> worker.deliveryState]
      BY <1>4, TypeParts, WorkerFields, ReceiverFacts DEF FindFrozen, WorkerType
    <3>2. worker' = [worker EXCEPT !.at = "keep"]
      BY <1>4 DEF FindFrozen
    <3>3. worker'.record = worker.record /\ worker'.nextReceiver = worker.nextReceiver /\ worker'.at = "keep"
      BY <3>1, <3>2
    <3> QED
      BY <3>1, <3>3 DEF Remaining
  <2> QED
    BY <1>1, <1>4, <2>1 DEF FindFrozen, registryVars, queueVars, ghostVars
<1>5. CASE NotifyEnd
  <2>1. \A s, k : ~Remaining(worker', s, k)
    BY <1>5, EndFacts DEF Remaining
  <2> QED
    BY <1>1, <1>5, <2>1 DEF NotifyEnd, registryVars
<1>6. ASSUME NEW p \in Publications, PublishCommonEvent(p) PROVE LineInv'
  BY <1>6, LinePublish
<1>7. ASSUME NEW s \in Subscribers, SubscribeCommonEvent(s) PROVE LineInv'
  <2>1. CASE StickyFor(s) # <<>>
    BY <1>7, <2>1, LineSubscribe
  <2>2. CASE StickyFor(s) = <<>>
    <3>1. main' = Idle /\ Idle.at = "idle"
      BY <1>7, <2>2 DEF SubscribeCommonEvent, Idle
    <3>2. UNCHANGED <<low, immediate, told, published, worker, frozenEvents>> /\ known \subseteq known'
      BY <1>7 DEF SubscribeCommonEvent, InsertSubscriber, queueVars
    <3> QED
      BY <1>1, <3>1, <3>2
  <2> QED
    BY <2>1, <2>2
<1>8. ASSUME NEW s \in Subscribers, UnsubscribeCommonEvent(s) \/ SubscriberDied(s) PROVE LineInv'
  BY <1>1, <1>8, FrozenAfterRemove DEF UnsubscribeCommonEvent, SubscriberDied, queueVars, ghostVars
<1>9. ASSUME NEW u \in FreezeUids, Freeze(u) PROVE LineInv'
  BY <1>1, <1>9 DEF Freeze, UpdateFreezeInfo, queueVars, ghostVars
<1>10. ASSUME NEW u \in FreezeUids, Unfreeze(u) PROVE LineInv'
  <2>1. main'.at = "collect"
    BY <1>10 DEF Unfreeze
  <2> QED
    BY <1>1, <1>10, <2>1 DEF Unfreeze, UpdateFreezeInfo, queueVars, ghostVars
<1>11. CASE Tick \/ UNCHANGED vars
  BY <1>1, <1>11 DEF Tick, vars, registryVars, queueVars, ghostVars
<1> QED
  BY <1>2, <1>3, <1>4, <1>5, <1>6, <1>7, <1>8, <1>9, <1>10, <1>11
     DEF Next, MainStep, WorkerStep, Calling

-----------------------------------------------------------------------------
(* What is replayed stays in order *)

\* The effect of a new task on the order of what is posted.
LEMMA PostedOrderAppend ==
    ASSUME NEW pubs, NEW q \in Seq(Tasks), NEW t \in Tasks, PostedInOrder(pubs, q),
           t.do = "replay" /\ t.to \in OwnKey => \A k \in Classes :
               Posted(q, t.to, k) => Before(pubs, k, Class(t.event))
    PROVE  PostedInOrder(pubs, Append(q, t))
<1> DEFINE u == Append(q, t)
<1>1. /\ u[Len(q) + 1] = t /\ (\A i \in 1..Len(q) : u[i] = q[i]) /\ Len(u) = Len(q) + 1 /\ Len(q) \in Nat
      /\ \A i \in 1..Len(u) : i \in 1..Len(q) \/ i = Len(q) + 1
      /\ \A i \in 1..Len(q) : q[i] \in Tasks
  BY AppendFacts
<1> HIDE DEF u
<1> SUFFICES ASSUME NEW i \in 1..Len(u), NEW j \in 1..Len(u), i < j,
                    u[i].do = "replay", u[j].do = "replay", u[i].to \in OwnKey, u[i].to = u[j].to
             PROVE  Before(pubs, Class(u[i].event), Class(u[j].event))
  BY DEF PostedInOrder, u
<1>2. i \in 1..Len(q)
  BY <1>1
<1>3. CASE j \in 1..Len(q)
  <2>1. u[i] = q[i] /\ u[j] = q[j]
    BY <1>1, <1>2, <1>3
  <2> QED
    BY <1>2, <1>3, <2>1 DEF PostedInOrder
<1>4. CASE j = Len(q) + 1
  <2>1. u[i] = q[i] /\ u[j] = t
    BY <1>1, <1>2, <1>4
  <2>2. Posted(q, t.to, Class(q[i].event))
    BY <1>2, <2>1 DEF Posted
  <2>3. Class(q[i].event) \in Classes
    BY <1>1, <1>2, <2>1, TaskFields, EventClass
  <2> QED
    BY <2>1, <2>2, <2>3
<1> QED
  BY <1>1, <1>3, <1>4

\* The effect of taking the first task.
LEMMA PostedOrderTail ==
    ASSUME NEW pubs, NEW q \in Seq(Tasks), q # <<>>, PostedInOrder(pubs, q)
    PROVE  /\ PostedInOrder(pubs, Tail(q))
           /\ Head(q).do = "replay" /\ Head(q).to \in OwnKey => \A l :
                  Posted(Tail(q), Head(q).to, l) => Before(pubs, Class(Head(q).event), l)
<1> DEFINE u == Tail(q)
           t == Head(q)
<1>1. /\ t = q[1] /\ 1 \in 1..Len(q) /\ Len(u) \in Nat
      /\ \A i \in 1..Len(u) : i + 1 \in 1..Len(q) /\ u[i] = q[i + 1]
  BY HeadTailFacts
<1> HIDE DEF u, t
<1>2. PostedInOrder(pubs, u)
  <2> SUFFICES ASSUME NEW i \in 1..Len(u), NEW j \in 1..Len(u), i < j,
                      u[i].do = "replay", u[j].do = "replay", u[i].to \in OwnKey, u[i].to = u[j].to
               PROVE  Before(pubs, Class(u[i].event), Class(u[j].event))
    BY DEF PostedInOrder
  <2>1. i + 1 \in 1..Len(q) /\ j + 1 \in 1..Len(q) /\ i + 1 < j + 1 /\ u[i] = q[i + 1] /\ u[j] = q[j + 1]
    BY <1>1
  <2> QED
    BY <2>1 DEF PostedInOrder
<1>3. ASSUME t.do = "replay", t.to \in OwnKey, NEW l, Posted(u, t.to, l)
      PROVE  Before(pubs, Class(t.event), l)
  <2>1. PICK i \in 1..Len(u) : u[i].do = "replay" /\ u[i].to = t.to /\ Class(u[i].event) = l
    BY <1>3 DEF Posted
  <2>2. i + 1 \in 1..Len(q) /\ u[i] = q[i + 1] /\ 1 < i + 1
    BY <1>1
  <2> QED
    BY <1>1, <1>3, <2>1, <2>2 DEF PostedInOrder
<1> QED
  BY <1>2, <1>3 DEF u, t

\* The effect of taking the first event of an entry.
LEMMA HandOrder ==
    ASSUME TypeInv, main.at = "replay", NEW f \in main.rest, OnceInEntries(main.rest), NEW pubs,
           EntriesInOrder(pubs, main.rest)
    PROVE  /\ EntriesInOrder(pubs, WithoutFirst(f))
           /\ f.owner \in OwnKey => \A l :
                  InEntries(WithoutFirst(f), f.owner, l) => Before(pubs, Class(Head(f.kept)), l)
<1> DEFINE u == f.kept
           t == Tail(u)
           W == WithoutFirst(f)
           rest == With(f, t)
<1>1. /\ f \in FrozenEntries /\ u # <<>>
      /\ \A g \in W : \/ g \in main.rest /\ g # f
                      \/ t # <<>> /\ g = rest
  BY WithoutFirstFacts
<1>2. u \in Seq(FrozenEvents)
  BY <1>1 DEF FrozenEntries
<1>3. /\ Head(u) = u[1] /\ 1 \in 1..Len(u) /\ t \in Seq(FrozenEvents) /\ Len(t) \in Nat
      /\ \A i \in 1..Len(t) : i + 1 \in 1..Len(u) /\ t[i] = u[i + 1]
  BY <1>1, <1>2, HeadTailFacts
<1>4. rest.owner = f.owner /\ rest.kept = t
  BY <1>1, <1>3, EntryFields
<1>5. /\ f.owner \in OwnKey => KeptInOrder(pubs, u)
      /\ \A g, h \in main.rest : g.owner \in OwnKey /\ g.owner = h.owner => g = h
      /\ \A g \in main.rest : g.owner \in OwnKey => KeptInOrder(pubs, g.kept)
  BY DEF OnceInEntries, EntriesInOrder
<1> HIDE DEF u, t, W, rest
<1>6. ASSUME f.owner \in OwnKey PROVE KeptInOrder(pubs, t)
  <2> SUFFICES ASSUME NEW i \in 1..Len(t), NEW j \in 1..Len(t), i < j
               PROVE  Before(pubs, Class(t[i]), Class(t[j]))
    BY DEF KeptInOrder
  <2>1. i + 1 \in 1..Len(u) /\ j + 1 \in 1..Len(u) /\ i + 1 < j + 1 /\ t[i] = u[i + 1] /\ t[j] = u[j + 1]
    BY <1>3
  <2> QED
    BY <1>5, <1>6, <2>1 DEF KeptInOrder
<1>7. EntriesInOrder(pubs, W)
  BY <1>1, <1>4, <1>5, <1>6 DEF EntriesInOrder
<1>8. ASSUME f.owner \in OwnKey, NEW l, InEntries(W, f.owner, l) PROVE Before(pubs, Class(Head(u)), l)
  <2>1. PICK g \in W : g.owner = f.owner /\ \E i \in 1..Len(g.kept) : Class(g.kept[i]) = l
    BY <1>8 DEF InEntries
  <2>2. g = rest
    BY <1>1, <1>5, <1>8, <2>1
  <2>3. PICK i \in 1..Len(t) : Class(t[i]) = l
    BY <1>4, <2>1, <2>2
  <2>4. i + 1 \in 1..Len(u) /\ t[i] = u[i + 1] /\ 1 < i + 1
    BY <1>3
  <2> QED
    BY <1>3, <1>5, <1>8, <2>3, <2>4 DEF KeptInOrder
<1> QED
  BY <1>7, <1>8 DEF u, W

\* The effect of keeping one more event, in front of which the others belong.
LEMMA KeptOrder ==
    ASSUME NEW kept \in Seq(FrozenEvents), kept # <<>>, NEW e \in FrozenEvents, NEW pubs,
           KeptInOrder(pubs, kept), \A j \in 1..Len(kept) : Before(pubs, Class(kept[j]), Class(e))
    PROVE  KeptInOrder(pubs, Trim(Append(kept, e)))
<1> DEFINE t == Trim(Append(kept, e))
           n == Len(kept)
<1>1. n \in Nat /\ n > 0
  OBVIOUS
<1>2. /\ t \in Seq(FrozenEvents)
      /\ \/ t = Append(kept, e)
         \/ /\ Len(t) = n
            /\ (\A i \in 1..n - 1 : t[i] = kept[i + 1]) /\ t[n] = e
  BY TrimFacts
<1> HIDE DEF t
<1>3. CASE t = Append(kept, e)
  <2>1. /\ t[n + 1] = e /\ (\A i \in 1..n : t[i] = kept[i]) /\ Len(t) = n + 1
        /\ \A i \in 1..Len(t) : i \in 1..n \/ i = n + 1
    BY <1>3, AppendFacts
  <2> HIDE DEF n
  <2> SUFFICES ASSUME NEW i \in 1..Len(t), NEW j \in 1..Len(t), i < j
               PROVE  Before(pubs, Class(t[i]), Class(t[j]))
    BY DEF KeptInOrder, t
  <2>2. i \in 1..n /\ t[i] = kept[i]
    BY <1>1, <2>1
  <2>3. CASE j \in 1..n
    <3>1. t[j] = kept[j]
      BY <2>1, <2>3
    <3> QED
      BY <2>2, <2>3, <3>1 DEF KeptInOrder, n
  <2>4. CASE j = n + 1
    BY <2>1, <2>2, <2>4 DEF n
  <2> QED
    BY <2>1, <2>3, <2>4
<1>4. CASE Len(t) = n /\ (\A i \in 1..n - 1 : t[i] = kept[i + 1]) /\ t[n] = e
  <2> HIDE DEF n
  <2> SUFFICES ASSUME NEW i \in 1..Len(t), NEW j \in 1..Len(t), i < j
               PROVE  Before(pubs, Class(t[i]), Class(t[j]))
    BY DEF KeptInOrder, t
  <2>1. i \in 1..n - 1 /\ i + 1 \in 1..n
    BY <1>1, <1>4
  <2>2. t[i] = kept[i + 1]
    BY <1>4, <2>1
  <2>3. CASE j = n
    BY <1>4, <2>1, <2>2, <2>3 DEF n
  <2>4. CASE j # n
    <3>1. j \in 1..n - 1 /\ j + 1 \in 1..n /\ i + 1 < j + 1
      BY <1>1, <1>4, <2>4
    <3>2. t[j] = kept[j + 1]
      BY <1>4, <3>1
    <3> QED
      BY <2>1, <2>2, <3>1, <3>2 DEF KeptInOrder, n
  <2> QED
    BY <2>3, <2>4
<1> QED
  BY <1>2, <1>3, <1>4

LEMMA EntriesOrder ==
    ASSUME frozenEvents \subseteq FrozenEntries, Filled(frozenEvents),
           NEW s \in Subscribers, NEW e \in FrozenEvents, InsertFrozenEvents(s, e), NEW pubs,
           EntriesInOrder(pubs, frozenEvents),
           s \in OwnKey => \A k \in Classes : InEntries(frozenEvents, s, k) => Before(pubs, k, Class(e))
    PROVE  EntriesInOrder(pubs, frozenEvents')
<1> SUFFICES ASSUME NEW g \in frozenEvents', g.owner \in OwnKey PROVE KeptInOrder(pubs, g.kept)
  BY DEF EntriesInOrder
<1>1. \/ g \in frozenEvents
      \/ g = [owner |-> s, kept |-> <<e>>]
      \/ \E f \in EntryOf(s) : g = With(f, Trim(Append(f.kept, e)))
  BY InsertFrozenFacts
<1>2. CASE g \in frozenEvents
  BY <1>2 DEF EntriesInOrder
<1>3. CASE g = [owner |-> s, kept |-> <<e>>]
  <2>1. Len(g.kept) = 1
    BY <1>3
  <2>2. \A i, j \in 1..Len(g.kept) : ~(i < j)
    BY <2>1
  <2> QED
    BY <2>2 DEF KeptInOrder
<1>4. CASE \E f \in EntryOf(s) : g = With(f, Trim(Append(f.kept, e)))
  <2>1. PICK f \in EntryOf(s) : g = With(f, Trim(Append(f.kept, e)))
    BY <1>4
  <2>2. f \in frozenEvents /\ f \in FrozenEntries /\ f.kept \in Seq(FrozenEvents) /\ f.kept # <<>>
        /\ SameKey(s, f.owner)
    BY DEF EntryOf, FrozenEntries, Filled, SameKey
  <2> DEFINE t == Trim(Append(f.kept, e))
  <2>3. t \in Seq(FrozenEvents)
    BY <2>2, TrimFacts
  <2>4. g.owner = f.owner /\ g.kept = t
    BY <2>1, <2>2, <2>3, EntryFields
  <2>5. f.owner = s
    BY <2>2, <2>4 DEF OwnKey
  <2>6. KeptInOrder(pubs, f.kept)
    BY <2>2, <2>4 DEF EntriesInOrder
  <2>7. ASSUME NEW j \in 1..Len(f.kept) PROVE Before(pubs, Class(f.kept[j]), Class(e))
    <3>1. InEntries(frozenEvents, s, Class(f.kept[j]))
      BY <2>2, <2>5 DEF InEntries
    <3>2. f.kept[j] \in FrozenEvents
      BY <2>2
    <3> QED
      BY <2>4, <2>5, <3>1, <3>2, EventClass
  <2> QED
    BY <2>2, <2>4, <2>6, <2>7, KeptOrder
<1> QED
  BY <1>1, <1>2, <1>3, <1>4

\* The effect of telling a subscriber something that comes after what it was told.
LEMMA ToldOrder ==
    ASSUME told \in [Subscribers -> Seq(Received)], NEW s \in Subscribers, NEW e \in Received,
           told' = [told EXCEPT ![s] = Append(@, e)], NEW pubs, ToldInOrder(pubs, told),
           (e.replayed => s \in OwnKey) => \A k \in Classes :
               ToldAs(told, s, k, e.replayed) => Before(pubs, k, Class(e))
    PROVE  ToldInOrder(pubs, told')
<1> SUFFICES ASSUME NEW t \in Subscribers, NEW i \in 1..Len(told'[t]), NEW j \in 1..Len(told'[t]), i < j,
                    told'[t][i].replayed = told'[t][j].replayed, told'[t][i].replayed => t \in OwnKey
             PROVE  Before(pubs, Class(told'[t][i]), Class(told'[t][j]))
  BY DEF ToldInOrder
<1>1. /\ told[t] \in Seq(Received) /\ told'[t] \in Seq(Received)
      /\ \A a \in 1..Len(told'[t]) :
             \/ a \in 1..Len(told[t]) /\ told'[t][a] = told[t][a]
             \/ t = s /\ a = Len(told[t]) + 1 /\ told'[t][a] = e
  BY TellFacts
<1>2. \A a \in 1..Len(told[t]) : Class(told[t][a]) \in Classes
  <2> SUFFICES ASSUME NEW a \in 1..Len(told[t]) PROVE Class(told[t][a]) \in Classes
    OBVIOUS
  <2>1. told[t][a] \in Received
    BY <1>1
  <2>2. told[t][a].pub \in Publications
    BY <2>1 DEF Received
  <2> QED
    BY <2>2 DEF Class, Classes
<1>3. Len(told[t]) \in Nat /\ Len(told'[t]) \in Nat
  BY <1>1
<1>4. CASE j \in 1..Len(told[t]) /\ told'[t][j] = told[t][j]
  <2>1. i \in 1..Len(told[t]) /\ told'[t][i] = told[t][i]
    BY <1>1, <1>3, <1>4
  <2> QED
    BY <1>4, <2>1 DEF ToldInOrder
<1>5. CASE t = s /\ j = Len(told[t]) + 1 /\ told'[t][j] = e
  <2>1. i \in 1..Len(told[t]) /\ told'[t][i] = told[t][i]
    BY <1>1, <1>3, <1>5
  <2>2. ToldAs(told, s, Class(told[t][i]), e.replayed)
    BY <1>5, <2>1 DEF ToldAs
  <2> QED
    BY <1>2, <1>5, <2>1, <2>2
<1> QED
  BY <1>1, <1>4, <1>5

LEMMA ReplayInvInit == Init => ReplayInv
<1> SUFFICES ASSUME Init PROVE ReplayInv
  OBVIOUS
<1>1. /\ immediate = <<>> /\ frozenEvents = {} /\ main.at = "idle" /\ told = [s \in Subscribers |-> <<>>]
  BY DEF Init, RegistryInit, Idle
<1>2. Len(immediate) = 0 /\ \A s \in Subscribers : Len(told[s]) = 0
  BY <1>1
<1>3. \A s \in OwnKey, k \in Classes : /\ ~ToldAs(told, s, k, TRUE) /\ ~Posted(immediate, s, k)
                                       /\ ~InHand(main, s, k)
  BY <1>1, <1>2 DEF ToldAs, Posted, InHand, OwnKey
<1>4. EntriesInOrder(published, frozenEvents) /\ PostedInOrder(published, immediate)
  BY <1>1, <1>2 DEF EntriesInOrder, PostedInOrder
<1>5. ToldInOrder(published, told)
  BY <1>2 DEF ToldInOrder
<1> QED
  BY <1>1, <1>3, <1>4, <1>5 DEF ReplayInv, ReplayInLine

\* When nothing new is kept, posted or told.
LEMMA ReplayKept ==
    ASSUME ReplayInv, UNCHANGED <<published, told>>, frozenEvents' \subseteq frozenEvents,
           main' = main \/ main'.at # "replay", PostedInOrder(published, immediate'),
           \A s, k : Posted(immediate', s, k) => Posted(immediate, s, k)
    PROVE  ReplayInv'
<1>1. \A s, k : /\ InEntries(frozenEvents', s, k) => InEntries(frozenEvents, s, k)
                /\ InHand(main', s, k) => InHand(main, s, k)
  BY DEF InEntries, InHand
<1>2. ASSUME NEW s \in OwnKey, NEW k \in Classes, NEW l \in Classes
      PROVE  ReplayInLine(published', frozenEvents', main', immediate', told', s, k, l)
  <2>1. ReplayInLine(published, frozenEvents, main, immediate, told, s, k, l)
    BY DEF ReplayInv
  <2> QED
    BY <1>1, <2>1 DEF ReplayInLine
<1>3. /\ EntriesInOrder(published', frozenEvents')
      /\ main'.at = "replay" => EntriesInOrder(published', main'.rest)
      /\ ToldInOrder(published', told')
  BY DEF ReplayInv, EntriesInOrder
<1> QED
  BY <1>2, <1>3 DEF ReplayInv

\* A new publication leaves what was given in order.
LEMMA ReplayPublish ==
    ASSUME TypeInv, LineInv, ReplayInv, NEW p \in Publications, PublishCommonEvent(p)
    PROVE  ReplayInv'
<1>1. /\ main.at = "idle" /\ p \notin ToSet(published) /\ published' = Append(published, p)
      /\ main'.at = "enqueue" /\ UNCHANGED <<frozenEvents, immediate, told>>
  BY DEF PublishCommonEvent, Enqueueing, registryVars, queueVars
<1>2. \A k, l : Before(published, k, l) /\ k[1] \in ToSet(published) => Before(published', k, l)
  <2>1. published \in Seq(Publications)
    BY TypeParts DEF GhostTypes
  <2> QED
    BY <1>1, <2>1, BeforeAppend
<1>3. \A s \in Subscribers, k \in Classes :
          Given(frozenEvents, main, immediate, told, s, k) => k[1] \in ToSet(published)
  BY DEF LineInv, GivenSound
<1>4. OwnKey \subseteq Subscribers
  BY DEF OwnKey
<1>5. /\ frozenEvents \subseteq FrozenEntries /\ immediate \in Seq(Tasks)
      /\ told \in [Subscribers -> Seq(Received)]
  BY TypeParts DEF RegistryTypes, QueueTypes, ToldType
<1>6. EntriesInOrder(published', frozenEvents)
  <2> SUFFICES ASSUME NEW f \in frozenEvents, f.owner \in OwnKey,
                      NEW i \in 1..Len(f.kept), NEW j \in 1..Len(f.kept), i < j
               PROVE  Before(published', Class(f.kept[i]), Class(f.kept[j]))
    BY DEF EntriesInOrder, KeptInOrder
  <2>1. Before(published, Class(f.kept[i]), Class(f.kept[j]))
    BY DEF ReplayInv, EntriesInOrder, KeptInOrder
  <2>2. InEntries(frozenEvents, f.owner, Class(f.kept[i]))
    BY DEF InEntries
  <2>3. Class(f.kept[i]) \in Classes
    <3>1. f.kept[i] \in FrozenEvents
      BY <1>5 DEF FrozenEntries
    <3> QED
      BY <3>1, EventClass
  <2>4. Given(frozenEvents, main, immediate, told, f.owner, Class(f.kept[i]))
    BY <2>2 DEF Given
  <2> QED
    BY <1>2, <1>3, <1>4, <2>1, <2>3, <2>4
<1>7. PostedInOrder(published', immediate)
  <2> SUFFICES ASSUME NEW i \in 1..Len(immediate), NEW j \in 1..Len(immediate), i < j,
                      immediate[i].do = "replay", immediate[j].do = "replay",
                      immediate[i].to \in OwnKey, immediate[i].to = immediate[j].to
               PROVE  Before(published', Class(immediate[i].event), Class(immediate[j].event))
    BY DEF PostedInOrder
  <2>1. Before(published, Class(immediate[i].event), Class(immediate[j].event))
    BY DEF ReplayInv, PostedInOrder
  <2>2. Posted(immediate, immediate[i].to, Class(immediate[i].event))
    BY DEF Posted
  <2>3. Class(immediate[i].event) \in Classes
    <3>1. immediate[i] \in Tasks
      BY <1>5
    <3> QED
      BY <3>1, TaskFields, EventClass
  <2>4. Given(frozenEvents, main, immediate, told, immediate[i].to, Class(immediate[i].event))
    BY <2>2 DEF Given
  <2> QED
    BY <1>2, <1>3, <1>4, <2>1, <2>3, <2>4
<1>8. ToldInOrder(published', told)
  <2> SUFFICES ASSUME NEW s \in Subscribers, NEW i \in 1..Len(told[s]), NEW j \in 1..Len(told[s]), i < j,
                      told[s][i].replayed = told[s][j].replayed, told[s][i].replayed => s \in OwnKey
               PROVE  Before(published', Class(told[s][i]), Class(told[s][j]))
    BY DEF ToldInOrder
  <2>1. Before(published, Class(told[s][i]), Class(told[s][j]))
    BY DEF ReplayInv, ToldInOrder
  <2>2. told[s][i] \in Received
    BY <1>5
  <2>3. Class(told[s][i]) \in Classes /\ told[s][i].replayed \in BOOLEAN
    BY <2>2 DEF Class, Classes, Received
  <2>4. Given(frozenEvents, main, immediate, told, s, Class(told[s][i]))
    <3>1. CASE told[s][i].replayed = FALSE
      BY <3>1 DEF Given, ToldAs
    <3>2. CASE told[s][i].replayed = TRUE
      BY <3>2 DEF Given, ToldAs
    <3> QED
      BY <2>3, <3>1, <3>2
  <2> QED
    BY <1>2, <1>3, <2>1, <2>3, <2>4
<1>9. ASSUME NEW s \in OwnKey, NEW k \in Classes, NEW l \in Classes
      PROVE  ReplayInLine(published', frozenEvents, main', immediate, told, s, k, l)
  <2>1. ReplayInLine(published, frozenEvents, main, immediate, told, s, k, l)
    BY DEF ReplayInv
  <2>2. ToldAs(told, s, k, TRUE) \/ Posted(immediate, s, k) => k[1] \in ToSet(published)
    BY <1>3, <1>4 DEF Given
  <2>3. ~InHand(main', s, k) /\ ~InHand(main', s, l)
    BY <1>1 DEF InHand
  <2> QED
    BY <1>2, <2>1, <2>2, <2>3 DEF ReplayInLine
<1> QED
  BY <1>1, <1>6, <1>7, <1>8, <1>9 DEF ReplayInv

LEMMA ReplayCollect == ASSUME TypeInv, EventInv, ReplayInv, CollectFrozenEvents PROVE ReplayInv'
<1>1. /\ UNCHANGED <<immediate, told, published>>
      /\ \A s, k : InEntries(frozenEvents', s, k) => InEntries(frozenEvents, s, k)
      /\ \A s, k : InHand(main', s, k) => InEntries(frozenEvents, s, k)
      /\ \A s \in OwnKey : \A k, l : ~(InHand(main', s, k) /\ InEntries(frozenEvents', s, l))
      /\ frozenEvents' \subseteq frozenEvents
      /\ main'.at = "replay" => main'.rest \subseteq frozenEvents
  BY CollectFacts
<1>2. /\ EntriesInOrder(published', frozenEvents')
      /\ main'.at = "replay" => EntriesInOrder(published', main'.rest)
      /\ PostedInOrder(published', immediate') /\ ToldInOrder(published', told')
  BY <1>1 DEF ReplayInv, EntriesInOrder
<1>3. ASSUME NEW s \in OwnKey, NEW k \in Classes, NEW l \in Classes
      PROVE  ReplayInLine(published', frozenEvents', main', immediate', told', s, k, l)
  <2>1. ReplayInLine(published, frozenEvents, main, immediate, told, s, k, l)
    BY DEF ReplayInv
  <2> QED
    BY <1>1, <2>1 DEF ReplayInLine
<1> QED
  BY <1>2, <1>3 DEF ReplayInv

LEMMA ReplayPostReplay == ASSUME TypeInv, EventInv, ReplayInv, PostReplay PROVE ReplayInv'
<1>1. PICK f \in main.rest, task \in Tasks :
               /\ f \in FrozenEntries /\ f.kept # <<>> /\ main.at = "replay"
               /\ task.do = "replay" /\ task.to = f.owner /\ task.event = Head(f.kept)
               /\ Class(task.event) \in Classes
               /\ immediate' = Append(immediate, task)
               /\ main'.at \in {"idle", "replay"}
               /\ main'.at = "replay" => main'.rest = WithoutFirst(f)
               /\ \A s, k : InHand(main', s, k) =>
                      InHand(main, s, k) /\ InEntries(WithoutFirst(f), s, k)
               /\ InHand(main, f.owner, Class(task.event))
               /\ \A s, k : Posted(immediate', s, k) =>
                      Posted(immediate, s, k) \/ (s = f.owner /\ k = Class(task.event))
               /\ UNCHANGED <<frozenEvents, told, published>>
  BY PostedFacts
<1>2. immediate \in Seq(Tasks) /\ OnceInEntries(main.rest)
  BY <1>1, TypeParts DEF QueueTypes, EventInv, OnceInHand
<1>3. /\ EntriesInOrder(published, main.rest) /\ PostedInOrder(published, immediate)
      /\ EntriesInOrder(published, frozenEvents) /\ ToldInOrder(published, told)
  BY <1>1 DEF ReplayInv
<1>4. /\ EntriesInOrder(published, WithoutFirst(f))
      /\ f.owner \in OwnKey => \A l :
             InEntries(WithoutFirst(f), f.owner, l) => Before(published, Class(task.event), l)
  BY <1>1, <1>2, <1>3, HandOrder
<1>5. \A s \in OwnKey, k, l \in Classes :
          ReplayInLine(published, frozenEvents, main, immediate, told, s, k, l)
  BY DEF ReplayInv
<1>6. PostedInOrder(published, immediate')
  <2>1. f.owner \in OwnKey => \A k \in Classes :
            Posted(immediate, f.owner, k) => Before(published, k, Class(task.event))
    BY <1>1, <1>5 DEF ReplayInLine
  <2> QED
    BY <1>1, <1>2, <1>3, <2>1, PostedOrderAppend
<1>7. ASSUME NEW s \in OwnKey, NEW k \in Classes, NEW l \in Classes
      PROVE  ReplayInLine(published, frozenEvents, main', immediate', told, s, k, l)
  <2> DEFINE c == Class(task.event)
  <2>1. /\ ReplayInLine(published, frozenEvents, main, immediate, told, s, k, l)
        /\ s = f.owner => InHand(main, s, c)
        /\ s = f.owner /\ k = c /\ InHand(main', s, l) => Before(published, k, l)
    BY <1>1, <1>4, <1>5
  <2>2. /\ Posted(immediate', s, k) => Posted(immediate, s, k) \/ (s = f.owner /\ k = c)
        /\ Posted(immediate', s, l) => Posted(immediate, s, l) \/ (s = f.owner /\ l = c)
        /\ InHand(main', s, k) => InHand(main, s, k)
        /\ InHand(main', s, l) => InHand(main, s, l)
    BY <1>1
  <2> HIDE DEF c
  <2> QED
    BY <2>1, <2>2 DEF ReplayInLine
<1> QED
  BY <1>1, <1>3, <1>4, <1>6, <1>7 DEF ReplayInv

\* The worker replays a posted event.
LEMMA ReplayReplayed ==
    ASSUME TypeInv, ReplayInv, immediate # <<>>, NotifyFreezeEvents(Head(immediate)),
           immediate' = Tail(immediate), UNCHANGED <<frozenEvents, main, published>>
    PROVE  ReplayInv'
<1> DEFINE o == Head(immediate).to
           c == Class(Head(immediate).event)
<1>1. /\ o \in Subscribers /\ c \in Classes /\ Posted(immediate, o, c)
      /\ Head(immediate).do = "replay"
      /\ \A s, k : Posted(immediate', s, k) => Posted(immediate, s, k)
      /\ \/ told' = told
         \/ \E e \in Received :
               /\ Class(e) = c /\ e.replayed = TRUE
               /\ told' = [told EXCEPT ![o] = Append(@, e)]
  BY ReplayedFacts
<1>2. told \in [Subscribers -> Seq(Received)] /\ immediate \in Seq(Tasks)
      /\ PostedInOrder(published, immediate) /\ ToldInOrder(published, told)
  BY TypeParts DEF ToldType, QueueTypes, ReplayInv
<1>3. /\ PostedInOrder(published, immediate')
      /\ o \in OwnKey => \A l : Posted(immediate', o, l) => Before(published, c, l)
  BY <1>1, <1>2, PostedOrderTail
<1> HIDE DEF o, c
<1>4. CASE told' = told
  BY <1>1, <1>3, <1>4, ReplayKept
<1>5. CASE \E e \in Received : /\ Class(e) = c /\ e.replayed = TRUE
                               /\ told' = [told EXCEPT ![o] = Append(@, e)]
  <2>1. PICK e \in Received : /\ Class(e) = c /\ e.replayed = TRUE
                              /\ told' = [told EXCEPT ![o] = Append(@, e)]
    BY <1>5
  <2>2. \A s \in OwnKey, k, l \in Classes :
            ReplayInLine(published, frozenEvents, main, immediate, told, s, k, l)
    BY DEF ReplayInv
  <2>3. o \in OwnKey => \A k \in Classes : ToldAs(told, o, k, TRUE) => Before(published, k, c)
    BY <1>1, <2>2 DEF ReplayInLine
  <2>4. ToldInOrder(published, told')
    BY <1>1, <1>2, <2>1, <2>3, ToldOrder
  <2>5. \A s \in Subscribers : \A k : ToldAs(told', s, k, TRUE) => ToldAs(told, s, k, TRUE) \/ (s = o /\ k = c)
    <3>1. \A s \in Subscribers :
              /\ told[s] \in Seq(Received)
              /\ \A a \in 1..Len(told'[s]) :
                     \/ a \in 1..Len(told[s]) /\ told'[s][a] = told[s][a]
                     \/ s = o /\ told'[s][a] = e
      BY <1>1, <1>2, <2>1, TellFacts
    <3> QED
      BY <2>1, <3>1 DEF ToldAs
  <2>6. ASSUME NEW s \in OwnKey, NEW k \in Classes, NEW l \in Classes
        PROVE  ReplayInLine(published, frozenEvents, main, immediate', told', s, k, l)
    <3>1. /\ ReplayInLine(published, frozenEvents, main, immediate, told, s, k, l)
          /\ ToldAs(told', s, k, TRUE) => ToldAs(told, s, k, TRUE) \/ (s = o /\ k = c)
      <4>1. s \in Subscribers
        BY DEF OwnKey
      <4>2. ToldAs(told', s, k, TRUE) => ToldAs(told, s, k, TRUE) \/ (s = o /\ k = c)
        BY <2>5, <4>1
      <4> QED
        BY <2>2, <4>2
    <3>2. /\ s = o => Posted(immediate, s, c)
          /\ s = o /\ k = c /\ Posted(immediate', s, l) => Before(published, k, l)
          /\ Posted(immediate', s, k) => Posted(immediate, s, k)
          /\ Posted(immediate', s, l) => Posted(immediate, s, l)
      BY <1>1, <1>3
    <3> QED
      BY <3>1, <3>2 DEF ReplayInLine
  <2> QED
    BY <1>3, <2>4, <2>6 DEF ReplayInv
<1> QED
  BY <1>1, <1>4, <1>5

\* The worker tells a receiver, or does not.
LEMMA ReplayNotify == ASSUME TypeInv, RecordInv, LineInv, ReplayInv, NotifyReceiver PROVE ReplayInv'
<1>1. HasReceiver /\ UNCHANGED <<frozenEvents, main, immediate, published>>
  BY DEF NotifyReceiver, registryVars, queueVars
<1>2. ReplayInv => PostedInOrder(published, immediate)
  BY DEF ReplayInv
<1>3. CASE told' = told
  BY <1>1, <1>2, <1>3, ReplayKept
<1>4. CASE Tell(Receiver, worker.record, FALSE)
  <2> DEFINE R == Receiver
             c == Class(worker.record)
  <2>1. PICK e \in Received :
               /\ Class(e) = c /\ e.replayed = FALSE
               /\ told' = [told EXCEPT ![R] = Append(@, e)]
    BY <1>1, <1>4, DirectFacts
  <2>2. told \in [Subscribers -> Seq(Received)] /\ R \in Subscribers /\ ToldInOrder(published, told)
    BY <1>1, TypeParts, ReceiverFacts DEF ToldType, ReplayInv
  <2>3. Remaining(worker, R, c) /\ c \in Classes
    <3>1. worker' = Delivered("DELIVERED") \/ worker' = Delivered("SKIPPED")
      BY DEF NotifyReceiver
    <3> QED
      BY <1>1, <3>1, MovedOn DEF Deliveries
  <2> HIDE DEF R, c
  <2>4. \A k \in Classes : ToldAs(told, R, k, FALSE) => Before(published, k, c)
    <3> SUFFICES ASSUME NEW k \in Classes, ToldAs(told, R, k, FALSE) PROVE Before(published, k, c)
      OBVIOUS
    <3>1. InLine(published, frozenEvents, main, immediate, low, worker, told, R, k, c)
      BY <2>2, <2>3 DEF LineInv
    <3>2. Given(frozenEvents, main, immediate, told, R, k)
      BY DEF Given
    <3> QED
      BY <2>3, <3>1, <3>2 DEF InLine
  <2>5. ToldInOrder(published, told')
    BY <2>1, <2>2, <2>4, ToldOrder
  <2>6. \A s \in Subscribers : \A k : ToldAs(told', s, k, TRUE) => ToldAs(told, s, k, TRUE)
    <3>1. \A t \in Subscribers :
              /\ told[t] \in Seq(Received)
              /\ \A a \in 1..Len(told'[t]) :
                     \/ a \in 1..Len(told[t]) /\ told'[t][a] = told[t][a]
                     \/ told'[t][a] = e
      BY <2>1, <2>2, TellFacts
    <3> QED
      BY <2>1, <3>1 DEF ToldAs
  <2>7. ASSUME NEW s \in OwnKey, NEW k \in Classes, NEW l \in Classes
        PROVE  ReplayInLine(published, frozenEvents, main, immediate, told', s, k, l)
    <3>1. ReplayInLine(published, frozenEvents, main, immediate, told, s, k, l)
      BY DEF ReplayInv
    <3>2. s \in Subscribers
      BY DEF OwnKey
    <3> QED
      BY <2>6, <3>1, <3>2 DEF ReplayInLine
  <2> QED
    BY <1>1, <2>5, <2>7 DEF ReplayInv
<1> QED
  BY <1>3, <1>4 DEF NotifyReceiver

\* The worker keeps an event, which is newer than what was kept before.
LEMMA ReplayKeep ==
    ASSUME TypeInv, RecordInv, EventInv, LineInv, ReplayInv, KeepFrozenEvent
    PROVE  ReplayInv'
<1> DEFINE R == Receiver
           c == Class(worker.record)
           e == KeptEvent
<1>1. /\ UNCHANGED <<main, immediate, told, published>>
      /\ worker' = Delivered("SKIPPED") /\ worker.at = "keep"
      /\ \A t \in OwnKey : \A k : InEntries(frozenEvents', t, k) => InEntries(frozenEvents, t, k) \/ (t = R /\ k = c)
  BY KeptFacts DEF KeepFrozenEvent
<1>2. e \in FrozenEvents /\ InsertFrozenEvents(R, e) /\ Class(e) = c /\ R \in Subscribers
  BY <1>1, KeepFacts, ReceiverFacts DEF Class, KeptEvent
<1>3. Remaining(worker, R, c) /\ c \in Classes
  BY <1>1, MovedOn DEF Deliveries
<1> HIDE DEF R, c, e
<1>4. frozenEvents \subseteq FrozenEntries /\ Filled(frozenEvents)
  BY TypeParts DEF RegistryTypes
<1>5. \A k \in Classes : Given(frozenEvents, main, immediate, told, R, k) => Before(published, k, c)
  <2> SUFFICES ASSUME NEW k \in Classes, Given(frozenEvents, main, immediate, told, R, k)
               PROVE  Before(published, k, c)
    OBVIOUS
  <2>1. InLine(published, frozenEvents, main, immediate, low, worker, told, R, k, c)
    BY <1>2, <1>3 DEF LineInv
  <2> QED
    BY <1>3, <2>1 DEF InLine
<1>6. EntriesInOrder(published, frozenEvents')
  <2>1. R \in OwnKey => \A k \in Classes : InEntries(frozenEvents, R, k) => Before(published, k, Class(e))
    BY <1>2, <1>5 DEF Given
  <2>2. EntriesInOrder(published, frozenEvents)
    BY DEF ReplayInv
  <2> QED
    BY <1>2, <1>4, <2>1, <2>2, EntriesOrder
<1>7. ASSUME NEW s \in OwnKey, NEW k \in Classes, NEW l \in Classes
      PROVE  ReplayInLine(published, frozenEvents', main, immediate, told, s, k, l)
  <2>1. ReplayInLine(published, frozenEvents, main, immediate, told, s, k, l)
    BY DEF ReplayInv
  <2>2. InEntries(frozenEvents', s, l) => InEntries(frozenEvents, s, l) \/ (s = R /\ l = c)
    BY <1>1
  <2>3. s = R => (ToldAs(told, s, k, TRUE) \/ Posted(immediate, s, k) \/ InHand(main, s, k) => Before(published, k, c))
    BY <1>5 DEF Given
  <2> QED
    BY <2>1, <2>2, <2>3 DEF ReplayInLine
<1> QED
  BY <1>1, <1>6, <1>7 DEF ReplayInv

\* A record is queued.
LEMMA ReplayEnqueue == ASSUME TypeInv, ReplayInv, EnqueueUnorderedRecord PROVE ReplayInv'
<1> DEFINE task == [do |-> "notify", record |-> main.record]
<1>1. /\ UNCHANGED <<frozenEvents, published, told>>
      /\ immediate' = immediate \/ immediate' = Append(immediate, task)
      /\ main'.at # "replay"
  BY DEF EnqueueUnorderedRecord, registryVars, ghostVars, Idle, Enqueueing
<1>2. immediate \in Seq(Tasks) /\ PostedInOrder(published, immediate)
  BY TypeParts DEF QueueTypes, ReplayInv
<1>3. task \in Tasks /\ task.do = "notify"
  <2>1. main.record \in EventRecords
    BY MainFields, TypeParts DEF EnqueueUnorderedRecord, MainType
  <2> QED
    BY <2>1, TaskTypes
<1> HIDE DEF task
<1>4. PostedInOrder(published, immediate')
  BY <1>1, <1>2, <1>3, PostedOrderAppend
<1>5. \A s, k : Posted(immediate', s, k) => Posted(immediate, s, k)
  BY <1>1, <1>2, <1>3, PostedAppend
<1> QED
  BY <1>1, <1>4, <1>5, ReplayKept

LEMMA ReplayTake == ASSUME TypeInv, ReplayInv, TakeImmediate \/ TakeLow, EventInv PROVE ReplayInv'
<1>1. UNCHANGED <<frozenEvents, main, published>>
  BY DEF TakeImmediate, TakeLow, registryVars
<1>2. immediate \in Seq(Tasks) /\ low \in Seq(Tasks) /\ PostedInOrder(published, immediate)
  BY TypeParts DEF QueueTypes, ReplayInv
<1>3. CASE TakeImmediate
  <2>1. immediate # <<>> /\ immediate' = Tail(immediate) /\ Run(Head(immediate))
    BY <1>3 DEF TakeImmediate
  <2>2. CASE NotifyFreezeEvents(Head(immediate))
    BY <1>1, <2>1, <2>2, ReplayReplayed
  <2>3. CASE NotifyBegin(Head(immediate))
    <3>1. told' = told
      BY <2>3 DEF NotifyBegin
    <3>2. PostedInOrder(published, immediate') /\ \A s, k : Posted(immediate', s, k) => Posted(immediate, s, k)
      BY <1>2, <2>1, PostedOrderTail, PostedTail
    <3> QED
      BY <1>1, <3>1, <3>2, ReplayKept
  <2> QED
    BY <2>1, <2>2, <2>3 DEF Run
<1>4. CASE TakeLow
  <2>1. low # <<>> /\ immediate' = immediate /\ Run(Head(low))
    BY <1>4 DEF TakeLow
  <2>2. Head(low).do = "notify"
    <3>1. OnlyNotifies(low)
      BY DEF EventInv
    <3>2. Head(low) = low[1] /\ 1 \in 1..Len(low)
      BY <1>2, <2>1, HeadTailFacts
    <3> QED
      BY <3>1, <3>2 DEF OnlyNotifies
  <2>3. told' = told
    BY <2>1, <2>2 DEF Run, NotifyFreezeEvents, NotifyBegin
  <2> QED
    BY <1>1, <1>2, <2>1, <2>3, ReplayKept
<1> QED
  BY <1>3, <1>4

LEMMA ReplayInvNext ==
    ASSUME TypeInv, RecordInv, EventInv, LineInv, ReplayInv, [Next]_vars
    PROVE  ReplayInv'
<1>1. ASSUME UNCHANGED <<immediate, told, published>>, frozenEvents' \subseteq frozenEvents,
             main' = main \/ main'.at # "replay"
      PROVE  ReplayInv'
  BY <1>1, ReplayKept DEF ReplayInv
<1>2. CASE PublishMapped \/ EnqueueUnorderedRecord \/ CollectFrozenEvents \/ PostReplay
  <2>1. CASE PublishMapped
    BY <1>1, <2>1 DEF PublishMapped, registryVars, queueVars, ghostVars, Enqueueing
  <2> QED
    BY <1>2, <2>1, ReplayEnqueue, ReplayCollect, ReplayPostReplay
<1>3. CASE TakeImmediate \/ TakeLow \/ NotifyReceiver \/ KeepFrozenEvent
  BY <1>3, ReplayTake, ReplayNotify, ReplayKeep
<1>4. CASE FindFrozen \/ NotifyEnd
  BY <1>1, <1>4 DEF FindFrozen, NotifyEnd, registryVars, queueVars, ghostVars
<1>5. ASSUME NEW p \in Publications, PublishCommonEvent(p) PROVE ReplayInv'
  BY <1>5, ReplayPublish
<1>6. ASSUME NEW s \in Subscribers, SubscribeCommonEvent(s) PROVE ReplayInv'
  <2>1. main' = Idle \/ \E a, b : main' = Enqueueing(a, b)
    BY <1>6 DEF SubscribeCommonEvent
  <2>2. main'.at # "replay"
    BY <2>1 DEF Idle, Enqueueing
  <2> QED
    BY <1>1, <1>6, <2>2 DEF SubscribeCommonEvent, InsertSubscriber, queueVars
<1>7. ASSUME NEW s \in Subscribers, UnsubscribeCommonEvent(s) \/ SubscriberDied(s) PROVE ReplayInv'
  BY <1>1, <1>7, FrozenAfterRemove DEF UnsubscribeCommonEvent, SubscriberDied, queueVars, ghostVars
<1>8. ASSUME NEW u \in FreezeUids, Freeze(u) \/ Unfreeze(u) PROVE ReplayInv'
  <2>1. CASE Freeze(u)
    BY <1>1, <2>1 DEF Freeze, UpdateFreezeInfo, queueVars, ghostVars
  <2>2. CASE Unfreeze(u)
    <3>1. main'.at = "collect"
      BY <2>2 DEF Unfreeze
    <3> QED
      BY <1>1, <2>2, <3>1 DEF Unfreeze, UpdateFreezeInfo, queueVars, ghostVars
  <2> QED
    BY <1>8, <2>1, <2>2
<1>9. CASE Tick \/ UNCHANGED vars
  BY <1>1, <1>9 DEF Tick, vars, registryVars, queueVars, ghostVars
<1> QED
  BY <1>2, <1>3, <1>4, <1>5, <1>6, <1>7, <1>8, <1>9 DEF Next, MainStep, WorkerStep, Calling

LEMMA PositionFacts ==
    ASSUME published \in Seq(Publications), NEW p \in ToSet(published)
    PROVE  Position(p) \in 1..Len(published) /\ published[Position(p)] = p
<1>1. \E i \in DOMAIN published : published[i] = p
  BY DEF ToSet
<1> QED
  BY <1>1 DEF Position

\* What s hears directly, or what is replayed to it, of a name is in the order
\* of publication.
HeardInOrder(s, replayed) ==
    \A i, j \in DOMAIN told[s] :
        LET a == told[s][i]
            b == told[s][j]
        IN  (/\ i < j /\ a.replayed = replayed /\ b.replayed = replayed
             /\ Name[a.pub] = Name[b.pub] /\ (a.as = "mapped") = (b.as = "mapped"))
            => Position(a.pub) <= Position(b.pub)

LEMMA InOrderFromInv ==
    ASSUME TypeInv, LineInv, ReplayInv, NEW s \in Subscribers, NEW replayed \in BOOLEAN,
           replayed => s \in OwnKey
    PROVE  HeardInOrder(s, replayed)
<1> SUFFICES ASSUME NEW i \in DOMAIN told[s], NEW j \in DOMAIN told[s], i < j,
                    told[s][i].replayed = replayed, told[s][j].replayed = replayed,
                    Name[told[s][i].pub] = Name[told[s][j].pub],
                    (told[s][i].as = "mapped") = (told[s][j].as = "mapped")
             PROVE  Position(told[s][i].pub) <= Position(told[s][j].pub)
  BY DEF HeardInOrder
<1>1. told[s] \in Seq(Received) /\ published \in Seq(Publications)
  BY TypeParts DEF ToldType, GhostTypes
<1>2. DOMAIN told[s] = 1..Len(told[s]) /\ told[s][i] \in Received /\ told[s][j] \in Received
  BY <1>1
<1>3. ASSUME NEW h \in DOMAIN told[s], told[s][h] \in Received, told[s][h].replayed = replayed
      PROVE  told[s][h].pub \in ToSet(published)
  <2>1. Class(told[s][h]) \in Classes /\ Class(told[s][h])[1] = told[s][h].pub
    BY <1>3 DEF Class, Classes, Received
  <2>2. ToldAs(told, s, Class(told[s][h]), replayed)
    BY <1>2, <1>3 DEF ToldAs
  <2>3. Given(frozenEvents, main, immediate, told, s, Class(told[s][h]))
    <3>1. CASE replayed = TRUE
      BY <2>2, <3>1 DEF Given, ToldAs
    <3>2. CASE replayed = FALSE
      BY <2>2, <3>2 DEF Given, ToldAs
    <3> QED
      BY <3>1, <3>2
  <2> QED
    BY <2>1, <2>3 DEF LineInv, GivenSound
<1>4. Before(published, Class(told[s][i]), Class(told[s][j]))
  BY <1>2 DEF ReplayInv, ToldInOrder
<1>5. NotLater(published, told[s][i].pub, told[s][j].pub)
  BY <1>4 DEF Before, Class
<1> DEFINE p == told[s][i].pub
           q == told[s][j].pub
<1>6. p \in ToSet(published) /\ q \in ToSet(published) /\ NotLater(published, p, q)
  BY <1>2, <1>3, <1>5
<1> HIDE DEF p, q
<1>7. Position(p) <= Position(q)
  BY <1>1, <1>6, PositionFacts DEF NotLater
<1> QED
  BY <1>7 DEF p, q

\* Publications of one name reach every listener in the order of publication,
\* and so do the replays to one with a key of its own in frozenEvents_, whatever
\* is frozen and thawed meanwhile.
THEOREM NamesAreHeardInOrder ==
    Spec => [](/\ \A s \in Subscribers : HeardInOrder(s, FALSE)
               /\ \A s \in OwnKey : HeardInOrder(s, TRUE))
<1> DEFINE I == RegistryInv /\ TypeInv /\ RecordInv /\ EventInv /\ LineInv /\ ReplayInv
           P == /\ \A s \in Subscribers : HeardInOrder(s, FALSE)
                /\ \A s \in OwnKey : HeardInOrder(s, TRUE)
<1>1. Init => I
  BY RegistryInvInit, TypeInvInit, RecordInvInit, EventInvInit, LineInvInit, ReplayInvInit
<1>2. I /\ [Next]_vars => I'
  BY RegistryInvNext, TypeInvNext, RecordInvNext, EventInvNext, LineInvNext, ReplayInvNext
<1>3. I => P
  BY InOrderFromInv DEF OwnKey
<1> QED
  BY <1>1, <1>2, <1>3, PTL DEF Spec

\* Where every subscriber has a key of its own, this is SameNameInOrder.
THEOREM NamesInOrderPerKey ==
    ASSUME OwnKey = Subscribers
    PROVE  Spec => []SameNameInOrder
<1> DEFINE P == /\ \A s \in Subscribers : HeardInOrder(s, FALSE)
                /\ \A s \in OwnKey : HeardInOrder(s, TRUE)
           T == \A s \in Subscribers : told[s] \in Seq(Received)
<1>1. Spec => []TypeOK
  BY UnorderedTypes
<1>2. TypeOK => T
  BY DEF TypeOK
<1>3. T /\ P => SameNameInOrder
  <2> SUFFICES ASSUME T, P, NEW s \in Subscribers, NEW i \in DOMAIN told[s], NEW j \in DOMAIN told[s],
                      i < j, told[s][i].replayed = told[s][j].replayed,
                      Name[told[s][i].pub] = Name[told[s][j].pub],
                      (told[s][i].as = "mapped") = (told[s][j].as = "mapped")
               PROVE  Position(told[s][i].pub) <= Position(told[s][j].pub)
    BY DEF SameNameInOrder
  <2>1. told[s][i] \in Received
    OBVIOUS
  <2>2. told[s][i].replayed \in BOOLEAN
    BY <2>1 DEF Received
  <2>3. CASE told[s][i].replayed = TRUE
    BY <2>3 DEF HeardInOrder
  <2>4. CASE told[s][i].replayed = FALSE
    BY <2>4 DEF HeardInOrder
  <2> QED
    BY <2>2, <2>3, <2>4
<1> QED
  BY <1>1, <1>2, <1>3, NamesAreHeardInOrder, PTL

-----------------------------------------------------------------------------
(* The latest sticky event *)

\* Subscribers that are never frozen, and what holds of them.
NeverFrozen == {s \in Subscribers : Uid[s] \notin FreezeUids}
Unfrozen(s) ==
    /\ s \notin isFreeze /\ (worker.at = "keep" => Receiver # s)
    /\ \A f \in frozenEvents : f.owner # s
    /\ main.at = "replay" => \A f \in main.rest : f.owner # s
    /\ \A i \in 1..Len(immediate) : immediate[i].do = "replay" => immediate[i].to # s
    /\ \A j \in 1..Len(told[s]) : ~told[s][j].replayed

\* s has heard of p, or will.
Reaches(m, im, lo, w, t, s, k) ==
    Heard(t, s, k) \/ Remaining(w, s, k) \/ Queued(im, lo, s, k) \/ Coming(m, s, k)
Concerns(s, n, p) == p # None /\ IsSubscribedTo(s, n) /\ s \in Passing[p] /\ <<s, p>> \in Permitted

\* Nothing follows a record that is not a sticky event.
NamedAlone(m) == m.at = "enqueue" /\ m.record.as = "named" => m.rest = <<>>

\* A subscriber that is never frozen has heard, or will hear, the latest event of
\* each sticky name it may have.
StickyReaches ==
    \A s \in NeverFrozen \cap listening, n \in Names :
        LET p == commonEventRecords[n] IN
        Concerns(s, n, p) => Reaches(main, immediate, low, worker, told, s, <<p, FALSE>>)

\* The inductive invariant of the sticky events.
StickyInv == NamedAlone(main) /\ (\A s \in NeverFrozen : Unfrozen(s)) /\ StickyReaches

LEMMA UnfrozenInit == ASSUME Init, NEW s \in NeverFrozen PROVE Unfrozen(s)
<1>1. /\ immediate = <<>> /\ frozenEvents = {} /\ isFreeze = {} /\ main.at = "idle" /\ worker.at = "idle"
      /\ told = [t \in Subscribers |-> <<>>] /\ s \in Subscribers
  BY DEF Init, RegistryInit, Idle, NeverFrozen
<1>2. Len(immediate) = 0 /\ Len(told[s]) = 0
  BY <1>1
<1> QED
  BY <1>1, <1>2 DEF Unfrozen

\* When nothing new is frozen, kept, posted or told.
LEMMA UnfrozenKept ==
    ASSUME NEW s \in NeverFrozen, Unfrozen(s), isFreeze' \subseteq isFreeze, frozenEvents' \subseteq frozenEvents,
           worker' = worker \/ worker'.at # "keep", main' = main \/ main'.at # "replay",
           \A i \in 1..Len(immediate') : immediate'[i].do = "replay" =>
               \E j \in 1..Len(immediate) : immediate[j] = immediate'[i],
           told'[s] = told[s]
    PROVE  Unfrozen(s)'
<1>1. worker'.at = "keep" => Receiver' # s
  BY DEF Unfrozen, Receiver
<1>2. /\ s \notin isFreeze' /\ \A f \in frozenEvents' : f.owner # s
      /\ main'.at = "replay" => \A f \in main'.rest : f.owner # s
      /\ \A i \in 1..Len(immediate') : immediate'[i].do = "replay" => immediate'[i].to # s
      /\ \A j \in 1..Len(told'[s]) : ~told'[s][j].replayed
  BY DEF Unfrozen
<1> QED
  BY <1>1, <1>2 DEF Unfrozen

LEMMA UnfrozenNext ==
    ASSUME TypeInv, EventInv, NEW s \in NeverFrozen, Unfrozen(s), [Next]_vars
    PROVE  Unfrozen(s)'
<1>0. s \in Subscribers
  BY DEF NeverFrozen
<1>1. ASSUME isFreeze' \subseteq isFreeze, frozenEvents' \subseteq frozenEvents,
             worker' = worker \/ worker'.at # "keep", main' = main \/ main'.at # "replay",
             immediate' = immediate, told' = told
      PROVE  Unfrozen(s)'
  BY <1>1, UnfrozenKept
<1>2. /\ immediate \in Seq(Tasks) /\ told \in [Subscribers -> Seq(Received)]
      /\ frozenEvents \subseteq FrozenEntries /\ Filled(frozenEvents)
  BY TypeParts DEF QueueTypes, ToldType, RegistryTypes
<1>3. CASE PublishMapped
  BY <1>1, <1>3 DEF PublishMapped, Enqueueing, registryVars, queueVars, ghostVars
<1>4. CASE EnqueueUnorderedRecord
  <2> DEFINE task == [do |-> "notify", record |-> main.record]
  <2>1. /\ UNCHANGED <<isFreeze, frozenEvents, worker, told>>
        /\ immediate' = immediate \/ immediate' = Append(immediate, task)
        /\ main'.at # "replay"
    BY <1>4 DEF EnqueueUnorderedRecord, registryVars, ghostVars, Idle, Enqueueing
  <2>2. task \in Tasks /\ task.do = "notify"
    <3>1. main.record \in EventRecords
      BY <1>4, MainFields, TypeParts DEF EnqueueUnorderedRecord, MainType
    <3> QED
      BY <3>1, TaskTypes
  <2> HIDE DEF task
  <2>3. \A i \in 1..Len(immediate') : immediate'[i].do = "replay" =>
               \E j \in 1..Len(immediate) : immediate[j] = immediate'[i]
    <3>1. CASE immediate' = immediate
      BY <3>1
    <3>2. CASE immediate' = Append(immediate, task)
      BY <1>2, <2>2, <3>2, AppendFacts
    <3> QED
      BY <2>1, <3>1, <3>2
  <2> QED
    BY <2>1, <2>3, UnfrozenKept
<1>5. CASE CollectFrozenEvents
  <2>1. /\ UNCHANGED <<immediate, told, worker, isFreeze>>
        /\ frozenEvents' \subseteq frozenEvents
        /\ main'.at = "replay" => main'.rest \subseteq frozenEvents
    BY <1>5, CollectFacts DEF CollectFrozenEvents, GetFrozenEvents
  <2>2. worker'.at = "keep" => Receiver' # s
    BY <2>1 DEF Unfrozen, Receiver
  <2> QED
    BY <2>1, <2>2 DEF Unfrozen
<1>6. CASE PostReplay
  <2>1. PICK f \in main.rest, task \in Tasks :
               /\ main.at = "replay" /\ f \in FrozenEntries /\ f.kept # <<>>
               /\ task.do = "replay" /\ task.to = f.owner
               /\ immediate' = Append(immediate, task)
               /\ main'.at = "replay" => main'.rest = WithoutFirst(f)
               /\ UNCHANGED <<frozenEvents, told, worker>>
    BY <1>6, PostedFacts
  <2>2. f.owner # s /\ isFreeze' = isFreeze
    BY <1>6, <2>1 DEF Unfrozen, PostReplay, registryVars
  <2>3. \A g \in WithoutFirst(f) : g.owner # s
    <3> SUFFICES ASSUME NEW g \in WithoutFirst(f) PROVE g.owner # s
      OBVIOUS
    <3>1. \/ g \in main.rest
          \/ Tail(f.kept) # <<>> /\ g = With(f, Tail(f.kept))
      BY <2>1, WithoutFirstFacts
    <3>2. f.kept \in Seq(FrozenEvents)
      BY <2>1 DEF FrozenEntries
    <3>3. Tail(f.kept) \in Seq(FrozenEvents)
      BY <2>1, <3>2, HeadTailFacts
    <3>4. With(f, Tail(f.kept)).owner = f.owner
      BY <2>1, <3>3, EntryFields
    <3>5. CASE g \in main.rest
      BY <2>1, <3>5 DEF Unfrozen
    <3>6. CASE g = With(f, Tail(f.kept))
      BY <2>2, <3>4, <3>6
    <3> QED
      BY <3>1, <3>5, <3>6
  <2>4. \A i \in 1..Len(immediate') : immediate'[i].do = "replay" => immediate'[i].to # s
    <3>1. \A i \in 1..Len(immediate') :
              \/ i \in 1..Len(immediate) /\ immediate'[i] = immediate[i]
              \/ immediate'[i] = task
      BY <1>2, <2>1, AppendFacts
    <3> QED
      BY <2>1, <2>2, <3>1 DEF Unfrozen
  <2>5. worker'.at = "keep" => Receiver' # s
    BY <2>1 DEF Unfrozen, Receiver
  <2> QED
    BY <2>1, <2>2, <2>3, <2>4, <2>5 DEF Unfrozen
<1>7. CASE TakeImmediate
  <2>1. /\ immediate # <<>> /\ immediate' = Tail(immediate) /\ Run(Head(immediate))
        /\ UNCHANGED <<isFreeze, frozenEvents, main>>
    BY <1>7 DEF TakeImmediate, registryVars
  <2>2. \A i \in 1..Len(immediate') : \E j \in 1..Len(immediate) : immediate[j] = immediate'[i]
    BY <1>2, <2>1, HeadTailFacts
  <2>3. CASE NotifyBegin(Head(immediate))
    BY <2>1, <2>2, <2>3, UnfrozenKept DEF NotifyBegin
  <2>4. CASE NotifyFreezeEvents(Head(immediate))
    <3> DEFINE o == Head(immediate).to
    <3>1. /\ Head(immediate).do = "replay" /\ worker' = worker
          /\ \/ told' = told
             \/ \E e : told' = [told EXCEPT ![o] = Append(@, e)]
      BY <2>1, <2>4, ReplayedFacts
    <3>2. Head(immediate) = immediate[1] /\ 1 \in 1..Len(immediate)
      BY <1>2, <2>1, HeadTailFacts
    <3>3. o # s
      BY <3>1, <3>2 DEF Unfrozen
    <3> HIDE DEF o
    <3>4. told'[s] = told[s]
      BY <1>0, <1>2, <3>1, <3>3
    <3> QED
      BY <2>1, <2>2, <3>1, <3>4, UnfrozenKept
  <2> QED
    BY <2>1, <2>3, <2>4 DEF Run
<1>8. CASE TakeLow
  <2>1. low # <<>> /\ Run(Head(low)) /\ UNCHANGED <<immediate, isFreeze, frozenEvents, main>>
    BY <1>8 DEF TakeLow, registryVars
  <2>2. Head(low).do = "notify"
    <3>1. low \in Seq(Tasks) /\ OnlyNotifies(low)
      BY TypeParts DEF QueueTypes, EventInv
    <3>2. Head(low) = low[1] /\ 1 \in 1..Len(low)
      BY <2>1, <3>1, HeadTailFacts
    <3> QED
      BY <3>1, <3>2 DEF OnlyNotifies
  <2>3. told' = told /\ worker'.at # "keep"
    <3>1. NotifyBegin(Head(low))
      BY <2>1, <2>2 DEF Run, NotifyFreezeEvents
    <3> QED
      BY <3>1 DEF NotifyBegin
  <2> QED
    BY <1>1, <2>1, <2>3
<1>9. CASE NotifyReceiver
  <2>1. HasReceiver /\ UNCHANGED <<isFreeze, frozenEvents, main, immediate>> /\ worker'.at = "notify"
    <3>1. worker' = Delivered("DELIVERED") \/ worker' = Delivered("SKIPPED")
      BY <1>9 DEF NotifyReceiver
    <3>2. worker'.at = "notify"
      BY <3>1 DEF Delivered
    <3> QED
      BY <1>9, <3>2 DEF NotifyReceiver, registryVars, queueVars
  <2>2. CASE told' = told
    BY <1>1, <2>1, <2>2
  <2>3. CASE Tell(Receiver, worker.record, FALSE)
    <3>1. PICK e \in Received : e.replayed = FALSE /\ told' = [told EXCEPT ![Receiver] = Append(@, e)]
      BY <2>1, <2>3, DirectFacts
    <3>2. Receiver \in Subscribers
      BY <2>1, ReceiverFacts
    <3>3. \A j \in 1..Len(told'[s]) :
                      \/ j \in 1..Len(told[s]) /\ told'[s][j] = told[s][j]
                      \/ told'[s][j] = e
      BY <1>0, <1>2, <3>1, <3>2, TellFacts
    <3>4. \A j \in 1..Len(told'[s]) : ~told'[s][j].replayed
      BY <3>1, <3>3 DEF Unfrozen
    <3> QED
      BY <2>1, <3>4 DEF Unfrozen
  <2> QED
    BY <1>9, <2>2, <2>3 DEF NotifyReceiver
<1>10. CASE FindFrozen
  <2>1. /\ Receiver \in isFreeze /\ HasReceiver /\ worker' = [worker EXCEPT !.at = "keep"]
        /\ UNCHANGED <<isFreeze, frozenEvents, main, immediate, told>>
    BY <1>10 DEF FindFrozen, registryVars, queueVars, ghostVars
  <2>2. worker'.record = worker.record /\ worker'.nextReceiver = worker.nextReceiver
    <3>1. /\ worker.at # "idle"
          /\ worker = [at |-> worker.at, record |-> worker.record, nextReceiver |-> worker.nextReceiver,
                       deliveryState |-> worker.deliveryState]
      BY <2>1, TypeParts, WorkerFields, ReceiverFacts DEF WorkerType
    <3> QED
      BY <2>1, <3>1
  <2>3. Receiver' # s
    BY <2>1, <2>2 DEF Receiver, Unfrozen
  <2> QED
    BY <2>1, <2>3 DEF Unfrozen
<1>11. CASE KeepFrozenEvent
  <2> DEFINE R == Receiver
             e == KeptEvent
  <2>1. /\ e \in FrozenEvents /\ InsertFrozenEvents(R, e) /\ worker' = Delivered("SKIPPED")
        /\ R \in Subscribers /\ R # s
        /\ UNCHANGED <<main, immediate, told>>
    BY <1>11, KeepFacts, ReceiverFacts DEF queueVars, KeepFrozenEvent, Unfrozen
  <2> HIDE DEF R, e
  <2>2. worker'.at # "keep"
    BY <2>1 DEF Delivered
  <2>3. ASSUME NEW g \in frozenEvents' PROVE g.owner # s
    <3>1. /\ \/ g \in frozenEvents
             \/ g = [owner |-> R, kept |-> <<e>>]
             \/ \E f \in EntryOf(R) : g = With(f, Trim(Append(f.kept, e)))
      BY <1>2, <2>1, InsertFrozenFacts
    <3>2. CASE \E f \in EntryOf(R) : g = With(f, Trim(Append(f.kept, e)))
      <4>1. PICK f \in EntryOf(R) : g = With(f, Trim(Append(f.kept, e)))
        BY <3>2
      <4>2. f \in frozenEvents /\ f \in FrozenEntries /\ f.kept \in Seq(FrozenEvents) /\ f.kept # <<>>
        BY <1>2 DEF EntryOf, FrozenEntries, Filled
      <4>3. Trim(Append(f.kept, e)) \in Seq(FrozenEvents)
        BY <2>1, <4>2, TrimFacts
      <4>4. g.owner = f.owner
        BY <4>1, <4>2, <4>3, EntryFields
      <4> QED
        BY <4>2, <4>4 DEF Unfrozen
    <3> QED
      BY <2>1, <3>1, <3>2 DEF Unfrozen
  <2>4. isFreeze' = isFreeze
    BY <1>2, <2>1, InsertFrozenFacts
  <2> QED
    BY <2>1, <2>2, <2>3, <2>4 DEF Unfrozen
<1>12. CASE NotifyEnd
  BY <1>1, <1>12 DEF NotifyEnd, registryVars, Idle
<1>13. ASSUME NEW p \in Publications, PublishCommonEvent(p) PROVE Unfrozen(s)'
  BY <1>1, <1>13 DEF PublishCommonEvent, Enqueueing, registryVars, queueVars
<1>14. ASSUME NEW t \in Subscribers, SubscribeCommonEvent(t) PROVE Unfrozen(s)'
  <2>1. main' = Idle \/ \E a, b : main' = Enqueueing(a, b)
    BY <1>14 DEF SubscribeCommonEvent
  <2>2. main'.at # "replay"
    BY <2>1 DEF Idle, Enqueueing
  <2> QED
    BY <1>1, <1>14, <2>2 DEF SubscribeCommonEvent, InsertSubscriber, queueVars
<1>15. ASSUME NEW t \in Subscribers, UnsubscribeCommonEvent(t) \/ SubscriberDied(t) PROVE Unfrozen(s)'
  <2>1. isFreeze' = isFreeze
    BY <1>15 DEF UnsubscribeCommonEvent, SubscriberDied, RemoveSubscriber, registryVars
  <2> QED
    BY <1>1, <1>15, <2>1, FrozenAfterRemove DEF UnsubscribeCommonEvent, SubscriberDied, queueVars, ghostVars
<1>16. ASSUME NEW u \in FreezeUids, Freeze(u) PROVE Unfrozen(s)'
  <2>1. /\ isFreeze' = isFreeze \cup {t \in ToSet(subscribers) : Uid[t] = u}
        /\ UNCHANGED <<frozenEvents, main, worker, immediate, told>>
    BY <1>16 DEF Freeze, UpdateFreezeInfo, queueVars, ghostVars
  <2>2. s \notin isFreeze'
    BY <2>1 DEF Unfrozen, NeverFrozen
  <2>3. worker'.at = "keep" => Receiver' # s
    BY <2>1 DEF Unfrozen, Receiver
  <2> QED
    BY <2>1, <2>2, <2>3 DEF Unfrozen
<1>17. ASSUME NEW u \in FreezeUids, Unfreeze(u) PROVE Unfrozen(s)'
  <2>1. main'.at = "collect"
    BY <1>17 DEF Unfreeze
  <2> QED
    BY <1>1, <1>17, <2>1 DEF Unfreeze, UpdateFreezeInfo, queueVars, ghostVars
<1>18. CASE Tick \/ UNCHANGED vars
  BY <1>1, <1>18 DEF Tick, vars, registryVars, queueVars, ghostVars
<1> QED
  BY <1>3, <1>4, <1>5, <1>6, <1>7, <1>8, <1>9, <1>10, <1>11, <1>12, <1>13, <1>14, <1>15, <1>16,
     <1>17, <1>18 DEF Next, MainStep, WorkerStep, Calling

\* When what is on its way stays on it.
LEMMA StickyKept ==
    ASSUME StickyReaches, commonEventRecords' = commonEventRecords, listening' \subseteq listening,
           \A s \in NeverFrozen \cap listening' : \A p :
               <<s, p>> \in Permitted /\ Reaches(main, immediate, low, worker, told, s, <<p, FALSE>>)
                   => Reaches(main', immediate', low', worker', told', s, <<p, FALSE>>)
    PROVE  StickyReaches'
BY DEF StickyReaches, Concerns

\* Nobody forgets what he heard.
LEMMA StillHeard ==
    ASSUME told \in [Subscribers -> Seq(Received)], NEW s \in Subscribers, NEW e \in Received,
           told' = [told EXCEPT ![s] = Append(@, e)]
    PROVE  /\ \A t \in Subscribers : \A k : Heard(told, t, k) => Heard(told', t, k)
           /\ Heard(told', s, Class(e))
<1>1. \A t \in Subscribers : \A j \in 1..Len(told[t]) : j \in 1..Len(told'[t]) /\ told'[t][j] = told[t][j]
  BY TellFacts
<1>2. Len(told[s]) + 1 \in 1..Len(told'[s]) /\ told'[s][Len(told[s]) + 1] = e
  BY TellFacts
<1> QED
  BY <1>1, <1>2 DEF Heard

\* Nothing leaves a queue when another task comes; the first one is taken.
LEMMA StillQueued ==
    ASSUME NEW q \in Seq(Tasks)
    PROVE  /\ \A t \in Tasks : \A s, k :
                  /\ InQueue(q, s, k) => InQueue(Append(q, t), s, k)
                  /\ t.do = "notify" /\ For(t.record, s, k) => InQueue(Append(q, t), s, k)
           /\ q # <<>> => \A s, k : InQueue(q, s, k) =>
                  InQueue(Tail(q), s, k) \/ (Head(q).do = "notify" /\ For(Head(q).record, s, k))
<1>1. ASSUME NEW t \in Tasks, NEW s, NEW k
      PROVE  /\ InQueue(q, s, k) => InQueue(Append(q, t), s, k)
             /\ t.do = "notify" /\ For(t.record, s, k) => InQueue(Append(q, t), s, k)
  <2> DEFINE u == Append(q, t)
  <2>1. /\ u[Len(q) + 1] = t /\ Len(q) + 1 \in 1..Len(u)
        /\ \A i \in 1..Len(q) : i \in 1..Len(u) /\ u[i] = q[i]
    BY AppendFacts
  <2> HIDE DEF u
  <2> QED
    BY <2>1 DEF InQueue, u
<1>2. ASSUME q # <<>>, NEW s, NEW k, InQueue(q, s, k)
      PROVE  InQueue(Tail(q), s, k) \/ (Head(q).do = "notify" /\ For(Head(q).record, s, k))
  <2> DEFINE u == Tail(q)
             t == Head(q)
  <2>1. t = q[1] /\ Len(u) = Len(q) - 1 /\ \A i \in 1..Len(u) : u[i] = q[i + 1]
    BY <1>2
  <2>2. Len(q) \in Nat
    OBVIOUS
  <2> HIDE DEF u, t
  <2>3. PICK i \in 1..Len(q) : q[i].do = "notify" /\ For(q[i].record, s, k)
    BY <1>2 DEF InQueue
  <2>4. CASE i = 1
    BY <2>1, <2>3, <2>4 DEF t
  <2>5. CASE i # 1
    <3>1. i - 1 \in 1..Len(u) /\ u[i - 1] = q[(i - 1) + 1] /\ (i - 1) + 1 = i
      BY <2>1, <2>2, <2>5
    <3> QED
      BY <2>3, <3>1 DEF InQueue, u
  <2> QED
    BY <2>4, <2>5
<1> QED
  BY <1>1, <1>2

\* What follows in main's loop is in its hands next, or still follows.
LEMMA StillInLoop ==
    ASSUME NEW rest \in Seq(EventRecords), rest # <<>>, NEW m, m.at = "enqueue", m.rest = rest,
           NEW s, NEW k, InLoop(m, s, k)
    PROVE  LET m2 == Enqueueing(Head(rest), Tail(rest)) IN InMain(m2, s, k) \/ InLoop(m2, s, k)
<1> DEFINE u == Tail(rest)
           t == Head(rest)
           m2 == Enqueueing(t, u)
<1>1. /\ t = rest[1] /\ Len(u) = Len(rest) - 1 /\ Len(rest) \in Nat
      /\ \A i \in 1..Len(u) : u[i] = rest[i + 1]
  OBVIOUS
<1>2. m2.at = "enqueue" /\ m2.record = t /\ m2.rest = u
  BY DEF Enqueueing
<1> HIDE DEF u, t, m2
<1>3. PICK i \in 1..Len(rest) : For(rest[i], s, k)
  BY DEF InLoop
<1>4. ASSUME i = 1 PROVE InMain(m2, s, k)
  BY <1>1, <1>2, <1>3, <1>4 DEF InMain
<1>5. ASSUME i # 1 PROVE InLoop(m2, s, k)
  <2>1. i - 1 \in 1..Len(u) /\ u[i - 1] = rest[(i - 1) + 1] /\ (i - 1) + 1 = i
    BY <1>1, <1>5
  <2> QED
    BY <1>2, <1>3, <2>1 DEF InLoop
<1> QED
  BY <1>4, <1>5 DEF m2, u, t

LEMMA NamedAloneNext ==
    ASSUME TypeInv, RecordInv, NamedAlone(main), [Next]_vars
    PROVE  NamedAlone(main')
<1>1. CASE main' = main \/ main'.at # "enqueue"
  BY <1>1 DEF NamedAlone
<1>2. ASSUME NEW p \in Publications, PublishCommonEvent(p) PROVE NamedAlone(main')
  <2>1. \E a : main' = Enqueueing(a, <<>>)
    BY <1>2 DEF PublishCommonEvent
  <2> QED
    BY <2>1 DEF NamedAlone, Enqueueing
<1>3. CASE PublishMapped
  <2>1. \E a : main' = Enqueueing(a, <<>>)
    BY <1>3 DEF PublishMapped
  <2> QED
    BY <2>1 DEF NamedAlone, Enqueueing
<1>4. CASE EnqueueUnorderedRecord
  <2>1. CASE main'.at = "enqueue"
    <3>1. main.at = "enqueue" /\ main.rest # <<>> /\ main' = Enqueueing(Head(main.rest), Tail(main.rest))
      BY <1>4, <2>1 DEF EnqueueUnorderedRecord, Idle
    <3>2. main.rest \in Seq(EventRecords) /\ LoopIsSticky(main)
      BY <3>1, MainFields, TypeParts DEF MainType, RecordInv
    <3>3. main'.record.as \in Subscribers
      BY <3>1, <3>2, LoopTail
    <3> QED
      BY <3>3, UnorderedAssumption DEF NamedAlone
  <2> QED
    BY <1>1, <2>1
<1>5. ASSUME NEW s \in Subscribers, SubscribeCommonEvent(s) PROVE NamedAlone(main')
  <2>1. CASE StickyFor(s) = <<>>
    BY <1>1, <1>5, <2>1 DEF SubscribeCommonEvent, Idle
  <2>2. CASE StickyFor(s) # <<>>
    <3>1. main' = Enqueueing(Head(StickyFor(s)), Tail(StickyFor(s)))
      BY <1>5, <2>2 DEF SubscribeCommonEvent
    <3>2. PICK found \in Seq(Names) :
                 /\ Len(found) = Len(StickyFor(s))
                 /\ \A i \in 1..Len(found) :
                       StickyFor(s)[i] = EventRecord(commonEventRecords[found[i]], s, <<s>>)
      BY StickyFacts, TypeParts DEF StoreTypes
    <3>3. StickyFor(s) \in Seq(EventRecords)
      BY StickyFacts, TypeParts DEF StoreTypes
    <3>4. Head(StickyFor(s)) = StickyFor(s)[1] /\ 1 \in 1..Len(StickyFor(s))
      BY <2>2, <3>3, HeadTailFacts
    <3>5. Head(StickyFor(s)).as = s
      <4>1. StickyFor(s)[1] = EventRecord(commonEventRecords[found[1]], s, <<s>>)
        BY <3>2, <3>4
      <4> QED
        BY <3>4, <4>1 DEF EventRecord
    <3> QED
      BY <3>1, <3>5, UnorderedAssumption DEF NamedAlone, Enqueueing
  <2> QED
    BY <2>1, <2>2
<1>6. CASE CollectFrozenEvents \/ PostReplay
  <2>1. CASE CollectFrozenEvents
    BY <1>1, <2>1 DEF CollectFrozenEvents, Idle
  <2>2. CASE PostReplay
    BY <1>1, <2>2, PostFacts
  <2> QED
    BY <1>6, <2>1, <2>2
<1>7. CASE WorkerStep \/ Tick \/ UNCHANGED vars
  BY <1>1, <1>7 DEF WorkerStep, TakeImmediate, TakeLow, NotifyReceiver, FindFrozen, KeepFrozenEvent, NotifyEnd,
                    Tick, vars
<1>8. ASSUME NEW s \in Subscribers, UnsubscribeCommonEvent(s) \/ SubscriberDied(s) PROVE NamedAlone(main')
  BY <1>1, <1>8 DEF UnsubscribeCommonEvent, SubscriberDied
<1>9. ASSUME NEW u \in FreezeUids, Freeze(u) \/ Unfreeze(u) PROVE NamedAlone(main')
  <2>1. CASE Freeze(u)
    BY <1>1, <2>1 DEF Freeze
  <2>2. CASE Unfreeze(u)
    <3>1. main'.at = "collect"
      BY <2>2 DEF Unfreeze
    <3> QED
      BY <1>1, <3>1
  <2> QED
    BY <1>9, <2>1, <2>2
<1> QED
  BY <1>2, <1>3, <1>4, <1>5, <1>6, <1>7, <1>8, <1>9 DEF Next, MainStep, Calling

LEMMA StickyReachesNext ==
    ASSUME TypeInv, RegistryInv, RecordInv, EventInv, NamedAlone(main),
           \A s \in NeverFrozen : Unfrozen(s), StickyReaches, [Next]_vars
    PROVE  StickyReaches'
<1>0. NeverFrozen \subseteq Subscribers
  BY DEF NeverFrozen
<1>1. /\ immediate \in Seq(Tasks) /\ low \in Seq(Tasks) /\ told \in [Subscribers -> Seq(Received)]
      /\ commonEventRecords \in [Names -> Publications \cup {None}]
  BY TypeParts DEF QueueTypes, ToldType, StoreTypes
<1>2. ASSUME UNCHANGED <<commonEventRecords, immediate, low, told>>, listening' \subseteq listening,
             main' = main \/ main.at # "enqueue",
             \A s \in NeverFrozen : \A k : Remaining(worker, s, k) => Remaining(worker', s, k)
      PROVE  StickyReaches'
  <2>1. \A s, k : Coming(main, s, k) => Coming(main', s, k)
    BY <1>2 DEF Coming, InMain, InLoop
  <2>2. \A s \in NeverFrozen \cap listening' : \A p :
               Reaches(main, immediate, low, worker, told, s, <<p, FALSE>>)
                   => Reaches(main', immediate', low', worker', told', s, <<p, FALSE>>)
    BY <1>2, <2>1 DEF Reaches
  <2> QED
    BY <1>2, <2>2, StickyKept
<1>3. ASSUME NEW p \in Publications, PublishCommonEvent(p) PROVE StickyReaches'
  <2> DEFINE r == GetSubscriberRecords(Name[p], Passing[p])
  <2>1. /\ main.at = "idle" /\ UNCHANGED <<immediate, low, worker, told, listening>>
        /\ main' = Enqueueing(EventRecord(p, "named", r), <<>>)
        /\ commonEventRecords' =
              IF p \in Sticky THEN [commonEventRecords EXCEPT ![Name[p]] = p] ELSE commonEventRecords
    BY <1>3 DEF PublishCommonEvent, UpdateStickyEvent, registryVars, queueVars
  <2>2. main'.at = "enqueue" /\ main'.record.receivers = r /\ main'.record.pub = p /\ main'.record.as = "named"
    BY <2>1 DEF Enqueueing, EventRecord
  <2> HIDE DEF r
  <2>3. Class(main'.record) = <<p, FALSE>>
    BY <2>2 DEF Class
  <2> SUFFICES ASSUME NEW s \in NeverFrozen \cap listening, NEW n \in Names,
                      Concerns(s, n, commonEventRecords'[n])
               PROVE  Reaches(main', immediate', low', worker', told', s, <<commonEventRecords'[n], FALSE>>)
    BY <2>1 DEF StickyReaches, Concerns
  <2>4. CASE p \in Sticky /\ n = Name[p]
    <3>1. commonEventRecords'[n] = p
      BY <1>1, <2>1, <2>4
    <3>2. s \in ToSet(r)
      <4>1. IsIndex(subscribers, n, eventSubscribers[n]) /\ ToSet(subscribers) = listening
        BY DEF RegistryInv
      <4>2. s \in ToSet(eventSubscribers[n]) /\ s \in Passing[p]
        BY <3>1, <4>1 DEF IsIndex, Concerns
      <4>3. ToSet(Selected(eventSubscribers[n], Passing[p])) = ToSet(eventSubscribers[n]) \cap Passing[p]
        BY <4>1, SelectedFacts DEF IsIndex
      <4> QED
        BY <2>4, <4>2, <4>3 DEF r, GetSubscriberRecords
    <3>3. InMain(main', s, <<p, FALSE>>)
      BY <2>2, <2>3, <3>2 DEF InMain, For
    <3> QED
      BY <3>1, <3>3 DEF Reaches, Coming
  <2>5. CASE ~(p \in Sticky /\ n = Name[p])
    <3>1. commonEventRecords'[n] = commonEventRecords[n]
      BY <1>1, <2>1, <2>5
    <3> DEFINE q == commonEventRecords[n]
    <3>2. Reaches(main, immediate, low, worker, told, s, <<q, FALSE>>)
      BY <3>1 DEF StickyReaches
    <3>3. ~Coming(main, s, <<q, FALSE>>)
      BY <2>1 DEF Coming, InMain, InLoop
    <3> HIDE DEF q
    <3>4. Reaches(main', immediate', low', worker', told', s, <<q, FALSE>>)
      BY <2>1, <3>2, <3>3 DEF Reaches
    <3> QED
      BY <3>1, <3>4 DEF q
  <2> QED
    BY <2>4, <2>5
<1>4. ASSUME NEW t \in Subscribers, SubscribeCommonEvent(t) PROVE StickyReaches'
  <2> DEFINE new == StickyFor(t)
  <2>1. /\ main.at = "idle" /\ UNCHANGED <<immediate, low, worker, told, commonEventRecords>>
        /\ listening' = listening \cup {t}
        /\ main' = IF new = <<>> THEN Idle ELSE Enqueueing(Head(new), Tail(new))
    BY <1>4 DEF SubscribeCommonEvent, InsertSubscriber, queueVars, storeVars
  <2> SUFFICES ASSUME NEW s \in NeverFrozen \cap listening', NEW n \in Names,
                      Concerns(s, n, commonEventRecords[n])
               PROVE  Reaches(main', immediate', low', worker', told', s, <<commonEventRecords[n], FALSE>>)
    BY <2>1 DEF StickyReaches, Concerns
  <2> DEFINE q == commonEventRecords[n]
  <2>2. CASE s # t
    <3>1. Reaches(main, immediate, low, worker, told, s, <<q, FALSE>>)
      BY <2>1, <2>2 DEF StickyReaches
    <3>2. ~Coming(main, s, <<q, FALSE>>)
      BY <2>1 DEF Coming, InMain, InLoop
    <3> HIDE DEF q, new
    <3>3. Reaches(main', immediate', low', worker', told', s, <<q, FALSE>>)
      BY <2>1, <3>1, <3>2 DEF Reaches
    <3> QED
      BY <3>3 DEF q
  <2>3. CASE s = t
    <3> DEFINE wanted == {m \in Names : commonEventRecords[m] # None}
               found == Selected(Subscribed[t], wanted)
    <3>1. found \in Seq(Names) /\ ToSet(found) = ToSet(Subscribed[t]) \cap wanted
      <4>1. Subscribed[t] \in Seq(Names)
        BY RegistryAssumption
      <4> QED
        BY <4>1, SelectedFacts
    <3>2. n \in ToSet(found) /\ q # None
      BY <2>3, <3>1 DEF Concerns, IsSubscribedTo
    <3>3. new = [i \in DOMAIN found |-> EventRecord(commonEventRecords[found[i]], t, <<t>>)]
      BY DEF StickyFor
    <3>4. new \in Seq(EventRecords)
      BY <1>1, StickyFacts
    <3> HIDE DEF found, new
    <3>5. PICK i \in DOMAIN found : found[i] = n
      BY <3>2 DEF ToSet
    <3>6. DOMAIN new = DOMAIN found /\ new[i] = EventRecord(q, t, <<t>>)
      BY <3>3, <3>5
    <3>7. new # <<>> /\ i \in 1..Len(new)
      BY <3>4, <3>5, <3>6
    <3> DEFINE m == [at |-> "enqueue", rest |-> new]
    <3>8. For(new[i], s, <<q, FALSE>>)
      <4>1. new[i].pub = q /\ new[i].as = t /\ new[i].receivers = <<t>>
        BY <3>6 DEF EventRecord
      <4>2. t # "mapped"
        BY UnorderedAssumption
      <4>3. t \in ToSet(<<t>>)
        BY DEF ToSet
      <4> HIDE DEF q
      <4> QED
        BY <2>3, <4>1, <4>2, <4>3 DEF For, Class
    <3>9. m.at = "enqueue" /\ m.rest = new
      OBVIOUS
    <3> HIDE DEF m, q
    <3>10. InLoop(m, s, <<q, FALSE>>)
      BY <3>7, <3>8, <3>9 DEF InLoop
    <3>11. InMain(main', s, <<q, FALSE>>) \/ InLoop(main', s, <<q, FALSE>>)
      BY <2>1, <3>4, <3>7, <3>9, <3>10, StillInLoop
    <3> QED
      BY <3>11 DEF Reaches, Coming, q
  <2> QED
    BY <2>2, <2>3
<1>5. CASE EnqueueUnorderedRecord
  <2> DEFINE r == main.record
             task == [do |-> "notify", record |-> r]
  <2>1. /\ main.at = "enqueue" /\ UNCHANGED <<worker, told, listening, commonEventRecords>>
        /\ \/ immediate' = Append(immediate, task) /\ low' = low
           \/ low' = Append(low, task) /\ immediate' = immediate
        /\ main' = IF r.as = "named" /\ Name[r.pub] \in DOMAIN Mapped THEN [at |-> "map", record |-> r]
                   ELSE IF main.rest = <<>> THEN Idle
                   ELSE Enqueueing(Head(main.rest), Tail(main.rest))
    BY <1>5 DEF EnqueueUnorderedRecord, registryVars, storeVars, ghostVars
  <2>2. task \in Tasks /\ task.do = "notify" /\ task.record = r
    <3>1. r \in EventRecords
      BY <2>1, MainFields, TypeParts DEF MainType
    <3> QED
      BY <3>1, TaskTypes
  <2>3. main.rest \in Seq(EventRecords)
    BY <2>1, MainFields, TypeParts DEF MainType
  <2> HIDE DEF task
  <2>4. \A s, k : Queued(immediate, low, s, k) \/ InMain(main, s, k) => Queued(immediate', low', s, k)
    <3>1. \A s, k : InMain(main, s, k) => For(task.record, s, k)
      BY <2>2 DEF InMain
    <3> HIDE DEF r
    <3>2. CASE immediate' = Append(immediate, task) /\ low' = low
      BY <1>1, <2>2, <3>1, <3>2, StillQueued DEF Queued
    <3>3. CASE low' = Append(low, task) /\ immediate' = immediate
      BY <1>1, <2>2, <3>1, <3>3, StillQueued DEF Queued
    <3> QED
      BY <2>1, <3>2, <3>3
  <2>5. ASSUME NEW s, NEW k, InLoop(main, s, k) PROVE Coming(main', s, k)
    <3>1. main.rest # <<>>
      <4>1. Len(main.rest) # 0
        BY <2>5 DEF InLoop
      <4> QED
        BY <4>1
    <3>2. r.as # "named"
      BY <2>1, <3>1 DEF NamedAlone
    <3>3. main' = Enqueueing(Head(main.rest), Tail(main.rest))
      BY <2>1, <3>1, <3>2
    <3> QED
      BY <2>1, <2>3, <2>5, <3>1, <3>3, StillInLoop DEF Coming
  <2>6. \A s, k : Reaches(main, immediate, low, worker, told, s, k)
                      => Reaches(main', immediate', low', worker', told', s, k)
    BY <2>1, <2>4, <2>5 DEF Reaches, Coming
  <2> QED
    BY <2>1, <2>6, StickyKept
<1>6. CASE PostReplay
  <2>1. PICK f \in main.rest, task \in Tasks :
               /\ main.at = "replay" /\ immediate' = Append(immediate, task)
               /\ UNCHANGED <<low, told, worker>>
    BY <1>6, PostedFacts
  <2>2. UNCHANGED <<listening, commonEventRecords>>
    BY <1>6 DEF PostReplay, registryVars, storeVars
  <2>3. \A s, k : ~Coming(main, s, k) /\ (InQueue(immediate, s, k) => InQueue(immediate', s, k))
    BY <1>1, <2>1, StillQueued DEF Coming, InMain, InLoop
  <2>4. \A s, k : Reaches(main, immediate, low, worker, told, s, k)
                      => Reaches(main', immediate', low', worker', told', s, k)
    BY <2>1, <2>3 DEF Reaches, Queued
  <2> QED
    BY <2>2, <2>4, StickyKept
<1>7. CASE PublishMapped \/ CollectFrozenEvents
  <2>1. CASE PublishMapped
    BY <1>2, <2>1 DEF PublishMapped, registryVars, queueVars, ghostVars
  <2>2. CASE CollectFrozenEvents
    BY <1>2, <2>2 DEF CollectFrozenEvents, GetFrozenEvents, queueVars, storeVars, ghostVars
  <2> QED
    BY <1>7, <2>1, <2>2
<1>8. ASSUME NEW q \in {immediate, low}, q # <<>>, NotifyBegin(Head(q)), worker.at = "idle",
             \/ q = immediate /\ immediate' = Tail(q) /\ low' = low
             \/ q = low /\ low' = Tail(q) /\ immediate' = immediate,
             UNCHANGED <<main, listening, commonEventRecords>>
      PROVE  StickyReaches'
  <2> DEFINE t == Head(q)
  <2>1. /\ t.do = "notify" /\ told' = told /\ t \in Tasks
        /\ worker'.at = "notify" /\ worker'.record = t.record /\ worker'.nextReceiver = 1
    BY <1>1, <1>8, HeadTailFacts DEF NotifyBegin
  <2>2. DOMAIN t.record.receivers = 1..Len(t.record.receivers) /\ Len(t.record.receivers) \in Nat
    BY <2>1, TaskFields, RecordFields
  <2>3. \A s, k : InQueue(q, s, k) => InQueue(Tail(q), s, k) \/ For(t.record, s, k)
    BY <1>1, <1>8, StillQueued
  <2> HIDE DEF t
  <2>4. \A s, k : For(t.record, s, k) => Remaining(worker', s, k)
    <3>1. \A s \in ToSet(t.record.receivers) : \E i \in 1..Len(t.record.receivers) :
              i >= 1 /\ t.record.receivers[i] = s
      BY <2>2 DEF ToSet
    <3> QED
      BY <2>1, <3>1 DEF For, Remaining
  <2>5. \A s, k : Queued(immediate, low, s, k) => Queued(immediate', low', s, k) \/ Remaining(worker', s, k)
    BY <1>8, <2>3, <2>4 DEF Queued
  <2>6. \A s, k : ~Remaining(worker, s, k)
    BY <1>8 DEF Remaining
  <2>7. \A s, k : Reaches(main, immediate, low, worker, told, s, k)
                      => Reaches(main', immediate', low', worker', told', s, k)
    BY <1>8, <2>1, <2>5, <2>6 DEF Reaches
  <2> QED
    BY <1>8, <2>7, StickyKept
<1>9. CASE TakeImmediate
  <2>1. /\ immediate # <<>> /\ immediate' = Tail(immediate) /\ Run(Head(immediate)) /\ worker.at = "idle"
        /\ UNCHANGED <<low, main, listening, commonEventRecords>>
    BY <1>9 DEF TakeImmediate, registryVars, storeVars
  <2>2. CASE NotifyBegin(Head(immediate))
    BY <1>8, <2>1, <2>2
  <2>3. CASE NotifyFreezeEvents(Head(immediate))
    <3> DEFINE o == Head(immediate).to
    <3>1. /\ Head(immediate).do = "replay" /\ worker' = worker /\ o \in Subscribers
          /\ \/ told' = told
             \/ \E e \in Received : told' = [told EXCEPT ![o] = Append(@, e)]
      BY <2>1, <2>3, ReplayedFacts
    <3>2. \A s, k : InQueue(immediate, s, k) => InQueue(immediate', s, k)
      BY <1>1, <2>1, <3>1, StillQueued
    <3> HIDE DEF o
    <3>3. \A s \in Subscribers : \A k : Heard(told, s, k) => Heard(told', s, k)
      BY <1>1, <3>1, StillHeard
    <3>4. \A s \in NeverFrozen : \A k : Reaches(main, immediate, low, worker, told, s, k)
                        => Reaches(main', immediate', low', worker', told', s, k)
      BY <1>0, <2>1, <3>1, <3>2, <3>3 DEF Reaches, Queued
    <3> QED
      BY <2>1, <3>4, StickyKept
  <2> QED
    BY <2>1, <2>2, <2>3 DEF Run
<1>10. CASE TakeLow
  <2>1. /\ low # <<>> /\ low' = Tail(low) /\ Run(Head(low)) /\ worker.at = "idle"
        /\ UNCHANGED <<immediate, main, listening, commonEventRecords>>
    BY <1>10 DEF TakeLow, registryVars, storeVars
  <2>2. Head(low).do = "notify"
    <3>1. OnlyNotifies(low)
      BY DEF EventInv
    <3>2. Head(low) = low[1] /\ 1 \in 1..Len(low)
      BY <1>1, <2>1, HeadTailFacts
    <3> QED
      BY <3>1, <3>2 DEF OnlyNotifies
  <2>3. NotifyBegin(Head(low))
    BY <2>1, <2>2 DEF Run, NotifyFreezeEvents
  <2> QED
    BY <1>8, <2>1, <2>3
<1>11. CASE NotifyReceiver \/ KeepFrozenEvent
  <2> DEFINE R == Receiver
             c == Class(worker.record)
  <2>1. /\ HasReceiver \/ worker.at = "keep"
        /\ UNCHANGED <<main, immediate, low, listening, commonEventRecords>>
    BY <1>11 DEF NotifyReceiver, KeepFrozenEvent, InsertFrozenEvents, registryVars, queueVars, storeVars
  <2>2. PICK state \in Deliveries : worker' = Delivered(state)
    BY <1>11 DEF NotifyReceiver, KeepFrozenEvent, Deliveries
  <2>3. \A s, k : Remaining(worker, s, k) => Remaining(worker', s, k) \/ (s = R /\ k = c)
    <3>1. /\ worker.at # "idle" /\ worker.record \in EventRecords
          /\ worker.nextReceiver \in 1..Len(worker.record.receivers)
          /\ R = worker.record.receivers[worker.nextReceiver]
      BY <2>1, ReceiverFacts
    <3>2. worker'.at = "notify" /\ worker'.record = worker.record /\ worker'.nextReceiver = worker.nextReceiver + 1
      BY <2>2 DEF Delivered
    <3>3. Len(worker.record.receivers) \in Nat
      BY <3>1, RecordFields
    <3>4. \A i \in 1..Len(worker.record.receivers) :
              i >= worker.nextReceiver => i >= worker'.nextReceiver \/ i = worker.nextReceiver
      BY <3>1, <3>2, <3>3
    <3> HIDE DEF R, c
    <3> QED
      BY <3>1, <3>2, <3>4 DEF Remaining, c
  <2>4. CASE told' = told /\ (\A s \in NeverFrozen \cap listening : \A p :
                                  <<s, p>> \in Permitted => ~(s = R /\ <<p, FALSE>> = c))
    <3> HIDE DEF R, c
    <3>1. \A s \in NeverFrozen \cap listening' : \A p :
               <<s, p>> \in Permitted /\ Reaches(main, immediate, low, worker, told, s, <<p, FALSE>>)
                   => Reaches(main', immediate', low', worker', told', s, <<p, FALSE>>)
      BY <2>1, <2>3, <2>4 DEF Reaches
    <3> QED
      BY <2>1, <3>1, StickyKept
  <2>5. CASE KeepFrozenEvent
    <3>1. worker.at = "keep" /\ told' = told
      BY <2>5 DEF KeepFrozenEvent, ghostVars
    <3>2. \A s \in NeverFrozen : s # R
      BY <3>1 DEF Unfrozen
    <3> QED
      BY <2>4, <3>1, <3>2
  <2>6. CASE NotifyReceiver
    <3>1. CASE R \in listening /\ <<R, worker.record.pub>> \in Permitted
      <4>1. HasReceiver /\ Tell(R, worker.record, FALSE)
        BY <2>6, <3>1 DEF NotifyReceiver
      <4>2. PICK e \in Received : Class(e) = c /\ told' = [told EXCEPT ![R] = Append(@, e)]
        BY <4>1, DirectFacts
      <4>3. R \in Subscribers
        BY <4>1, ReceiverFacts
      <4> HIDE DEF R, c
      <4>4. /\ \A s \in Subscribers : \A k : Heard(told, s, k) => Heard(told', s, k)
            /\ Heard(told', R, c)
        BY <1>1, <4>2, <4>3, StillHeard
      <4>5. \A s \in NeverFrozen : \A k : Reaches(main, immediate, low, worker, told, s, k)
                        => Reaches(main', immediate', low', worker', told', s, k)
        BY <1>0, <2>1, <2>3, <4>4 DEF Reaches
      <4> QED
        BY <2>1, <4>5, StickyKept
    <3>2. CASE ~(R \in listening /\ <<R, worker.record.pub>> \in Permitted)
      <4>1. told' = told
        BY <2>6, <3>2 DEF NotifyReceiver
      <4>2. \A p : <<p, FALSE>> = c => p = worker.record.pub
        BY DEF Class
      <4> HIDE DEF R, c
      <4> QED
        BY <2>4, <3>2, <4>1, <4>2
    <3> QED
      BY <3>1, <3>2
  <2> QED
    BY <1>11, <2>5, <2>6
<1>12. CASE FindFrozen
  <2>1. \A s, k : Remaining(worker, s, k) => Remaining(worker', s, k)
    <3>1. /\ worker.at # "idle"
          /\ worker = [at |-> worker.at, record |-> worker.record, nextReceiver |-> worker.nextReceiver,
                       deliveryState |-> worker.deliveryState]
      BY <1>12, TypeParts, WorkerFields, ReceiverFacts DEF FindFrozen, WorkerType
    <3>2. worker' = [worker EXCEPT !.at = "keep"]
      BY <1>12 DEF FindFrozen
    <3>3. worker'.record = worker.record /\ worker'.nextReceiver = worker.nextReceiver /\ worker'.at = "keep"
      BY <3>1, <3>2
    <3> QED
      BY <3>1, <3>3 DEF Remaining
  <2> QED
    BY <1>2, <1>12, <2>1 DEF FindFrozen, registryVars, queueVars, storeVars, ghostVars
<1>13. CASE NotifyEnd
  <2>1. \A s, k : ~Remaining(worker, s, k)
    <3>1. /\ \A i \in 1..Len(worker.record.receivers) : i < worker.nextReceiver
          /\ worker.at # "idle"
      BY <1>13, EndFacts
    <3>2. worker.nextReceiver \in Nat /\ \A i \in 1..Len(worker.record.receivers) : i \in Int
      BY <3>1, TypeParts, WorkerFields DEF WorkerType
    <3>3. \A i \in 1..Len(worker.record.receivers) : ~(i >= worker.nextReceiver)
      BY <3>1, <3>2
    <3> QED
      BY <3>3 DEF Remaining
  <2> QED
    BY <1>2, <1>13, <2>1 DEF NotifyEnd, registryVars, storeVars
<1>14. ASSUME NEW s \in Subscribers, UnsubscribeCommonEvent(s) \/ SubscriberDied(s) PROVE StickyReaches'
  <2>1. listening' \subseteq listening
    BY <1>14 DEF UnsubscribeCommonEvent, SubscriberDied, RemoveSubscriber, registryVars
  <2> QED
    BY <1>2, <1>14, <2>1 DEF UnsubscribeCommonEvent, SubscriberDied, queueVars, storeVars, ghostVars
<1>15. ASSUME NEW u \in FreezeUids, Freeze(u) \/ Unfreeze(u) PROVE StickyReaches'
  BY <1>2, <1>15 DEF Freeze, Unfreeze, UpdateFreezeInfo, queueVars, storeVars, ghostVars
<1>16. CASE Tick \/ UNCHANGED vars
  BY <1>2, <1>16 DEF Tick, vars, registryVars, queueVars, storeVars, ghostVars
<1> QED
  BY <1>3, <1>4, <1>5, <1>6, <1>7, <1>9, <1>10, <1>11, <1>12, <1>13, <1>14, <1>15, <1>16
     DEF Next, MainStep, WorkerStep, Calling

LEMMA StickyInvInit == Init => StickyInv
<1> SUFFICES ASSUME Init PROVE StickyInv
  OBVIOUS
<1>1. NamedAlone(main)
  BY DEF Init, Idle, NamedAlone
<1>2. \A s \in NeverFrozen : Unfrozen(s)
  BY UnfrozenInit
<1>3. listening = {}
  BY DEF Init, RegistryInit
<1>4. StickyReaches
  BY <1>3 DEF StickyReaches
<1> QED
  BY <1>1, <1>2, <1>4 DEF StickyInv

LEMMA StickyInvNext ==
    ASSUME TypeInv, RegistryInv, RecordInv, EventInv, StickyInv, [Next]_vars
    PROVE  StickyInv'
<1>1. NamedAlone(main')
  BY NamedAloneNext DEF StickyInv
<1>2. \A s \in NeverFrozen : Unfrozen(s)'
  BY UnfrozenNext DEF StickyInv
<1>3. StickyReaches'
  BY StickyReachesNext DEF StickyInv
<1> QED
  BY <1>1, <1>2, <1>3 DEF StickyInv

LEMMA LatestFromInv ==
    ASSUME TypeInv, RecordInv, LineInv, ReplayInv, StickyInv
    PROVE  StickyIsLatest
<1> SUFFICES ASSUME Resting, NEW s \in listening, Uid[s] \notin FreezeUids, NEW n \in Names,
                    Concerns(s, n, commonEventRecords[n])
             PROVE  LET seen == {j \in DOMAIN told[s] : told[s][j].as # "mapped" /\ Name[told[s][j].pub] = n}
                    IN  \E j \in seen : /\ \A i \in seen : i <= j
                                        /\ Position(told[s][j].pub) >= Position(commonEventRecords[n])
  BY DEF StickyIsLatest, Concerns
<1> DEFINE p == commonEventRecords[n]
           seen == {j \in DOMAIN told[s] : told[s][j].as # "mapped" /\ Name[told[s][j].pub] = n}
<1>1. s \in NeverFrozen /\ s \in Subscribers
  BY TypeParts DEF NeverFrozen, RegistryTypes
<1>2. /\ told[s] \in Seq(Received) /\ DOMAIN told[s] = 1..Len(told[s]) /\ Len(told[s]) \in Nat
      /\ p \in Publications /\ Name[p] = n
  <2>1. told[s] \in Seq(Received) /\ p \in Publications \cup {None}
    BY <1>1, TypeParts DEF ToldType, StoreTypes
  <2>2. p \in Publications /\ Name[p] = n
    BY <2>1 DEF RecordInv, StoreIsTrue, Concerns
  <2> QED
    BY <2>1, <2>2
<1>3. Heard(told, s, <<p, FALSE>>)
  <2>1. Reaches(main, immediate, low, worker, told, s, <<p, FALSE>>)
    BY <1>1 DEF StickyInv, StickyReaches
  <2>2. /\ main.at = "idle" /\ worker.at = "idle" /\ Len(immediate) = 0 /\ Len(low) = 0
    BY DEF Resting
  <2> HIDE DEF p
  <2> QED
    BY <2>1, <2>2 DEF Reaches, Remaining, Queued, InQueue, Coming, InMain, InLoop
<1>4. PICK h \in 1..Len(told[s]) : Class(told[s][h]) = <<p, FALSE>>
  BY <1>3 DEF Heard
<1>5. h \in seen /\ told[s][h].pub = p
  BY <1>2, <1>4 DEF Class
<1>6. PICK j \in seen : \A i \in seen : i <= j
  <2> DEFINE T == {Len(told[s]) - i : i \in seen}
  <2>1. seen \subseteq 1..Len(told[s])
    BY <1>2
  <2>2. T \subseteq Nat /\ T # {}
    BY <1>2, <1>5, <2>1
  <2>3. PICK x \in T : \A y \in T : x <= y
    <3> HIDE DEF T
    <3> QED
      BY <2>2, LeastNumber
  <2> HIDE DEF seen
  <2>4. PICK j \in seen : x = Len(told[s]) - j
    BY <2>3
  <2>5. \A i \in seen : Len(told[s]) - j <= Len(told[s]) - i
    BY <2>3, <2>4
  <2>6. \A i \in seen : i <= j
    BY <1>2, <2>1, <2>5
  <2> QED
    BY <2>6
<1>7. Position(told[s][j].pub) >= Position(p)
  <2>1. HeardInOrder(s, FALSE)
    BY <1>1, InOrderFromInv
  <2>2. /\ j \in DOMAIN told[s] /\ h <= j /\ h \in Nat /\ j \in Nat
        /\ told[s][j].as # "mapped" /\ Name[told[s][j].pub] = n
    BY <1>2, <1>5, <1>6
  <2>3. /\ ~told[s][h].replayed /\ ~told[s][j].replayed
        /\ told[s][h].replayed = FALSE /\ told[s][j].replayed = FALSE
    <3>1. told[s][h] \in Received /\ told[s][j] \in Received
      BY <1>2, <2>2
    <3>2. told[s][h].replayed \in BOOLEAN /\ told[s][j].replayed \in BOOLEAN
      BY <3>1 DEF Received
    <3>3. \A i \in 1..Len(told[s]) : ~told[s][i].replayed
      BY <1>1 DEF StickyInv, Unfrozen
    <3> QED
      BY <1>2, <2>2, <3>2, <3>3
  <2>4. CASE h < j
    <3>1. /\ h \in DOMAIN told[s] /\ Name[told[s][h].pub] = Name[told[s][j].pub]
          /\ (told[s][h].as = "mapped") = (told[s][j].as = "mapped")
      BY <1>2, <1>4, <1>5, <2>2
    <3>2. Position(told[s][h].pub) <= Position(told[s][j].pub)
      BY <2>1, <2>2, <2>3, <2>4, <3>1 DEF HeardInOrder
    <3>3. Position(told[s][h].pub) = Position(p)
      BY <1>5
    <3> DEFINE a == Position(told[s][h].pub)
               b == Position(told[s][j].pub)
    <3>4. a <= b
      BY <3>2
    <3> HIDE DEF a, b
    <3>5. a <= b => b >= a
      OBVIOUS
    <3> QED
      BY <3>3, <3>4, <3>5 DEF a, b
  <2>5. CASE h = j
    <3>1. p \in ToSet(published) /\ published \in Seq(Publications)
      BY <1>2, TypeParts DEF RecordInv, StoreIsTrue, Concerns, GhostTypes
    <3>2. Position(p) \in Int
      BY <3>1, PositionFacts
    <3>3. told[s][j].pub = p
      BY <1>5, <2>5
    <3> HIDE DEF p
    <3>4. Position(p) >= Position(p)
      BY <3>2
    <3> QED
      BY <3>3, <3>4
  <2> QED
    BY <2>2, <2>4, <2>5
<1> QED
  BY <1>6, <1>7

\* When everything has been delivered, a listener that is never frozen saw last
\* of every sticky name what GetStickyCommonEvent answers, or something newer,
\* however its subscription and the publications fell together.
THEOREM LatestStickyIsSeen == Spec => []StickyIsLatest
<1> DEFINE I == /\ RegistryInv /\ TypeInv /\ RecordInv /\ EventInv
                /\ LineInv /\ ReplayInv /\ StickyInv
<1>1. Init => I
  BY RegistryInvInit, TypeInvInit, RecordInvInit, EventInvInit, LineInvInit, ReplayInvInit, StickyInvInit
<1>2. I /\ [Next]_vars => I'
  BY RegistryInvNext, TypeInvNext, RecordInvNext, EventInvNext, LineInvNext, ReplayInvNext, StickyInvNext
<1>3. I => StickyIsLatest
  BY LatestFromInv
<1> QED
  BY <1>1, <1>2, <1>3, PTL DEF Spec
==============================================================================
