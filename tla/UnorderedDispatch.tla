-------------------------- MODULE UnorderedDispatch --------------------------
(***************************************************************************)
(* The unordered half of CommonEventControlManager, with the parts of      *)
(* InnerCommonEventManager that feed it: events that are not ordered,      *)
(* sticky events handed to a new subscriber, the second event of a mapped  *)
(* name, and the events replayed to a subscriber that is thawed.           *)
(*                                                                         *)
(* Two threads: the service handler (main) publishes, subscribes, freezes  *)
(* and thaws; the runner of handler_ (worker) notifies.  unorderedMutex_   *)
(* is held by the worker through NotifyUnorderedEvent and by main only to  *)
(* enqueue, so it is free exactly when worker.at = "idle".  A binder       *)
(* thread removes subscribers that die.                                    *)
(*                                                                         *)
(* handler_ has two queues of tasks, each first in first out: immediate    *)
(* and low.  The library prefers the first and now and then serves the     *)
(* second; here the worker takes the head of either.                       *)
(***************************************************************************)
EXTENDS SubscriberRegistry

CONSTANTS
    Publications,      \* calls of PublishCommonEvent that pass its checks
    Name,              \* [Publications -> Names]: the action at publication
    Sticky,            \* publications with IsSticky
    SystemEvents,      \* names for which IsSystemEvent holds
    Mapped,            \* function from some names to the name they are mapped to
    Passing,           \* [Publications -> subscribers that match, skills and user]
    Permitted,         \* pairs <<s, p>> for which CheckPermission returns DELIVERED
    FreezeUids,        \* uids that may be frozen and thawed
    Leavers,           \* subscribers that may unsubscribe
    Mortals,           \* subscribers whose process may die
    HISTORY_MAX_SIZE,
    MaxTime,           \* bound of the clock
    None

ASSUME UnorderedAssumption ==
    /\ Name \in [Publications -> Names]
    /\ DOMAIN Mapped \subseteq Names /\ \A n \in DOMAIN Mapped : Mapped[n] \in Names
    /\ HISTORY_MAX_SIZE \in Nat \ {0} /\ MaxTime \in Nat
    /\ None \notin Publications
    /\ {"named", "mapped"} \cap Subscribers = {}

VARIABLES
    unorderedEventQueue,  \* unorderedEventQueue_
    immediate, low,       \* tasks of handler_
    historyEvents,        \* the unordered part of historyEventRecords_
    commonEventRecords,   \* commonEventRecords_: [Names -> publication or None]
    action,               \* [Publications -> action of its CommonEventData]: one
                          \* object, shared by all records of the publication
    main,                 \* what the main thread is doing
    worker,               \* NotifyUnorderedEvent in progress
    clock,
    recordTime,           \* [Publications -> Nat]
    published,            \* publications so far, in order (history variable)
    known,                \* subscribers that ever subscribed (history variable)
    done,                 \* records notified (history variable)
    told                  \* [Subscribers -> what its listener received] (history variable)

queueVars  == <<unorderedEventQueue, immediate, low>>
storeVars  == <<commonEventRecords, action, recordTime>>
ghostVars  == <<published, known, done, told>>
vars == <<registryVars, queueVars, historyEvents, storeVars, main, worker, clock, ghostVars>>

\* An event record: its publication, how it came about (for its own name, for
\* the mapped name, or for the subscriber it is a sticky event for), receivers.
EventRecord(p, as, receivers) == [pub |-> p, as |-> as, receivers |-> receivers]

Idle == [at |-> "idle"]

Init ==
    /\ RegistryInit
    /\ unorderedEventQueue = <<>> /\ immediate = <<>> /\ low = <<>>
    /\ historyEvents = <<>>
    /\ commonEventRecords = [n \in Names |-> None]
    /\ action = Name
    /\ recordTime = [p \in Publications |-> 0]
    /\ main = Idle /\ worker = Idle /\ clock = 0
    /\ published = <<>> /\ known = {} /\ done = {}
    /\ told = [s \in Subscribers |-> <<>>]

-----------------------------------------------------------------------------
(* InnerCommonEventManager on the main thread *)

\* ProcessUnorderedEvent has a record to enqueue; the records in rest follow.
Enqueueing(r, rest) == [at |-> "enqueue", record |-> r, rest |-> rest]

UpdateStickyEvent(p) ==
    commonEventRecords' =
        IF p \in Sticky THEN [commonEventRecords EXCEPT ![Name[p]] = p] ELSE commonEventRecords

PublishCommonEvent(p) ==
    /\ main.at = "idle"
    /\ p \notin ToSet(published)
    /\ published' = Append(published, p)
    /\ recordTime' = [recordTime EXCEPT ![p] = clock]
    /\ UpdateStickyEvent(p)
    /\ main' = Enqueueing(EventRecord(p, "named", GetSubscriberRecords(Name[p], Passing[p])), <<>>)
    /\ UNCHANGED <<registryVars, queueVars, historyEvents, action, worker, clock, known, done, told>>

\* The second event of a mapped name: mappedEventRecord shares commonEventData,
\* so SetWant renames the first one too.
PublishMapped ==
    LET p == main.record.pub
        n == Mapped[Name[p]]
    IN
    /\ main.at = "map"
    /\ action' = [action EXCEPT ![p] = n]
    /\ main' = Enqueueing(EventRecord(p, "mapped", GetSubscriberRecords(n, Passing[p])), <<>>)
    /\ UNCHANGED <<registryVars, queueVars, historyEvents, commonEventRecords, recordTime,
                   worker, clock, ghostVars>>

\* Mutant: isSystemEvent is not handed on with a sticky event.
StickyIsLow(r) == Name[r.pub] \in SystemEvents /\ r.as \notin Subscribers

\* The queue of handler_ that a record goes to, by isSystemEvent of the record
\* that was published.
IsImmediate(r) == Name[r.pub] \in SystemEvents

\* EnqueueUnorderedRecord and the post of the task; where the caller goes on.
EnqueueUnorderedRecord ==
    LET r == main.record
        task == [do |-> "notify", record |-> r]
    IN
    /\ main.at = "enqueue"
    /\ worker.at = "idle"
    /\ unorderedEventQueue' = Append(unorderedEventQueue, r)
    /\ IF IsImmediate(r)
       THEN immediate' = Append(immediate, task) /\ UNCHANGED low
       ELSE low' = Append(low, task) /\ UNCHANGED immediate
    /\ main' = IF r.as = "named" /\ Name[r.pub] \in DOMAIN Mapped THEN [at |-> "map", record |-> r]
               ELSE IF main.rest = <<>> THEN Idle
               ELSE Enqueueing(Head(main.rest), Tail(main.rest))
    /\ UNCHANGED <<registryVars, historyEvents, storeVars, worker, clock, ghostVars>>

\* Mutant: a name without a sticky event is not left out.
StickyForAll(s) ==
    [i \in DOMAIN Subscribed[s] |-> EventRecord(commonEventRecords[Subscribed[s][i]], s, <<s>>)]

\* FindStickyEvents: the latest sticky event of each name, in the order in
\* which the subscriber named them.
StickyFor(s) ==
    LET found == Selected(Subscribed[s], {n \in Names : commonEventRecords[n] # None})
    IN  [i \in DOMAIN found |-> EventRecord(commonEventRecords[found[i]], s, <<s>>)]

SubscribeCommonEvent(s) ==
    /\ main.at = "idle"
    /\ s \notin known
    /\ known' = known \cup {s}
    /\ InsertSubscriber(s)
    /\ main' = IF StickyFor(s) = <<>> THEN Idle
               ELSE Enqueueing(Head(StickyFor(s)), Tail(StickyFor(s)))
    /\ UNCHANGED <<queueVars, historyEvents, storeVars, worker, clock, published, done, told>>

UnsubscribeCommonEvent(s) ==
    /\ main.at = "idle"
    /\ s \in Leavers \cap known
    /\ RemoveSubscriber(s)
    /\ UNCHANGED <<queueVars, historyEvents, storeVars, main, worker, clock, ghostVars>>

Freeze(u) ==
    /\ main.at = "idle"
    /\ UpdateFreezeInfo(u, TRUE)
    /\ UNCHANGED <<queueVars, historyEvents, storeVars, main, worker, clock, ghostVars>>

Unfreeze(u) ==
    /\ main.at = "idle"
    /\ UpdateFreezeInfo(u, FALSE)
    /\ main' = [at |-> "collect", uid |-> u]
    /\ UNCHANGED <<queueVars, historyEvents, storeVars, worker, clock, ghostVars>>

\* PublishFreezeCommonEvent: take what was kept, and post one replay per event.
CollectFrozenEvents ==
    /\ main.at = "collect"
    /\ GetFrozenEvents(main.uid)
    /\ main' = IF FrozenEventsOf(main.uid) = {} THEN Idle
               ELSE [at |-> "replay", rest |-> FrozenEventsOf(main.uid)]
    /\ UNCHANGED <<queueVars, historyEvents, storeVars, worker, clock, ghostVars>>

\* The loops of PublishFreezeCommonEvent: the entry of the highest priority, and
\* its oldest event, come first.
NextEntry(f) == f \in main.rest /\ \A g \in main.rest : Priority[f.owner] >= Priority[g.owner]

WithoutFirst(f) ==
    (main.rest \ {f}) \cup (IF Tail(f.kept) = <<>> THEN {} ELSE {[f EXCEPT !.kept = Tail(@)]})

\* The task gets a copy of the subscriber record, listener included.
PostReplay ==
    /\ main.at = "replay"
    /\ \E f \in main.rest :
           /\ NextEntry(f)
           /\ immediate' = Append(immediate, [do |-> "replay", to |-> f.owner, event |-> Head(f.kept),
                                              listener |-> f.owner \in listening])
           /\ main' = IF WithoutFirst(f) = {} THEN Idle ELSE [main EXCEPT !.rest = WithoutFirst(f)]
    /\ UNCHANGED <<registryVars, unorderedEventQueue, low, historyEvents, storeVars, worker,
                   clock, ghostVars>>

-----------------------------------------------------------------------------
(* The unordered handler *)

Tell(s, event, replayed) ==
    told' = [told EXCEPT ![s] = Append(@, [pub |-> event.pub, as |-> event.as,
                                           action |-> action[event.pub], replayed |-> replayed])]

\* NotifyUnorderedEvent begins: it takes unorderedMutex_.
NotifyBegin(task) ==
    /\ task.do = "notify"
    /\ worker' = [at |-> "notify", record |-> task.record, nextReceiver |-> 1,
                  deliveryState |-> [i \in DOMAIN task.record.receivers |-> "PENDING"]]
    /\ UNCHANGED told

NotifyFreezeEvents(task) ==
    /\ task.do = "replay"
    /\ IF task.listener /\ <<task.to, task.event.pub>> \in Permitted
       THEN Tell(task.to, task.event, TRUE) ELSE UNCHANGED told
    /\ UNCHANGED worker

Run(task) == NotifyBegin(task) \/ NotifyFreezeEvents(task)

TakeImmediate ==
    /\ worker.at = "idle" /\ immediate # <<>>
    /\ Run(Head(immediate))
    /\ immediate' = Tail(immediate)
    /\ UNCHANGED <<registryVars, unorderedEventQueue, low, historyEvents, storeVars, main, clock,
                   published, known, done>>

TakeLow ==
    /\ worker.at = "idle" /\ low # <<>>
    /\ Run(Head(low))
    /\ low' = Tail(low)
    /\ UNCHANGED <<registryVars, unorderedEventQueue, immediate, historyEvents, storeVars, main,
                   clock, published, known, done>>

Receiver == worker.record.receivers[worker.nextReceiver]
HasReceiver == worker.at = "notify" /\ worker.nextReceiver \in DOMAIN worker.record.receivers

\* The receiver's deliveryState is set and the loop moves on.
Delivered(state) ==
    [at |-> "notify", record |-> worker.record, nextReceiver |-> worker.nextReceiver + 1,
     deliveryState |-> [worker.deliveryState EXCEPT ![worker.nextReceiver] = state]]

\* One receiver of NotifyUnorderedEvent that is not frozen.
NotifyReceiver ==
    /\ HasReceiver
    /\ Receiver \notin isFreeze
    /\ IF Receiver \in listening /\ <<Receiver, worker.record.pub>> \in Permitted
       THEN Tell(Receiver, worker.record, FALSE) /\ worker' = Delivered("DELIVERED")
       ELSE UNCHANGED told /\ worker' = Delivered("SKIPPED")
    /\ UNCHANGED <<registryVars, queueVars, historyEvents, storeVars, main, clock, published,
                   known, done>>

\* isFreeze is read without the registry's mutex; the event is kept later.
FindFrozen ==
    /\ HasReceiver
    /\ Receiver \in isFreeze
    /\ worker' = [worker EXCEPT !.at = "keep"]
    /\ UNCHANGED <<registryVars, queueVars, historyEvents, storeVars, main, clock, ghostVars>>

KeepFrozenEvent ==
    LET r == worker.record IN
    /\ worker.at = "keep"
    /\ InsertFrozenEvents(Receiver, [pub |-> r.pub, as |-> r.as, recordTime |-> recordTime[r.pub]])
    /\ worker' = Delivered("SKIPPED")
    /\ UNCHANGED <<queueVars, historyEvents, storeVars, main, clock, ghostVars>>

\* Mutant: the bound is tested after the record has been added.
RememberedOneMore(h) ==
    IF Len(historyEvents) > HISTORY_MAX_SIZE THEN Append(Tail(historyEvents), h)
                                             ELSE Append(historyEvents, h)

\* EnqueueHistoryEventRecord: the oldest record makes room.
Remembered(h) ==
    Append(IF Len(historyEvents) = HISTORY_MAX_SIZE THEN Tail(historyEvents) ELSE historyEvents, h)

\* Mutant: an event without receivers is left where it is.
NotifyEndWithReceivers ==
    /\ worker.at = "notify"
    /\ worker.nextReceiver > Len(worker.record.receivers)
    /\ historyEvents' = Remembered([record |-> worker.record, deliveryState |-> worker.deliveryState])
    /\ unorderedEventQueue' = RemoveFirst(unorderedEventQueue, worker.record)
    /\ done' = IF worker.record.receivers = <<>> THEN done ELSE done \cup {worker.record}
    /\ worker' = Idle
    /\ UNCHANGED <<registryVars, immediate, low, storeVars, main, clock, published, known, told>>

NotifyEnd ==
    /\ worker.at = "notify"
    /\ worker.nextReceiver > Len(worker.record.receivers)
    /\ historyEvents' = Remembered([record |-> worker.record, deliveryState |-> worker.deliveryState])
    /\ unorderedEventQueue' = RemoveFirst(unorderedEventQueue, worker.record)
    /\ done' = done \cup {worker.record}
    /\ worker' = Idle
    /\ UNCHANGED <<registryVars, immediate, low, storeVars, main, clock, published, known, told>>

-----------------------------------------------------------------------------
(* Everybody else *)

\* SubscriberDeathRecipient::OnRemoteDied, on a binder thread.
SubscriberDied(s) ==
    /\ s \in Mortals \cap listening
    /\ RemoveSubscriber(s)
    /\ UNCHANGED <<queueVars, historyEvents, storeVars, main, worker, clock, ghostVars>>

Tick ==
    /\ clock < MaxTime
    /\ clock' = clock + 1
    /\ UNCHANGED <<registryVars, queueVars, historyEvents, storeVars, main, worker, ghostVars>>

MainStep == PublishMapped \/ EnqueueUnorderedRecord \/ CollectFrozenEvents \/ PostReplay
WorkerStep ==
    TakeImmediate \/ TakeLow \/ NotifyReceiver \/ FindFrozen \/ KeepFrozenEvent \/ NotifyEnd

Calling ==
    \/ \E p \in Publications : PublishCommonEvent(p)
    \/ \E s \in Subscribers : SubscribeCommonEvent(s) \/ UnsubscribeCommonEvent(s) \/ SubscriberDied(s)
    \/ \E u \in FreezeUids : Freeze(u) \/ Unfreeze(u)

Next == MainStep \/ WorkerStep \/ Calling \/ Tick

Spec == Init /\ [][Next]_vars

\* Both threads are event runners and keep running; callers owe nothing.
FairSpec == Spec /\ WF_vars(MainStep) /\ WF_vars(WorkerStep)
-----------------------------------------------------------------------------
(* Properties *)

Kinds == {"named", "mapped"} \cup Subscribers
EventRecords == [pub : Publications, as : Kinds, receivers : Seq(Subscribers)]
FrozenEvents == [pub : Publications, as : Kinds, recordTime : 0..MaxTime]
FrozenEntries == [owner : Subscribers, kept : Seq(FrozenEvents)]

Tasks == [do : {"notify"}, record : EventRecords]
    \cup [do : {"replay"}, to : Subscribers, event : FrozenEvents, listener : BOOLEAN]

MainStates ==
    [at : {"idle"}] \cup [at : {"map"}, record : EventRecords]
    \cup [at : {"enqueue"}, record : EventRecords, rest : Seq(EventRecords)]
    \cup [at : {"collect"}, uid : FreezeUids] \cup [at : {"replay"}, rest : SUBSET FrozenEntries]

Deliveries == {"PENDING", "DELIVERED", "SKIPPED"}
WorkerStates ==
    [at : {"idle"}]
    \cup [at : {"notify", "keep"}, record : EventRecords, nextReceiver : Nat,
          deliveryState : Seq(Deliveries)]

Received == [pub : Publications, as : Kinds, action : Names, replayed : BOOLEAN]

\* Type invariant of the variables above.
TypeOK ==
    /\ subscribers \in Seq(Subscribers) /\ eventSubscribers \in [Names -> Seq(Subscribers)]
    /\ listening \subseteq Subscribers /\ isFreeze \subseteq Subscribers
    /\ frozenEvents \subseteq FrozenEntries
    /\ unorderedEventQueue \in Seq(EventRecords)
    /\ immediate \in Seq(Tasks) /\ low \in Seq(Tasks)
    /\ historyEvents \in Seq([record : EventRecords, deliveryState : Seq(Deliveries)])
    /\ commonEventRecords \in [Names -> Publications \cup {None}]
    /\ action \in [Publications -> Names] /\ recordTime \in [Publications -> 0..MaxTime]
    /\ main \in MainStates /\ worker \in WorkerStates /\ clock \in 0..MaxTime
    /\ published \in Seq(Publications) /\ known \subseteq Subscribers
    /\ done \subseteq EventRecords /\ told \in [Subscribers -> Seq(Received)]

\* An event kept for s is on its way to s: in the map, in the hands of
\* PublishFreezeCommonEvent, or posted as a replay.
Is(event, r) == event.pub = r.pub /\ event.as = r.as
OnItsWay(s, r) ==
    \/ \E f \in frozenEvents : f.owner = s /\ \E i \in DOMAIN f.kept : Is(f.kept[i], r)
    \/ main.at = "replay" /\ \E f \in main.rest : f.owner = s /\ \E i \in DOMAIN f.kept : Is(f.kept[i], r)
    \/ \E i \in DOMAIN immediate :
           immediate[i].do = "replay" /\ immediate[i].to = s /\ Is(immediate[i].event, r)

WasTold(s, r) == \E i \in DOMAIN told[s] : Is(told[s][i], r)

\* A kept event may only be dropped for one that is FREEZE_EVENT_TIMEOUT newer.
Outdated(s, r) ==
    \E q \in done \cup (IF worker.at = "idle" THEN {} ELSE {worker.record}) :
        /\ s \in ToSet(q.receivers)
        /\ recordTime[q.pub] - recordTime[r.pub] > FREEZE_EVENT_TIMEOUT

\* Every receiver of an event that has been dealt with got it, may not have it,
\* is gone, or has it kept: freezing, thawing and dying at any point of the
\* delivery lose nothing.
NobodyForgotten ==
    \A r \in done : \A s \in ToSet(r.receivers) :
        \/ WasTold(s, r) \/ OnItsWay(s, r) \/ Outdated(s, r)
        \/ <<s, r.pub>> \notin Permitted
        \/ s \notin listening

\* A listener receives a publication at most once under its name and once
\* under the mapped name, be it directly, as a sticky event or as a replay.
ToldOnce ==
    \A s \in Subscribers : \A i, j \in DOMAIN told[s] :
        /\ told[s][i].pub = told[s][j].pub
        /\ (told[s][i].as = "mapped") = (told[s][j].as = "mapped")
        => i = j

Position(p) == CHOOSE i \in DOMAIN published : published[i] = p

\* Publications of one name reach a listener in the order of publication; so do
\* its replays.  (A replay may come after an event that was published later
\* and was waiting for the worker when the subscriber was thawed.)
SameNameInOrder ==
    \A s \in Subscribers : \A i, j \in DOMAIN told[s] :
        LET a == told[s][i]
            b == told[s][j]
        IN  (/\ i < j /\ a.replayed = b.replayed
             /\ Name[a.pub] = Name[b.pub] /\ (a.as = "mapped") = (b.as = "mapped"))
            => Position(a.pub) <= Position(b.pub)

Resting == main.at = "idle" /\ worker.at = "idle" /\ immediate = <<>> /\ low = <<>>

\* When everything has been delivered, what a listener saw last of a sticky
\* name is what GetStickyCommonEvent answers, however its subscription and the
\* publications were interleaved with the worker, unless it may be frozen.
StickyIsLatest ==
    Resting => \A s \in {l \in listening : Uid[l] \notin FreezeUids}, n \in Names :
        LET p == commonEventRecords[n]
            seen == {j \in DOMAIN told[s] : told[s][j].as # "mapped" /\ Name[told[s][j].pub] = n}
        IN  (p # None /\ IsSubscribedTo(s, n) /\ s \in Passing[p] /\ <<s, p>> \in Permitted)
            => \E j \in seen : /\ \A i \in seen : i <= j
                              /\ Position(told[s][j].pub) >= Position(p)

\* The history holds the latest events, never more than HISTORY_MAX_SIZE, and
\* says DELIVERED exactly of the receivers that were told directly.
HistoryIsTrue ==
    /\ Len(historyEvents) <= HISTORY_MAX_SIZE
    /\ \A h \in DOMAIN historyEvents :
           LET r == historyEvents[h].record IN
           \A i \in DOMAIN r.receivers :
               historyEvents[h].deliveryState[i] = "DELIVERED" <=>
                   \E j \in DOMAIN told[r.receivers[i]] :
                       LET t == told[r.receivers[i]][j] IN Is(t, r) /\ ~t.replayed
=============================================================================
