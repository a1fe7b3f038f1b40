# Verification of the common event service

TLA+ models, TLC runs and TLAPS proofs for `notification_ces_standard`, the
OpenHarmony service that publishes common events to subscribers in other
processes. Paths below are relative to the repository; `cm:` stands for
`services/src/common_event_control_manager.cpp`.

## 1. The system

### Components, their state and operations

| component | state | operations | hard behaviour |
|---|---|---|---|
| `CommonEventManagerService` (front end) | handler of the main service thread | every IPC call: check the caller on a binder thread, then post a task | the flood check, sticky reads and dumps run on binder threads, everything else on the main thread; freeze tasks are posted as immediate and overtake |
| `InnerCommonEventManager` | none of its own | publish, subscribe, unsubscribe, finish, freeze, unfreeze, sticky | compose calls of the managers below, no lock around the sequence |
| `CommonEventControlManager`, ordered half | `orderedEventQueue_`, `orderedMutex_`, `scheduled_`, `pendingTimeoutMessage_`, one `OrderedEventRecord` per event | process, enqueue, schedule, next, timeout, finish | two threads; finish and timeout run without the lock |
| `OrderedEventHandler` | its runner's message queue | `ORDERED_EVENT_START`, `ORDERED_EVENT_TIMEOUT` | delayed messages, removal of messages |
| `CommonEventControlManager`, unordered half | `unorderedEventQueue_`, `unorderedMutex_`, unordered handler | process, notify, replay | immediate and normal tasks, freeze between snapshot and delivery |
| `CommonEventSubscriberManager` | `subscribers_`, `eventSubscribers_` (multisets by priority), `frozenEvents_` | insert, remove, snapshot, freeze, keep frozen events | binder-thread removal when a subscriber dies; a map keyed by priority only |
| `CommonEventStickyManager` | one record per sticky event | update, find, get | records shared with the queues |
| `PublishManager` | publish times per uid | `CheckIsFloodAttack` | window boundaries |
| `StaticSubscriberManager` | allow list, table of valid subscribers | publish, add, remove, fill again | a fill that fails half-way |
| client `CommonEvent` | proxy and its validity, `eventListeners_`, a mutex for each | subscribe, unsubscribe, publish, finish, reset | the service dies and returns, a limit of listeners, a call of the service under a mutex |
| client `CommonEventListener`, `AsyncCommonEventResult` | handler, `result_`, `finished_` | notify, receive, stop, finish | callbacks under a mutex, asynchronous finish |
| JavaScript bindings | `subscriberInstances` and its mutex, works of the pool | 18 functions, events, a finalizer | works complete in any order, events come before the entry is made |
| proxies and stubs | none | a parcel per call | two sides that have to agree |
| `cem` tool | the options read so far | publish, dump | what an option means depends on what comes with it |
| history and dump | ring of 100 records | append, dump | the lines a client takes are limited |
| permission checks, matching skills, user ids | the table of permissions, built once | pure functions | one record filled for each of 80 names |
| support tables, helpers for other services | constants, cached proxies | - | - |

### How they interact

A publisher's proxy writes the call into a parcel, the stub reads it and calls the
front end, on a binder thread; the front end answers at once and posts the rest to
the main thread. There `InnerCommonEventManager::PublishCommonEvent` checks the user
and the name, lets the static subscribers be started, stores a sticky event,
hands the event to the control manager and, when the name is a mapped one, hands
on a second event that shares the first one's data. An ordered event takes a
snapshot of its receivers from the registry (in priority order), joins
`orderedEventQueue_` and makes sure that an `ORDERED_EVENT_START` is on its way.
The ordered thread gives the first receiver its turn. That receiver's answer
(`FinishReceiver`) arrives as a task on the *main* thread, which therefore gives
the next turn itself; the timeout of a receiver is handled on the *ordered*
thread; a death is handled on a *binder* thread. `orderedMutex_` protects
`ProcessNextOrderedEvent`, the enqueue and the match of an answer; it protects
neither `FinishReceiver`, which edits the record, nor
`CurrentOrderedEventTimeout`, nor the two flags.

In the client a notification is posted to the runner of its listener, where the
callback runs under the listener's mutex. An ordered event is finished by the
listener when the callback returns, unless the callback took the result with it
(`GoAsyncCommonEvent`); the JavaScript bindings do that for every ordered event, put
the result into the subscriber's entry of `subscriberInstances`, and let the script
finish it from a thread of the pool.

### What makes each component correct

* Ordered dispatch: events do not overlap; receivers are taken in priority
  order, each told at most once; an event leaves the queue once; nothing is
  forgotten; a receiver is passed over or cut short only for a reason; an answer
  ends the turn it was given for; an abort stops the event.
* Registry and replay: what is kept for a frozen subscriber reaches that
  subscriber, in order, before what is published after the thaw.
* Sticky and mapped events: what a subscriber gets is what was published under
  that name.
* Flood control: exactly the callers above the rate are refused.
* Front end: calls take effect in the order of each caller, although they are
  answered before; nobody acts for a user that is not his to act for.
* Static subscribers: the table is what the packages of the active users declare; a
  publication starts an extension once.
* Client: a subscription that answers true is one the service knows; what the service
  knows can be unsubscribed; an ordered event is answered exactly once; every call
  returns.
* JavaScript: every call settles; the entry and the listener come and go together.
* Wire: the service is asked what the client asked.
* Rules: who receives an event is who named it and is entitled to it; a dump shows
  what was asked for.

The hazards, each at its line, are in `PROJECT.json`.

## 2. Modules

| module | role |
|---|---|
| `OrderedDispatch` | ordered dispatch, its handler and the part of the registry it reads: state, one action per step, properties |
| `OrderedPromise` | what ordered dispatch promises, with no threads, locks, flags or time |
| `OrderedDispatchPromise` | the refinement mapping from `OrderedDispatch` to `OrderedPromise` |
| `MCOrderedDispatch` | instances for TLC, liveness |
| `OrderedDispatchProofs` | the inductive invariant of `OrderedDispatch` and the theorems that follow from it; `OrderedDispatch` implements `OrderedPromise`; what becomes of each receiver: history, nobody passed over, the idle front |
| `Selection`, `SelectionProofs` | the elements of a sequence that are in a set, in their order; what that yields, by induction over the naturals |
| `SubscriberRegistry` | `CommonEventSubscriberManager`: its containers and every operation that changes them |
| `UnorderedDispatch` | extends the registry by the threads that use it: publishing, sticky and mapped events, unordered dispatch, freezing and replay |
| `MCUnorderedDispatch` | instances, liveness, what the documentation says |
| `UnorderedDispatchProofs` | theorems about the registry and `UnorderedDispatch` |
| `UnorderedOrderProofs` | theorems about the order in which `UnorderedDispatch` delivers |
| `FloodControl` | `PublishManager`: the window of publish times of each uid |
| `StaticSubscribers` | `StaticSubscriberManager`, its table and connections, and the other services it asks |
| `CommonEventService` | the front end and `InnerCommonEventManager`: extends `StaticSubscribers` and `FloodControl` by binder threads, the main thread, users, the sticky store |
| `MCCommonEventService` | its callers and what they call |
| `CommonEventServiceProofs` | theorems about flood control, types and users, static subscribers and their table, and the order in which calls are done |
| `ClientListeners`, `MCClientListeners`, `ClientListenersProofs` | the client library: proxy, table, listeners, results; an instance; theorems |
| `JsSubscribers`, `MCJsSubscribers`, `JsSubscribersProofs` | the JavaScript bindings; an instance; theorems |
| `EventRules` | operators: matching skills, permissions, what a dump shows |
| `UserIds` | special user ids, whom an event of a user reaches |
| `CallWire` | proxies, parcels and stubs: marshalling of every call, one call on its way |
| `Strings16` | external: `Str8ToStr16` |
| `CommonEventTool`, `MCCommonEventTool` | the `cem` tool, composed with `CallWire` and `EventRules`; command lines and other clients' calls |
| `CommonEventToolProofs` | theorems about the wire, the tool, who may receive and what a dump shows |

### OrderedDispatch: state

`ev[e]` is the `OrderedEventRecord` of event `e`: `receivers`, `resultTo`,
`curReceiver` (`cur`), `deliveryState`, `nextReceiver` (`next`; indices are from 1,
so `next` is the index of the receiver whose turn it is), `state`, `resultAbort`.
The result code and data are left out: nothing here depends on them. `receiverTime` and
`dispatchTime` are ages in ticks, saturating where the code no longer tells
values apart (`TIMEOUT`, and one above `2 * TIMEOUT * receivers`).

`queue`, `scheduled`, `pending` and `lock` are `orderedEventQueue_`, `scheduled_`,
`pendingTimeoutMessage_` and the holder of `orderedMutex_`. `inbox` is the ordered
runner's queue of due messages, `timers[d]` the number of timeout messages due in
`d` ticks. `sub`, `frozen`, `parked` are the registry, `replay` what `Unfreeze`
posted to the unordered handler. `owed` holds the notifications that have not been
answered. `published`, `notified` and `crossed` are history variables; `crossed[e]` are the
receivers whose turn a finish on the other thread took away before they were told.

`pc` and `loc` are the program counter and the locals of the two threads.

### OrderedDispatch: actions

| code | actions |
|---|---|
| `ProcessOrderedEvent` | `ProcessOrderedEvent`, `EnqueueOrderedRecord`, then schedule |
| `ScheduleOrderedCommonEvent` | `ScheduleTest`, `ScheduleSend` |
| `ProcessNextOrderedEvent` | `LockForNext`; one of `LoopReturn`, `LoopForce`, `LoopConclude`, `LoopDispatch`; `ForceConclude` and `Retire`; `SetTime`; `NotifyOrderedEvent`, then `ParkFrozen`, or `CastReceiver` and `TellReceiver`; `CheckReceiver` |
| `SetTimeout` | `ArmTest`, `ArmSet`, `ArmSend` |
| `CancelTimeout` | test and reset in `Conclude`, `RemoveEvent` in `Retire` |
| `CurrentOrderedEventTimeout` | `TimeoutCheck` (or `LoopForce`), `TimeoutMark`, then finish and schedule |
| `FinishReceiver`, `FinishReceiverAction` | `FinishRead`, `FinishState`, `FinishCur`, `FinishResult` (with `AbortAfter`) |
| `OrderedEventHandler::ProcessEvent` | `TakeStart`, `TakeTimeout` |
| `InnerCommonEventManager` | `FinishReceiver`, `UnsubscribeCommonEvent` and `RemoveSubscriber`, `SubscribeCommonEvent`, `Freeze`, `Unfreeze` |
| `SubscriberDeathRecipient` | `SubscriberDied` |
| the clock and the handler library | `Tick` |

Both threads run the same actions; `call`, `force` and `doNext` in `loc[t]` say
where a shared part returns to.

### Granularity

A step ends where another thread can make a difference. `FinishReceiver` takes no lock, so
its read of `state`, its write of `state`, its write of `curReceiver` and the rest are four steps
(`cm:643`, `644`, `645`, `646`); and what runs under the lock is cut where it uses again what such a
finish may write: `curReceiver` is written (`cm:448`), read by `iface_cast` (`cm:452`) and tested by
the caller (`cm:531`) in three steps, with `RECEIVED` and the notification (`cm:459-462`) between the
last two. `pendingTimeoutMessage_` is read, tested again, set and followed by its message in four.

These statements share a step, because their parts could be moved together without changing what
anybody reads. Three facts serve for most of them: `curReceiver` is read under the lock only, and
only the holder of the lock makes it other than null; without the lock `state` is only compared
with `RECEIVED`, and only the holder of the lock moves it away from IDLE; `deliveryState` is only
copied to the history and shown in dumps.

* `deliveryState`, `curReceiver` and `state = RECEIVEING` (`cm:446-450`): a finish that writes
  IDLE in between could have done so before, since RECEIVEING replaces it; one that writes null, after;
* `state = RECEIVED` and the one-way call `NotifyEvent` (`cm:459-462`): no other notification is made
  without the lock, and a receiver that has not been told does not answer;
* the test of `curReceiver` and `state = IDLE` (`cm:531-532`): a null stays null, and a finish that
  reads `state` in between could have read it before;
* `InsertFrozenEvents`, SKIPPED and `curReceiver = nullptr` (`cm:439-442`): the insertion is one
  critical section of the registry, the rest is read under the lock or by the history;
* the tests of `state` and `resultAbort` (`cm:499-503`): a front event that was IDLE still is;
* `nextReceiver++` and the read of `pendingTimeoutMessage_` for `SetTime` (`cm:527-528`): only the
  timeout's mark reads `nextReceiver` without the lock, and what it marks goes to the history;
* the timeout's mark and its read of `resultAbort` (`cm:609-623`), for the same reason;
* the test and the reset in `CancelTimeout` (`cm:575-576`): in between only the handler touches the
  flag, resetting it as it takes a message and setting it as it arms one, and the pair can be put
  before these or after. `RemoveEvent` is a step of its own (`Retire`);
* the timeout's look at the clock and its write of `receiverTime` (`cm:595-607`): if a dispatch falls
  in between, the receiver just dispatched starts with a clock that is behind by as long as the
  handler stood still. No property measures how early a receiver may be given up;
* taking a message and resetting its flag (`cm:473`, `cm:588`): before the reset the
  flag says what it said while the message was queued;
* `scheduled_ = true` and the `SendEvent` after it: a thread that reads the flag in
  between returns, as it does after both;
* the match of an answer and the read of its arguments;
* reading `isFreeze` is separate from inserting the frozen event, but `Unfreeze` is
  one step: its two critical sections only differ in when a later event is told
  directly, which nothing here depends on.

Two windows have no meaning in the language, being data races on an object with an inside: the test for
an empty queue and the read of its front in the timeout handler (`cm:591-596`), which another
thread's `erase` can separate, and copying the smart pointer `curReceiver` while another thread
assigns it. Each of the four accesses is taken as indivisible.

### What is abstracted

* `GetSubscriberRecords`: the outcome of matching skills and user ids is the
  constant `Matching`, permissions are `Permitted`, and the order of the multiset,
  priority first and insertion second, is `Rank`.
* `iface_cast` succeeds on a listener that is not null.
* `frozenEvents_` is a set of pairs here; its key by priority, its trim and what
  the unordered handler does with `replay` are in `UnorderedDispatch`.
* An event is published at most once, a subscriber subscribes at most once.
* A subscriber may answer each notification at any time, after any number of
  others, or never; its death does not take back an answer already sent.
* The history keeps all its records; the ring is in `UnorderedDispatch`.
* An event published by an in-process caller (`InProcess`) can have a last
  subscriber; over IPC the stub drops it (`StubListener`).

### SubscriberRegistry

`subscribers` is `subscribers_` in order of subscription, `eventSubscribers[n]` the
multiset under name `n`. A record and its listener are one value, because the client
registers each listener once; `listening` are the records whose
`commonEventListener` is not null. `frozenEvents` is a set of entries, each with the
record that made it (`owner`) and the events kept under it.

Every operation of the manager holds `mutex_` from beginning to end, so each is one
step: `InsertSubscriber`, `RemoveSubscriber`, `UpdateFreezeInfo`,
`InsertFrozenEvents`, `GetFrozenEvents`, and the reading `GetSubscriberRecords`.
The containers compare records by `operator<`, that is by priority only. Hence a
new record goes behind all of its priority (`InsertByPriority`), and two records
of a uid with one priority have one entry in `frozenEvents_` (`SameKey`). Removal
clears the listener of the record that it finds and then erases, under each of the
record's names, the first record without a listener. Matching
skills remove repeated names (`AddEvent`), so `Subscribed[s]` repeats nothing.

### UnorderedDispatch

| code | actions |
|---|---|
| `InnerCommonEventManager::PublishCommonEvent`, `UpdateStickyEvent` | `PublishCommonEvent`, `PublishMapped` |
| `SubscribeCommonEvent`, `PublishStickyEvent` | `SubscribeCommonEvent` |
| `UnsubscribeCommonEvent`, `Freeze` | actions of these names |
| `Unfreeze`, `PublishFreezeCommonEvent` | `Unfreeze`, `CollectFrozenEvents`, `PostReplay` once per event |
| `ProcessUnorderedEvent`, `EnqueueUnorderedRecord` | snapshot with the caller, then `EnqueueUnorderedRecord` |
| `NotifyUnorderedEvent` | `TakeImmediate` or `TakeLow`, then per receiver `NotifyReceiver`, or `FindFrozen` and `KeepFrozenEvent`; `NotifyEnd` |
| `NotifyFreezeEvents` | `TakeImmediate` of a replay |
| `EnqueueHistoryEventRecord` | `Remembered`, in `NotifyEnd` |
| `SubscriberDeathRecipient` | `SubscriberDied` |

Two event runners: `main` is the service handler (`unorderedEventQueue_` and the
posts come from it), `worker` the runner of `handler_`. `NotifyUnorderedEvent` holds
`unorderedMutex_` throughout, so the mutex is free exactly when `worker.at = "idle"`,
and that is the guard of `EnqueueUnorderedRecord`. Enqueueing and posting the task
are one step, since the worker looks at the queue only from that task. The registry
is not covered by that mutex: subscribing, dying, freezing and thawing go on between
the receivers of one event, and between the test of `isFreeze` and the insertion of
the kept event.

`action[p]` is the event name inside the `CommonEventData` of publication `p`, one
object that all records of the publication share: the queued one, the sticky one,
the kept one and the one of the mapped name. `Publications` are calls that pass the
checks of `PublishCommonEvent` (user, permission); who matches is the constant
`Passing`, who may receive is `Permitted`. A task goes to one of two queues of
`handler_`; the library prefers the immediate one and sometimes serves the other, so
the worker takes the head of either. The history is what
`FillCommonEventRecord` copies; it leaves `isSystemEvent` at its default, which
only the dump would show. `told`, `known`, `done` and `published` are history
variables.

Subscribers that unsubscribed while their process is frozen are not thawed later,
as in the code; each subscribes at most once.

### FloodControl

`floodAttackAppStatistics` is the map of the same name, `calls` a history variable
with every call and its answer. `CheckIsFloodAttack` holds its mutex and reads the
clock inside it, so a call is one step. The clock is the event library's steady
clock and does not go back. The loop that removes old times from the front is the
choice of a number `k` with `StopsAfter`: exactly one `k` satisfies it. `FloodInit`
and `FloodTick` are its part of the composition, `FloodSpec` is what is proved about.

### StaticSubscribers and CommonEventService

| code | actions |
|---|---|
| `OnStart`, `OnStop` | of these names; the managers are singletons and keep what they know, the runner's tasks go |
| `IsReady`, `CheckIsFloodAttack`, the answer | `BeginCall` |
| `PostTask`, `PostImmediateTask` | `Post` |
| `GetStickyCommonEvent` | of this name, on the binder thread |
| `InnerCommonEventManager::PublishCommonEvent` | `InnerPublishCommonEvent` with `StaticPublishCommonEvent`, then `HandOn` |
| `SubscribeCommonEvent`, `UnsubscribeCommonEvent`, `Freeze`, `Unfreeze` | `InnerSubscribeCommonEvent`, `InnerUnsubscribeCommonEvent`, `InnerFreeze` |
| `CheckUserId`, `ProcessStickyEvent`, `CheckSubscriberByUserId` | operators `CheckUserId`, `MayPublishSticky`, `CheckSubscriberByUserId` |
| `StaticSubscriberManager::PublishCommonEvent` | `NoAllowList`, `NoExtensions`, `StaticPublish` |
| its fills, updates, `AddSubscriber` | `FillsBefore`, `UpdateSubscriber`, `AddSubscriber` and the operators they use |
| `OnAbilityConnectDone` | of this name |
| packages, users, the clock | `PackageChanges`, `UserStarts`, `UserStops`, `Passes` |

`binder[c]` is where the call of uid `c` is, `immediate` and `low` are the main
thread's tasks by priority, `main` a publication between the sticky store and the
dispatch: there a binder thread may read the store. Posting and answering are one
step, since the answer is what `PostTask` says. Packages and users change first and
are announced by a publication of the package or account manager after that, so the
table may be behind; each query about them may fail, within `MAX_FAILURES`.
A call has the uid it is made for (`by`) and the token of the process that makes it: whether a native
process is at work is asked of the token, whether a system application is, of the uid
(`IsSubsystem`, `IsSystemApp`). An entry of the table is a bundle, a user and a permission, and all three
are compared before one is entered (`AddToValidSubscribers`). While no user is active a fill fails
for certain (`NoExtensions`).
What a subscriber is told is not followed here (`handed` is what the dispatch was
given): that is `UnorderedDispatch` and `OrderedDispatch`, which begin there.

### ClientListeners

| code | actions |
|---|---|
| `GetCommonEventProxy` | `TestProxy`, `Connect`, `AddDeathRecipient`, `SetProxyValid` |
| `CreateCommonEventListener` | of this name |
| the call of the service | `RequestAccepted`, `ReplyLost`, `RequestFails` |
| `UnSubscribeCommonEvent` | `FindListener`, the request, `StopListener` |
| `CommonEventListener::NotifyEvent` | of this name |
| `CommonEventListener::OnReceiveEvent` | `TakeTask`, `EnterCallback`, `EndCallback`, `LeaveOnReceiveEvent` |
| what a callback may do | `CallFromCallback`, `GoAsyncCommonEvent` |
| `AsyncCommonEventResult::FinishCommonEvent` | `TestFinished`, `SetFinished`, then proxy and request |
| `ResetCommonEventProxy` | of this name |
| the service | `SendEvent`, `ServiceDies`, `ServiceRestarts` |

The three mutexes are variables where something blocks or calls out while they are
held, and a step where not. A listener object is named by its subscriber and a
number; each runner is the main one or the listener's own. `instance` counts the
incarnations of the service: a proxy reaches only the one it was made for. A request that the client
takes for failed may have been carried out (`ReplyLost`).

### JsSubscribers

Each function of the API is an action that queues an `AsyncCallbackInfo`; `Execute...`
is what a thread of the pool does with it and `Complete` its end on the JavaScript
thread. An event goes through `TakeEvent`, `OnReceiveEvent`, `HandOver` (for an ordered
one, under `subscriberInsMutex`), `QueueWork`, `EndReceive`, and beside them
`UvQueueWorkOnReceiveEvent` on the JavaScript thread. The finalizer is `Collect` and
`Collected`: in between it holds the mutex and the thread, which is `collecting`. The
client library is there as what `ClientListeners` shows of it: a request has an outcome (`Outcomes`),
whether it was carried out and what the caller is told. The finalizer does not look at it; `Finish`
sets `finished_` whatever it is. `refused` and `lost` are history variables: the subscribers of whom
a request has failed, the events whose answer never arrived.

### CallWire, EventRules and CommonEventTool

`parcel` is the sequence of values as the proxy wrote them; the stub takes them by
position, as its code does by reading in turn. `Str8ToStr16` loses what is not valid
UTF-8 (`Broken`), data of an event ends at its first NUL, and a uid is written as an
`int32_t`. `Ask`, `Serve`, `Return` and `SendFails` are the way of one call: the transport
may fail before the service has seen the call and after it has.

`EventRules` has operators only; `CommonEventTool` is the machine that uses them. The
options of `cem publish` are read one by one (`ReadPublishOption`); `cem dump` looks at
its first. A command line comes with who runs it (`line.by`): its user, its permissions and whether it belongs to
the system. `ServePublish` answers first, as the service does, and then checks the user and
the right to publish and applies the rules of the dispatch to the event as it came
out of the parcel: `MayAddress` and `UserMeant` are `CheckUserId`, so that `-u -2` is the caller's own
user, `-u -3` all users for a trusted caller and its own for another, and anything below
reaches nobody. (That the account query fails is in `CommonEventService`.) `ServeDump` those of the dump to a given state of the service.
What is printed is a verdict or the lines of the dump.

## 3. Properties and runs

Two events and two subscribers are enough for every pair of interactions the
hazards name: a receiver before and after another one in the same event, the
same receiver in the event behind, an event with one, two or no receivers, two
threads, and as many messages as the code sends (neither the inbox nor the
timers have a bound of their own: they stay finite because threads only send
while events are queued).

| run | instance | checks |
|---|---|---|
| `dispatch` | two events to s1, e1 names s2 as last subscriber in-process, s1 may abort, `MayStall`, `TIMEOUT` 1 | `TypeOK`, `QueueOrder`, `StartNotLost`, `IdleFrontIsDriven`, `NotifyInOrder`, `KeepsPromise`; 2,059,008 states |
| `registry` | e1 to both, e2 to s1; s2 joins late, may die and be frozen; s1 may leave or abort and lacks permission for e2; `TIMEOUT` 1 | `HistoryTruthful`, `NobodyPassedOver`, `IdleFrontIsDriven`; 472,594 states |
| `overdue` | one receiver, then none, fair, `MayStall`, `TIMEOUT` 1 | `EveryEventIsRetired`, `OverdueIsRetired`, `ThreadsReturn` |
| `freeze` | three publications of one name, two subscribers of one process, frozen and thawed, `FREEZE_EVENT_TIMEOUT` 0 and two instants | `NobodyForgotten`, `ToldOnce`, `SameNameInOrder`; 1.7 million states |
| `subscriptions` | two sticky publications of a system event and its mapped name; one subscriber may die, one may leave and be frozen, one permission is missing; a ring of 1; fair | `TypeOK`, `StickyIsLatest`, `IndexAgrees`, `HistoryIsTrue`, `EveryEventIsNotified` |
| `clients` | two threads, two subscribers with callbacks, room for one listener; requests fail or lose their reply, the service dies once; fair | `RegisteredIsListed`, `SubscribedIsRegistered`, `AtMostOneLateCallback`, `AnsweredOnce`, `CallsReturn`; 1,172,051 states |
| `js` | two subscribers, one with two ordered events and one with an unordered one, three calls of which one may be other than create, subscribe and unsubscribe, a finalizer, requests that fail with or without an effect; fair | `AnsweredOnce`, `FinishedIsAnswered`, `EntriesAgree`, `EverythingSettles`; 1,192,902 states |
| `service` | an application, a native process, the package and the account manager in three plans; one package whose profiles name an event with one permission, another or both, one user, one failure, a publication made by proxy for a native process, a native process whose user may not be found, a limit of one publication per instant; fair | `StartedOnce`, `TableIsTrue`, `OnlyOwnUser`, `ReceiversFollowCalls`, `HandedIsReadable`, `RefusesExactlyFloods`, `EverythingSettles`; 906,242 states |
| `tool` | all command lines of up to three options of sixteen, by a native process and by a program of a user, every kind of call by others, integers of 3 bits, nine lines of a dump | `ServedAsAsked`, `CommandIsCarriedOut`, `EntitledReceive`, `DumpShowsAsked`; 89,911 states |
| `lost_timer` | e1 to both, fair, `TIMEOUT` 2 | refutes `EveryEventIsRetired` |
| `kept_for_other` | two subscribers of one process and one priority, each with its own name, frozen | refutes `ToldWhatItSubscribedTo` |
| `last_subscriber` | a publication over the wire | refutes `LastSubscriberArrives` |

* `QueueOrder`: retired events followed by queued ones are the enqueued ones.
* `NotifyInOrder`: each notification goes to a receiver of the front event, at a
  higher index than every earlier one.
* `StartNotLost`, `IdleFrontIsDriven`: the flag is not trusted when no message is
  coming. While the front event is idle, a START or a TIMEOUT is due or a thread is inside a call. The
  code promises no more: see "an idle front" below.
* `HistoryTruthful`: what the history says of each receiver is what happened,
  although the timeout handler marks receivers without the lock.
* `NobodyPassedOver`: a receiver whose turn is over was told, or lacked a
  permission, or has gone, or has the event kept for it, or is one whose `curReceiver` a finish on
  the other thread cleared between its two uses (`crossed`; see "a receiver crossed" below).
* `KeepsPromise`: `OrderedDispatch` implements `OrderedPromise` under
  `line <- queue`, `done <-` the events of `history`, `turn <- ev[e].next`,
  `told <- notified`.
* `EveryEventIsRetired`, `OverdueIsRetired`, `ThreadsReturn`: liveness.
* `IndexAgrees`: the multisets index exactly the listening records, by priority and
  then by age. The removal that looks for "a record without a listener" is right
  only because at most one such record is in a multiset at any time.
* `NobodyForgotten`: each receiver of an event that has been dealt with was told, or
  the event is kept or on its way to it, or it is gone or not permitted; the only
  event that may be dropped is one that another outlived by `FREEZE_EVENT_TIMEOUT`.
* `ToldOnce`, `SameNameInOrder`: no freeze, thaw or replay repeats an event or
  reorders directly delivered events of one name, or replayed ones. That a replay
  comes after a later event is possible and allowed.
* `StickyIsLatest`: whatever the order of subscribing, publishing and delivering,
  once all is delivered a subscriber has seen the current sticky event last. It needs
  the sticky event and later ones of its name to be in the same queue of `handler_`.
* `HistoryIsTrue`: the ring says DELIVERED of exactly those who were told.
* `EveryEventIsNotified`: every publication is dealt with.
* `RegisteredIsListed`, `SubscribedIsRegistered` (client): the table of listeners and
  the service's own never part for good. The second is about subscribers of whom no
  call has failed, which is what a caller can rely on (see below for the others).
* `AtMostOneLateCallback`: `UnSubscribeCommonEvent` takes the waiting tasks away; the
  one that the runner has taken may still call back, and only that one.
* `AnsweredOnce` (client), `FinishedIsAnswered`: an answer to an ordered
  event comes from one place, and a finish that says "done" has its answer, unless the listener's own was lost on its way.
* `AnsweredOnce` (JavaScript): one answer, by the listener or by the application, and
  at most one more for each other event of the subscriber that was finished. The
  second answer exists: see "a late finish" below.
* `EntriesAgree`: between calls an entry always stands for a listener, and a listener has its entry
  unless a request about it has failed.
* `CallsReturn`, `EverythingSettles`: no mutex is kept, no work is lost.
* `StartedOnce`, `TableIsTrue`: fills, package events and failed queries, in whatever
  order they meet, neither double nor lose an entry, that is, a bundle with a user and a permission.
* `OnlyOwnUser`: what `CheckUserId` lets through, at the point where it takes effect.
* `ReceiversFollowCalls`: subscribing, publishing and unsubscribing are answered at
  once and done later; still a caller receives its own publication exactly if, among
  the calls it made before, a subscription stands that no later unsubscription ends
  and that is for a user whom the publication reaches.
* `HandedIsReadable`: a binder thread never reads a sticky event older than one whose
  publication it may have heard of.
* `ServedAsAsked`: `Carried` says what the wire may lose, and nothing else is lost.
* `CommandIsCarriedOut`, `EntitledReceive`, `DumpShowsAsked`: from the command line to
  the receivers and the lines, with the reference definition taken from the options
  and the table themselves, for any integer after `-u` and whoever runs the tool.
* `RefusesExactlyFloods`: a call is refused exactly when the
  `FLOOD_ATTACK_NUMBER_MAX`-th call before it is no older than the interval, so
  throwing times away never changes an answer. `AdmittedRate`: from an admitted call
  on, no more than the limit are admitted within the interval; it follows from the first and is proved only.

`TIMEOUT` 2 lets a timeout be early, exact and late for the handler; the runs in
which threads may stall use 1, because the forced completion at
`2 * TIMEOUT * receivers` has to fit in the state space. A run without stalls lets
time pass only when no thread has work: there a timeout races with an answer that
arrives at the same instant, not with one that a thread has left lying for ten
seconds. `dispatch` and `overdue` drop that assumption.

In the runs of `UnorderedDispatch` one subscriber of each kind meets another that
differs in what the run is about (priority, name, permission, life). Two
publications are needed for any question of order, a third for one that is
published while a replay and a direct delivery are both under way. The trim
compares with `FREEZE_EVENT_TIMEOUT`, for which 0 and two instants show both answers;
a ring of 1 wraps with two records.

In `clients` and `js` each subscriber has one listener object, so that an entry that
is left behind shows; one thread both subscribes and unsubscribes, the other meets
the full table. Two calls are a subscription and its end, three in `js` are its
creation, too; a finish is not counted. Two ordered events of one subscriber are what
a late finish needs. One death is enough: a second one meets the
same states with a larger incarnation. In `service` the plans fix who calls what and
TLC the order: four calls of one caller against two of another, three reads and
writes of the sticky store, two changes of packages or users in any order. Limit 1
and interval 0 give the flood check its two answers; the limits of the code, 20
calls in 5 ms, are covered by the proof. In `tool` three options are what a repeated
option and one between them need; with 3 bits every `uid` is tried; a dump of the
state has ten lines, of which the client takes nine.

Every run switches deadlock checking off: when every event is retired or notified
and nobody publishes, the system rests.

### Fairness

`MainStep` and `OrderedStep` are weakly fair: both are event runners whose
threads the system schedules, and the only wait in them, for `orderedMutex_`, is for
the other of the two. `Tick` is weakly fair: time passes. Nothing is assumed of
publishers and subscribers.

`UnorderedDispatch` takes `WF(MainStep)` and `WF(WorkerStep)` for the same reason. As
its publications are finite, it does not depend on how the library shares the runner
between its two queues.

`ClientListeners`, `JsSubscribers` and `CommonEventService` take `WF(Work)`: `Work` is
what has been begun and waits for nobody's wish (calls in progress, posted tasks,
callbacks, works of the pool, and for JavaScript the finish of an event that the
script has seen). That some step of it is taken as long as one can be is all that is
assumed; since the calls are finite it need not be fair to each thread. Nobody has
to call, to publish, to stop a service, to collect an object or to install a package.

### Where code and documentation disagree

Each of the first three is a run that TLC refutes; the trace is the argument,
`PROJECT.json` quotes the line.

* `lost_timer`: `pendingTimeoutMessage_` is read before `SetTime` uses it; the next
  receiver's turn can begin with no timeout message on its way. An event with two
  receivers can then stay at the front until something else is published and
  finds it overdue. The handler that is taking the message may also clear `curReceiver` after
  that receiver was told, so that its answer matches nobody.
* `kept_for_other`: `frozenEvents_` finds an entry by priority, so what is kept for
  one subscriber is added to the entry of another one and replayed to that one.
* `last_subscriber`: the stub reads the listener of the last subscriber into a variable
  of an inner scope (`frameworks/core/src/common_event_stub.cpp:43`), so the last
  subscriber of a publisher in another process is never told.

The modules show more of them, which have no run of their own:

* `FinishReceiver` makes the record IDLE and clears `curReceiver` before it assigns
  `resultAbort` (`cm:644-648`). A START that another publication has sent is handled in between:
  the ordered thread finds an idle event that is not aborted and tells the next receiver.
  `README_zh.md` says that a cancelled event is not passed on.
* An answer names a listener and no event (`cm:261`). One that comes after its event has
  been given up ends that listener's turn in the next event, and its code and data become
  that event's result.
* An idle front: a finish reads `state` and writes it in two steps (`cm:643-644`). If it reads IDLE, because
  another finish was first, and the next receiver is dispatched and told before it writes, it
  puts IDLE over RECEIVED, clears `curReceiver` and goes home (`doNext` is false). The receiver's
  answer matches nobody; the event stays at the front, idle, with no START and no thread at
  work, until the TIMEOUT of that receiver or the next publication. `IdleFrontIsDriven` says that
  there is a TIMEOUT then; for the timeout's own finish, which schedules whatever it read, there is a START.
* A receiver crossed: a finish that clears `curReceiver` (`cm:645`) while the other thread is between
  assigning it and reading it in `iface_cast` (`cm:448-452`) leaves a receiver that is recorded as DELIVERED
  and was never told; the event goes on to the next one. If it comes after `iface_cast`, the
  receiver is told and the event goes on all the same; its answer matches nobody, or, when it has a
  turn in the event behind, that turn. If it comes after the caller's test (`cm:531`), the receiver keeps
  its turn until its TIMEOUT, but its answer matches nobody.
* An extension whose profile names an event with two permissions, or whose permission changed between a fill
  and the package's own event, is in the table twice and is started twice for one publication
  (`services/src/static_subscriber_manager.cpp:251`; `AddToValidSubscribers`). `StartedOnce` counts the starts for
  each permission.
* An event that is kept after the thaw has collected the kept ones (`cm:171`) stays
  in `frozenEvents_` although its subscriber is not frozen any more (`FindFrozen`,
  `KeepFrozenEvent`).
* A subscription that the service refuses leaves its listener in `eventListeners_`
  (`frameworks/core/src/common_event.cpp:309`); the next one finds it there and
  answers true, and the service has never heard of it. The same after the service has
  died, and after it has refused to unsubscribe (`common_event.cpp:150`) or its reply was lost. This is why
  `SubscribedIsRegistered` excepts subscribers of whom a call has failed and services
  that have died.
* A callback runs under its listener's mutex. One that unsubscribes its own subscriber
  asks for that mutex again in `Stop`; one that unsubscribes another takes the table's
  mutex after it, and `UnSubscribeCommonEvent` on another thread takes them in the
  other order (`common_event_listener.cpp:97`, `common_event.cpp:146`): with
  `InCallback` containing an unsubscription `CallsReturn` fails.
* Two threads that finish the same result may both find `finished_` false
  (`async_common_event_result.cpp:116`); in the client's run `Finishers` is one thread.
* A late finish: the bindings find the result to finish in the subscriber's entry at
  the time the pool executes the call (`napi/common_event/src/common_event.cpp:1701`).
  If the finish of an event that was already answered comes when the entry holds the
  next event's result, it finishes that one; together with that event's own finish, on
  another thread of the pool, both may pass the test of `finished_` and the service is
  answered twice. `AnsweredOnce` of `JsSubscribers` allows for it, and the proof shows
  that there is no other way to a second answer.
* The finalizer of a JavaScript subscriber unsubscribes under `subscriberInsMutex`
  (`napi/common_event/src/common_event.cpp:2640`) and waits for a callback that may
  want it: `Collectable` has no subscriber of an ordered event.
* An entry of `subscriberInstances` is dropped even if unsubscribing failed, by the call (`:2345`) and
  by the finalizer (`:2640`): the listener stays, and its events find no entry. `EntriesAgree` excepts
  such listeners.
* `FinishCommonEvent` sets `finished_` before the request (`async_common_event_result.cpp:120`): one that fails
  cannot be repeated, and the event waits for its timeout. `FinishedIsAnswered` and
  `EverythingSettles` of `JsSubscribers` except events whose answer was lost.
* A static subscriber is started before a sticky publication is refused
  (`services/src/inner_common_event_manager.cpp:76`).
* A failed query leaves the table of static subscribers empty and counted as filled
  (`services/src/static_subscriber_manager.cpp:68`), which `TableIsTrue` excepts.
* `CheckUserId` goes on when the user of a uid cannot be found
  (`services/src/inner_common_event_manager.cpp:295`): the event is for the user
  `UNDEFINED_USER` or `CURRENT_USER`, and a subscriber whose user was not found either
  matches it. `OnlyOwnUser` says that this is all that can happen.
* A dump is true whatever the service said, and is cut at `MAX_HISTORY_SIZE` lines
  (`frameworks/core/src/common_event_proxy.cpp:258`).
* `CurrentOrderedEventTimeout` finds one receiver late (`cm:609`) and may finish
  another one, which an answer in between has just made the current one: between
  `TimeoutCheck` and `TimeoutMark`, `ev[e].next` can grow.
* The second event of a mapped name renames the first one, which is still queued
  (`services/src/inner_common_event_manager.cpp:112`; `PublishMapped`): subscribers
  of the first name are told the second.
* One record is dropped per insertion (`common_event_subscriber_manager.cpp:409`;
  `Trim`), so records older than `FREEZE_EVENT_TIMEOUT` stay.

## 4. Proofs

`OrderedDispatchProofs` proves, for all finite sets of subscribers, all sets of
events, every ranking, permission, freeze and abort pattern and every `TIMEOUT`
(assumption `ConstantsAssumption` of `OrderedDispatch`):

| theorem | statement |
|---|---|
| `Invariant` | `Spec => []IInv` |
| `TypeCorrect` | `Spec => []TypeOK` |
| `MutualExclusion` | the two threads are never both between the lock and the return of `ProcessNextOrderedEvent` |
| `QueueIsFifo` | `Spec => []QueueOrder` |
| `NotifiedInOrder` | `Spec => NotifyInOrder` |
| `StartIsNotLost` | `Spec => []StartNotLost` |

None of the first properties is inductive. That `QueueOrder` survives
`queue' = Tail(queue)` needs the retiring thread to work on the front event; that
needs the lock to be held along every path from `LockForNext` to a return, also
through the unlocked procedures it calls. `IInv` adds

* `Control`: which calls and locals go with each program counter;
* `Mutex`: a thread holds `orderedMutex_` exactly when its program counter is inside;
* `AtHead`: the holder works on the front event;
* `Fresh`: an event is enqueued once and notified only after that;
* `Turns`: only receivers up to `next` were notified, the receiver whose turn is
  being given was not, and the last subscriber only while its event is being retired.

Every thread step is first shown to follow an edge of the control flow graph
(`Path`); `Control`, `Mutex` and `AtHead` follow from the edges alone, so they are
proved once and not per action. `RecordsStep`, `HandlerStep` and their like treat
the data of each group of variables, `GivingStep`, `NotifiedStep` and
`LastNotifiedRetires` the notifications. `NotifyInOrder` follows because a
notification is made by a thread in `Giving`, which `Turns` says has a new index,
or by `Conclude`, which is one past all. `StartNotLost` needs only that appending
to the inbox and removing timeouts from it leave its STARTs.

`OrderedDispatchProofs` also proves `PromiseIsKept`, `Spec => KeepsPromise`: under the mapping of
`OrderedDispatchPromise` the initial states are those of `OrderedPromise`, and every step is one of its
actions or changes nothing it speaks of. `IInv` does not say what the mapping needs, namely that no
event ends before it has begun. `PInv` adds

* `Unstarted`: an event that may still be published has given no turn;
* `LastIsTold`, `ReadyToRetire`: a record forgets its last subscriber only once that is told, and a
  thread that is about to take an event off the queue finds no last subscriber and no receiver left;
* `Flags`: in which procedures a call carries an abort or is forced to go on;
* `BegunRecords`, `BegunCalls`: only an event whose first receiver had its turn is aborted, has a
  current receiver, is timed, or is worked on by a call that aborts or is forced.

The lemmas before it say which step writes which field of a record, so that each action of
the promise is met by the few steps that map to it and the rest are stutters.

It also proves what becomes of each receiver:

| theorem | statement |
|---|---|
| `HistoryIsTruthful` | `Spec => []HistoryTruthful` |
| `NobodyIsPassedOver` | `Spec => []NobodyPassedOver` |
| `IdleFrontDriven` | `Spec => []IdleFrontIsDriven` |

`HistoryTruthful` speaks of finished events only; its induction is about `Marks`, the delivery
states of events still in the queue: PENDING before the turn, not after it, and in between only
while a thread is giving it. That the unlocked `TimeoutMark` finds the receiver DELIVERED and not
PENDING is the point. `NobodyPassedOver` needs `Known` (only registered subscribers are
receivers), that a subscriber that has gone stays so, and that between the write and the read of
`curReceiver` nothing but a finish, which enters `crossed`, makes it null. `IdleFrontIsDriven` is not inductive
since a thread may make the event idle and schedule later. `DInv` names for each place in the
code where that happens the call that will drive it (`Driven`), and keeps what those places rest
on: `RECEIVEING` lasts from `NotifyOrderedEvent` to `TellReceiver` or the test of `curReceiver`
(`Receiving`), an idle event with a current receiver is about to lose it (`Clearing`), and a forced
finish leaves none behind (`ForceCleared`). What is left is a finish on the main thread that will not go
on because it has read, or is about to read, something other than RECEIVED (`Overtaken`). While there is
one the ordered thread, which dispatches then, has a TIMEOUT due, is arming one or will come to where
it does (`Covered`): main, being inside the finish, cannot take that away, and after it the
TIMEOUT is what drives the event. That a handler that is taking a TIMEOUT schedules at its end closes the
case in which it is taken too early.

`UnorderedDispatchProofs` proves, for any numbers of publications, subscribers, names, uids,
priorities and instants (`RegistryAssumption` and `UnorderedAssumption`):

| theorem | statement |
|---|---|
| `IndexStaysInStep` | `Spec => []IndexAgrees` |
| `UnorderedTypes` | `Spec => []TypeOK` |
| `HistorySaysWhoWasTold` | `Spec => []HistoryIsTrue` |
| `OwnKeyHearsOnce`, `ToldOncePerKey` | a subscriber that shares its key with nobody is told once; `[]ToldOnce` if nobody shares |
| `OwnKeyIsNotForgotten`, `NobodyForgottenPerKey` | the same of `NobodyForgotten` |

The key is that of `frozenEvents_`: uid and priority (`SameKey`). For subscribers that share one
both properties are false, which is the disagreement `kept_for_other` shows: what is kept for one
goes to the other. So the theorems say what holds for one subscriber with a key of its own
(`OwnKey`), whoever else shares one, and the property itself under `OwnKey = Subscribers`, the
one hypothesis they have.

* `RegistryInv`: `subscribers_` repeats nobody, and each multiset holds the listening records
  sorted by priority and age. `InsertByPriority` puts a record behind all of its priority:
  that this keeps the order is `InsertByPriorityFacts`. The first record of a lower priority is
  found with `LeastNumber`, and what a selection holds by induction over a set of positions
  (`Induction`), since the provers cannot instantiate the library's induction schemes with an
  operator.
* `RecordInv`, `HistoryInv`: every record, wherever it is, is of a publication made and of receivers
  known; the worker's delivery states agree with `told` up to `nextReceiver`; the history is
  the tail of what is done.
* `EventInv`: an event of one class for one subscriber is in one place: still to be processed, in an
  entry, in the main thread's hand, in a posted task, or heard. `ToldOnce` follows since each step
  moves it on.
* `WaysInv`, `ServedInv`: entries and posted tasks are sound (owner, time, listener), and whoever is
  behind the worker's `nextReceiver` was told, has it on its way, may not have it, is gone, or lost
  it to a newer one by `FREEZE_EVENT_TIMEOUT`.

`UnorderedOrderProofs` proves under the same assumptions:

| theorem | statement |
|---|---|
| `NamesAreHeardInOrder` | `Spec =>` publications of a name are heard in order by every subscriber, replays by each with a key of its own |
| `NamesInOrderPerKey` | `Spec => []SameNameInOrder` if `OwnKey = Subscribers` |
| `LatestStickyIsSeen` | `Spec => []StickyIsLatest`, with no further hypothesis |

Both properties compare positions in what a subscriber was told, and what it will be told is spread over
the worker, two queues, the main thread's loop, entries that a thaw cuts in two, and tasks that replay.
The invariants put all of these in one line (`Before`: of different names, or in the order of publication).

* `LineInv`: what was given to `s` comes before what the worker still has to give, this before what is
  queued, this before what main has in hand, and this before what follows in its loop. There are two
  queues; that a name uses one of them (`OneQueueEach`) is what keeps it in order, and holds since
  `isImmediate` depends on the name only. What main has in hand is the newest publication (`NewestInMain`).
* `ReplayInv`: the same of entries, what a thaw holds in hand, posted replays and replays told. It needs a
  key of one's own, since entries of one key are merged, as `kept_for_other` shows.
* `StickyInv`: who is never frozen has no entry and no replay (`Unfrozen`), nothing follows a record that is not a
  sticky event in main's loop (`NamedAlone`), and has heard, or will hear, the latest event of each sticky
  name it listens to (`StickyReaches`). With `LineInv` this makes the latest the last.

TLC checked the three on the instances of `freeze` and `subscriptions` before they were proved.

`CommonEventServiceProofs` proves first of flood control, for all uids, limits and intervals
(`FloodAssumption`):

| theorem | statement |
|---|---|
| `FloodInvariant` | `FloodSpec => []FloodInv` |
| `FloodIsControlled` | `Spec => FloodSpec`: the service asks flood control as `FloodControl` specifies |
| `RefusalIsExact` | `Spec => []RefusesExactlyFloods` |
| `RateIsBounded` | `Spec => []AdmittedRate` |

The answers depend on a vector from which old times have been thrown away. The
invariant says what is left: `InOrder`, the times of the calls never decrease, and
`KeepsTail`, the vector is a tail of the times of all calls and what is missing from
it has expired. Then the vector is as long as the limit exactly when the call that
many places back is in it (`Answer`). The rate follows without the invariant's other
parts: were more calls admitted than the limit, the last of them would lie at least
limit places behind the first and within the interval, and would have been refused
(`RateFromRefusal`). The three hold of `FloodSpec`, whose variables are the service's own, and
`FloodIsControlled` carries them over: whatever step the service takes, flood control is asked,
waits or is left alone.

Then it proves, for all callers, plans, packages and limits
(`ServiceAssumption`, `StaticAssumption`):

| theorem | statement |
|---|---|
| `ServiceInvariant` | `Spec => []IInv` |
| `CallsAreWellFormed` | `Spec => []TypeOK` |
| `NobodyActsForAnother` | `Spec => []OnlyOwnUser` |

`OnlyOwnUser` is about what was handed on, the check is made a step earlier, and in
between binder threads, other services and a stop of the service take their steps.
`CheckedUser` carries the user from the check to the dispatch (`InnerPublishStep`,
`HandOnStep`); that `CheckUserId` leaves a user that the caller may act for, whichever
way the account manager answers, is `CheckUserIdIsSafe`. `TypeOK` is needed because a
call passes through a script, a binder thread, one of two queues and the main thread
before it is looked at.

About the order in which calls are done it adds, under the further assumption that an id names
one call of one plan (`CallsAssumption`):

| theorem | statement |
|---|---|
| `CallsAreInTurn` | `Spec => []TInv` |
| `HandedOnIsReadable` | `Spec => []HandedIsReadable` |
| `ReceiversAsCalled` | `Spec => []ReceiversFollowCalls` |
| `StaticStartedOnce` | `Spec => []StartedOnce` |
| `TableStaysTrue` | `Spec => []TableIsTrue`, under `PackagesAreAnnounced` |

A call goes from the script of its caller to a binder thread, to a queue, to the main thread, to
what was done. `InTurn` says, caller by caller, that what is further on this way was called
before what is behind it; the freezes that overtake are in a queue of their own and are left out.
`SInv` then follows the sticky store: it holds the latest event handed on of its name, or that of
the publication between the store and the dispatch. `RInv` says of each publication that was
handed on, at the time it was, what `ReceiversFollowCalls` says of it for good: the subscribers
known then are those of the caller's calls that are done, and by `InTurn` these are exactly the
earlier ones. `OInv` is about static subscribers: the table names an extension once for a name and a permission, because
what is added is what the table has not (`AddedFacts`) and what is removed or selected keeps its
order (`SelectedFacts`); an id is in one place of its way (`OneEach`); and an id for which extensions were
started is nowhere on it any more (`Gone`), so that no later publication can start them again.

`TableStaysTrue` compares the table with what is installed, which changes when a package event is announced
and not when it is handled. `PackagesAreAnnounced` says that only the package manager publishes the
events of packages: they are system events, which an application may not publish, and every plan of the
instance satisfies it. `NInv` says that announcements are executed in the order in which they were
made, and that of those on their way about a package the last says whether it is still there
(`LastSays`). So the table names too much only if an event that takes it back is still to come, and too
little only if any is (`Settled`). It says this only while no announcement was refused or lost (`Kept`),
no fill is still to come (`FillPending`) and no fill failed, which is what the property excepts.

`ClientListenersProofs` proves, for any subscribers, threads, plans, callbacks and bounds
(`ClientAssumption`):

| theorem | statement |
|---|---|
| `TypeCorrect` | `Spec => []TypeOK` |
| `OneLateCallback` | `Spec => []AtMostOneLateCallback` |
| `ListedOfSoleManager`, `NoneLeftBehind` | what is registered is listed: for a subscriber `s` with `SoleManager(s)`; `[]RegisteredIsListed` if all have one |
| `ToldIsRegistered`, `AllToldAreRegistered` | who was told is registered: for `s` with `SoleManager(s)` and `NotPublished(s)`; `[]SubscribedIsRegistered` if each has these or never subscribes |
| `OneAnswer`, `OneAnswerEach` | one answer: for a delivery to a subscriber with `OneRunner`; `[]AnsweredOnce` if all have it; both if `OneFinisher` |

The conditions are on the plans and the thread modes, never on states, and each is needed:

* `SoleManager(s)`: one thread subscribes and unsubscribes `s`. Two threads can subscribe and
  unsubscribe it so that the table's entry is taken out while the service still accepts the listener:
  the entry is made under `eventListenersMutex_` and the request sent after it is released;
* `NotPublished(s)`: nobody publishes an ordered event with `s` as its last subscriber, which enters
  it in the table without registering it; a later subscription then answers true;
* `OneRunner(s)`: the callbacks of `s` share a runner, that is, its thread mode is `HANDLER` or it has
  one listener. If it is unsubscribed and subscribed again in another mode, the callback that its
  old runner had taken may run beside one of the new runner; both finish the result that
  `SetAsyncCommonEventResult` stored last, both find `finished_` false, and one event is answered twice and
  the other never (TLC finds it with two listeners of one subscriber outside `HandlerMode`);
* `OneFinisher`: see section 3.

`OneLateCallback` needs no condition. Its invariant is `TasksOK`: the tasks in a runner's queue are those
of listeners that are ready (`Stop` removes them and `handler_` in one critical section), so that after
`Stop` only the one task that the runner has taken is left, and `LateOnce` says that a late callback
has used it up. `Listed(s)` says of each call in progress about `s`, from the entry of its listener
to the answer of the service and on to `Stop`, that the table's entry is that of the call;
`Believed(s)` that an entry without a registration is the business of the thread in charge of `s`.
For the answers, `OnePlace` says that a delivery is in one place on its way to its callback, `Results`
that what is stored, given away, finished or being finished belongs to a callback that has begun,
and `Answering(d)` who may finish `d` now and how far it is: the runner while the result is the
subscriber's, the finisher once it was given away, never both.

`JsSubscribersProofs` proves, for any subscribers, events, calls and failures (`JsAssumption`):

| theorem | statement |
|---|---|
| `JsStaysInStep` | `Spec => []JInv` |
| `EntriesAlwaysAgree` | `Spec => []EntriesAgree` |
| `FinishedGetsAnswered` | `Spec => []FinishedIsAnswered` |
| `AnswersAreCounted` | `Spec => []AnsweredOnce` |

`JInv` has these parts besides the types (`ShapeInv`):

* `CallsInv`, `AgreeInv`: one subscription and one unsubscription of an object, and entry and
  listener agree unless one of these is under way;
* `PlacesInv`, `PastInv`: an event is in one place of the listener's queue, and only one that has come
  through is held by an entry, by a finish, by the loop or seen by the script;
* `TurnInv`: the service has one unanswered ordered event per subscriber at a time;
* `ResultInv`, `OwnInv`: until it is answered the result of an event is with the listener or in
  the entry, and not in both;
* `FinishInv`, `SureInv`: an event is finished once, and a finish that found nothing, or
  another event's result, leaves one that is answered, or will be by its listener, or whose
  subscriber has gone;
* `AnswerInv`: the answers of an event are at most the finishes of others that have been
  executed (`LateFor`), and one of its own. A finish of another event that finds this one's
  result is spent by it.

`CommonEventToolProofs` proves, for any calls, command lines, subscribers, events held, tables of
permissions, widths of integers and limits of a dump (`WireAssumption`, `CommonEventMapAssumption`,
`ToolAssumption`):

| theorem | statement |
|---|---|
| `IInvHolds` | `Spec => []IInv` |
| `ServedAsAskedHolds` | `Spec => []ServedAsAsked` |
| `CommandIsCarriedOutHolds` | `Spec => []CommandIsCarriedOut` |
| `EntitledReceiveHolds` | `Spec => []EntitledReceive` |
| `DumpShowsAskedHolds` | `Spec => []DumpShowsAsked` |

The assumptions say what the code's own data are: a call has the fields of its kind, a uid the width of
`uid_t`, data are bytes, the events of the table are distinct, an entry of state OR has names, and whoever
runs the tool runs it under its own uid and user. Nothing is assumed of that user's rights or of the
number after `-u`.

* `ReadIsCarried`: whatever call is written, what the stub reads is what `Carried` says, kind by kind.
  Positions differ with a last subscriber and without; a uid beyond the range of `int32_t` comes
  back as it was (`ReadUid`); bytes after a NUL stay behind and the NUL that `Marshalling` appends adds
  nothing (`ReadUpToNul`). `WireInv` carries this from `Ask` to `Serve` and the answer, past every
  failure of the transport.
* `OptionsInv`: until an option is refused, the options are those of the first `at` on the line, each kind
  with its last value (`ReadUpTo`); one more option changes the last place of its kind and no other
  (`OneMore`, `ApplyReadsOn`). `AskedInv` and `OutputInv` follow the call to what is printed.
* `TableIsTheMap`: `AddPermission` appends to the names left over, and there are none since each turn
  clears them; that is shown by induction over the positions of the table. So the check that
  `CheckSubscriberPermission` makes is the one that the entry asks for (`PermissionIsTheEntry`).
* `DumpedFacts`, `TakenFacts`: the records that the lines of a dump name are those asked for, and the
  client takes the first `MAX_HISTORY_SIZE` lines of them. `DumpInv` ties them to the reply. A name
  that is no valid text arrives empty and asks for all.

TLC checked `IInv` on the instance of `tool` before it was proved.

Model-checked only: liveness and whatever rests on fairness, which is outside the prover's logic
(`EveryEventIsRetired`, `OverdueIsRetired`, `ThreadsReturn`, `EveryEventIsNotified`, `CallsReturn`,
`EverythingSettles`).

## 5. Not modelled, and the plan

Not modelled:

* the tables of event names (`common_event_support.cpp`, `common_event_support_mapper.cpp`)
  and the constants that the JavaScript bindings export: data that never changes;
* the conversion of arguments and results between JavaScript and C++, and the
  promise or callback by which a result is given: they keep no state;
* wording: lines of a dump, messages of the tool, the log;
* the content of a `Want`, which other repositories marshal;
* the proxies of other services that the helpers cache, and their death: a call
  that finds one stale is a call that fails;
* a null `handler_` beyond the point where it is used;
* the ordered flag that `PublishStickyEvent` clears in publish information shared
  with a queued event (`services/src/inner_common_event_manager.cpp:338`).

The plan: a specification of what the registry promises each subscriber, one queue per
subscriber, implemented by `UnorderedDispatch` where keys do not collide.
