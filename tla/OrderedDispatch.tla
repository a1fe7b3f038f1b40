--------------------------- MODULE OrderedDispatch ---------------------------
(***************************************************************************)
(* The ordered half of CommonEventControlManager: events published with    *)
(* isOrdered go through orderedEventQueue_ one at a time, each to its      *)
(* receivers one at a time, in priority order; a receiver ends its turn    *)
(* with FinishReceiver, by unsubscribing, or by running out of time.       *)
(*                                                                         *)
(* Two threads of the service run this code: "main", the service handler   *)
(* (publish, finish, unsubscribe, freeze), and "ordered", the runner of    *)
(* OrderedEventHandler (ORDERED_EVENT_START, ORDERED_EVENT_TIMEOUT).  Only *)
(* ProcessNextOrderedEvent, EnqueueOrderedRecord and                       *)
(* GetMatchingOrderedReceiver take orderedMutex_; FinishReceiver,          *)
(* CurrentOrderedEventTimeout and ScheduleOrderedCommonEvent do not, so    *)
(* their reads and writes of shared state are separate steps, and so are   *)
(* those of NotifyOrderedEvent that a finish can fall between.  A third    *)
(* thread, a binder thread, only appears as SubscriberDied.                *)
(*                                                                         *)
(* Time is relative: an event carries the age of its receiverTime and of   *)
(* its dispatchTime, saturating where the code stops telling values apart. *)
(***************************************************************************)
EXTENDS Integers, Sequences, FiniteSets

CONSTANTS
    Events,          \* ordered events that may be published, each at most once
    Subscribers,     \* listeners, each with at most one EventSubscriberRecord
    Rank,            \* [Subscribers -> Nat]: place in the priority-ordered multiset
    Uid,             \* [Subscribers -> uids]
    Matching,        \* [Events -> SUBSET Subscribers]: matching skills and user id agree
    Permitted,       \* pairs <<s, e>> for which CheckPermission returns DELIVERED
    LastSubscriber,  \* [Events -> Subscribers or None]: last subscriber named at publish
    InProcess,       \* events published by a caller inside the service's process
    TIMEOUT,         \* ticks a receiver may run
    None,
    Joiners,         \* subscribers that are not registered at the start
    Leavers,         \* subscribers that may unsubscribe
    Mortals,         \* subscribers whose process may die
    FreezeUids,      \* uids that may be frozen and unfrozen
    Aborters,        \* subscribers that may answer with abort set
    MayStall         \* whether time may pass while a thread has work to do

Threads == {"main", "ordered"}

ASSUME ConstantsAssumption ==
    /\ IsFiniteSet(Subscribers)
    /\ None \notin Subscribers /\ None \notin Events
    /\ None \notin Subscribers \X Events /\ None \notin Threads
    /\ Permitted \subseteq Subscribers \X Events
    /\ TIMEOUT \in Nat \ {0}
    /\ MayStall \in BOOLEAN
    /\ Rank \in [Subscribers -> Nat]
    /\ Matching \in [Events -> SUBSET Subscribers]
    /\ LastSubscriber \in [Events -> Subscribers \cup {None}]

\* OrderedEventRecord::EventState and ::DeliveryState
States == {"IDLE", "RECEIVEING", "RECEIVED"}
Deliveries == {"PENDING", "DELIVERED", "SKIPPED", "TIMEOUT"}

Never == -1          \* age of a dispatchTime that is still 0

VARIABLES
    ev,         \* [Events -> OrderedEventRecord], indices from 1
    queue,      \* orderedEventQueue_
    history,    \* the ordered part of historyEventRecords_
    published,  \* every event in the order it was enqueued (history variable)
    lock,       \* holder of orderedMutex_, or None
    scheduled,  \* scheduled_
    pending,    \* pendingTimeoutMessage_
    inbox,      \* messages of OrderedEventHandler that are due, oldest first
    timers,     \* [1..TIMEOUT -> Nat]: TIMEOUT messages due in so many ticks
    sub,        \* [Subscribers -> status of its EventSubscriberRecord]
    frozen,     \* subscribers whose record has isFreeze set
    parked,     \* frozenEvents_, as pairs <<s, e>>
    replay,     \* pairs posted to the unordered handler by Unfreeze
    owed,       \* ordered notifications whose FinishReceiver call has not come
    notified,   \* [Events -> set of receiver indices notified] (history variable)
    crossed,    \* [Events -> set of receiver indices whose turn a finish on the
                \* other thread ended before they were told] (history variable)
    pc,         \* [Threads -> next step]
    loc         \* [Threads -> locals of the call in progress]

queueVars    == <<queue, history, published>>
handlerVars  == <<scheduled, pending, inbox, timers>>
registryVars == <<sub, frozen, parked, replay>>
clientVars   == <<owed, notified, crossed>>
threadVars   == <<pc, loc>>
vars == <<ev, queueVars, lock, handlerVars, registryVars, clientVars, threadVars>>

Calls == {"none", "publish", "finish", "unsub", "start", "timeout"}

\* call: the operation the thread is in; sp: the record it works on;
\* from: the listener it was called for; abort: an argument of FinishReceiver
\* (the code and data that go with it make no difference here); doNext: its
\* return value; due: the argument of SetTimeout, in ticks from now; timer: the
\* value of pendingTimeoutMessage_ that SetTime or CancelTimeout saw; force:
\* forceReceive
NoLocals == [call |-> "none", sp |-> None, from |-> None, abort |-> FALSE,
             doNext |-> FALSE, due |-> 0, timer |-> FALSE, force |-> FALSE]

NoTimers == [d \in 1..TIMEOUT |-> 0]

Rankings == UNION {[1..n -> Subscribers] : n \in 0..Cardinality(Subscribers)}

NumReceivers(e) == Len(ev[e].receivers)
ForceLimit(e) == 2 * TIMEOUT * NumReceivers(e)
Publishable == Events \ {published[i] : i \in 1..Len(published)}

\* What the stub hands on as commonEventListener: OnRemoteRequest reads the
\* remote object into a variable of an inner scope, the outer one stays null.
StubListener(e) == IF e \in InProcess THEN LastSubscriber[e] ELSE None

NewRecord(e, r) ==
    [receivers |-> r, resultTo |-> StubListener(e), cur |-> None,
     delivery |-> [i \in 1..Len(r) |-> "PENDING"], next |-> 0, state |-> "IDLE",
     abort |-> FALSE, receiverAge |-> TIMEOUT, dispatchAge |-> Never]

Init ==
    /\ ev = [e \in Events |-> NewRecord(e, <<>>)]
    /\ queue = <<>> /\ history = <<>> /\ published = <<>>
    /\ lock = None
    /\ scheduled = FALSE /\ pending = FALSE /\ inbox = <<>> /\ timers = NoTimers
    /\ sub = [s \in Subscribers |-> IF s \in Joiners THEN "new" ELSE "live"]
    /\ frozen = {} /\ parked = {} /\ replay = {}
    /\ owed = {}
    /\ notified = [e \in Events |-> {}] /\ crossed = [e \in Events |-> {}]
    /\ pc = [t \in Threads |-> "idle"]
    /\ loc = [t \in Threads |-> NoLocals]

-----------------------------------------------------------------------------
(* Thread control *)

Goto(t, label) == pc' = [pc EXCEPT ![t] = label]

\* Return from FinishReceiverAction or ProcessNextOrderedEvent to the caller:
\* UnsubscribeCommonEvent has one more thing to do, the others are done.
Leave(t) ==
    IF loc[t].call = "unsub"
    THEN /\ Goto(t, "remove")
         /\ loc' = [loc EXCEPT ![t] = [NoLocals EXCEPT !.call = "unsub", !.from = loc[t].from]]
    ELSE /\ Goto(t, "idle")
         /\ loc' = [loc EXCEPT ![t] = NoLocals]

-----------------------------------------------------------------------------
(* Publishing: ProcessOrderedEvent on the main thread *)

\* GetSubscriberRecords: the live records that match, in multiset order.
IsSnapshot(e, r) ==
    /\ {r[i] : i \in 1..Len(r)} = {s \in Matching[e] : sub[s] = "live"}
    /\ \A i, j \in 1..Len(r) : i < j => Rank[r[i]] < Rank[r[j]]

ProcessOrderedEvent(e) ==
    /\ pc["main"] = "idle"
    /\ e \in Publishable
    /\ \E r \in Rankings : IsSnapshot(e, r) /\ ev' = [ev EXCEPT ![e] = NewRecord(e, r)]
    /\ Goto("main", "enqueue")
    /\ loc' = [loc EXCEPT !["main"] = [NoLocals EXCEPT !.call = "publish", !.sp = e]]
    /\ UNCHANGED <<queueVars, lock, handlerVars, registryVars, clientVars>>

\* Mutant: the record goes to the front of the queue.
EnqueueAtFront ==
    /\ pc["main"] = "enqueue"
    /\ lock = None
    /\ queue' = <<loc["main"].sp>> \o queue
    /\ published' = Append(published, loc["main"].sp)
    /\ Goto("main", "schedule")
    /\ UNCHANGED <<ev, history, lock, handlerVars, registryVars, clientVars, loc>>

EnqueueOrderedRecord ==
    /\ pc["main"] = "enqueue"
    /\ lock = None
    /\ queue' = Append(queue, loc["main"].sp)
    /\ published' = Append(published, loc["main"].sp)
    /\ Goto("main", "schedule")
    /\ UNCHANGED <<ev, history, lock, handlerVars, registryVars, clientVars, loc>>

-----------------------------------------------------------------------------
(* ScheduleOrderedCommonEvent, on either thread; where it returns to *)

\* Mutant: the overdue event is left for the next call.
ScheduleReturns(t) == lock' = (IF lock = t THEN None ELSE lock) /\ Leave(t)

AfterSchedule(t) ==
    IF loc[t].force
    THEN Goto(t, "settle") /\ UNCHANGED <<lock, loc>>
    ELSE lock' = (IF lock = t THEN None ELSE lock) /\ Leave(t)

ScheduleTest(t) ==
    /\ pc[t] = "schedule"
    /\ IF scheduled THEN AfterSchedule(t) ELSE Goto(t, "send") /\ UNCHANGED <<lock, loc>>
    /\ UNCHANGED <<ev, queueVars, handlerVars, registryVars, clientVars>>

ScheduleSend(t) ==
    /\ pc[t] = "send"
    /\ scheduled' = TRUE
    /\ inbox' = Append(inbox, "START")
    /\ AfterSchedule(t)
    /\ UNCHANGED <<ev, queueVars, pending, timers, registryVars, clientVars>>

-----------------------------------------------------------------------------
(* SetTimeout(due), on either thread; the timeout handler returns after it, *)
(* SetTime goes on to NotifyOrderedEvent                                    *)

AfterArm(t) ==
    IF loc[t].call = "timeout"
    THEN Leave(t)
    ELSE Goto(t, "notify") /\ loc' = [loc EXCEPT ![t].due = 0]

ArmTest(t) ==
    /\ pc[t] = "arm"
    /\ IF pending THEN AfterArm(t) ELSE Goto(t, "armSet") /\ UNCHANGED loc
    /\ UNCHANGED <<ev, queueVars, lock, handlerVars, registryVars, clientVars>>

ArmSet(t) ==
    /\ pc[t] = "armSet"
    /\ pending' = TRUE
    /\ Goto(t, "armSend")
    /\ UNCHANGED <<ev, queueVars, lock, scheduled, inbox, timers, registryVars, clientVars, loc>>

ArmSend(t) ==
    /\ pc[t] = "armSend"
    /\ IF loc[t].due = 0
       THEN inbox' = Append(inbox, "TIMEOUT") /\ UNCHANGED timers
       ELSE timers' = [timers EXCEPT ![loc[t].due] = @ + 1] /\ UNCHANGED inbox
    /\ AfterArm(t)
    /\ UNCHANGED <<ev, queueVars, lock, scheduled, pending, registryVars, clientVars>>

-----------------------------------------------------------------------------
(* ProcessNextOrderedEvent, on either thread, with orderedMutex_ held from *)
(* "loop" on                                                               *)

LockForNext(t) ==
    /\ pc[t] = "lock"
    /\ lock = None
    /\ lock' = t
    /\ Goto(t, "loop")
    /\ UNCHANGED <<ev, queueVars, handlerVars, registryVars, clientVars, loc>>

\* Mutant: an event that was not dispatched yet counts as overdue.
OverdueFromTheStart(e) ==
    NumReceivers(e) > 0 /\ (ev[e].dispatchAge = Never \/ ev[e].dispatchAge > ForceLimit(e))

Overdue(e) ==
    NumReceivers(e) > 0 /\ ev[e].dispatchAge > ForceLimit(e)

\* Mutant: one receiver too many.
ExhaustedTooLate(e) == ev[e].next > NumReceivers(e) \/ ev[e].abort

Exhausted(e) == ev[e].next >= NumReceivers(e) \/ ev[e].abort

\* Mutant: an early return that keeps the lock.
LoopReturnLocked(t) ==
    /\ pc[t] = "loop"
    /\ queue # <<>> => ~Overdue(Head(queue)) /\ ev[Head(queue)].state # "IDLE"
    /\ Leave(t)
    /\ UNCHANGED <<ev, queueVars, lock, handlerVars, registryVars, clientVars>>

\* The queue is empty, or the front event still waits for its receiver.
LoopReturn(t) ==
    /\ pc[t] = "loop"
    /\ queue # <<>> => ~Overdue(Head(queue)) /\ ev[Head(queue)].state # "IDLE"
    /\ lock' = None
    /\ Leave(t)
    /\ UNCHANGED <<ev, queueVars, handlerVars, registryVars, clientVars>>

\* The front event has had 2 * TIMEOUT per receiver:
\* CurrentOrderedEventTimeout(false), then forceReceive.
LoopForce(t) ==
    /\ pc[t] = "loop"
    /\ queue # <<>> /\ Overdue(Head(queue))
    /\ ev' = [ev EXCEPT ![Head(queue)].receiverAge = 0]
    /\ loc' = [loc EXCEPT ![t].force = TRUE, ![t].sp = Head(queue)]
    /\ Goto(t, "mark")
    /\ UNCHANGED <<queueVars, lock, handlerVars, registryVars, clientVars>>

\* The final result receiver, then the first half of CancelTimeout.
Conclude(t, e) ==
    /\ IF ev[e].resultTo # None
       THEN /\ owed' = owed \cup {[to |-> ev[e].resultTo, ev |-> e, idx |-> NumReceivers(e) + 1]}
            /\ notified' = [notified EXCEPT ![e] = @ \cup {NumReceivers(e) + 1}]
       ELSE UNCHANGED <<owed, notified>>
    /\ ev' = [ev EXCEPT ![e].state = "IDLE", ![e].resultTo = None]
    /\ loc' = [loc EXCEPT ![t].sp = e, ![t].force = FALSE,
                          ![t].timer = pending]
    /\ pending' = FALSE
    /\ Goto(t, "retire")
    /\ UNCHANGED <<queueVars, lock, scheduled, inbox, timers, registryVars, crossed>>

LoopConclude(t) ==
    /\ pc[t] = "loop"
    /\ queue # <<>> /\ ~Overdue(Head(queue))
    /\ ev[Head(queue)].state = "IDLE" /\ Exhausted(Head(queue))
    /\ Conclude(t, Head(queue))

ForceConclude(t) ==
    /\ pc[t] = "settle"
    /\ Conclude(t, loc[t].sp)

Starts(q) == [i \in 1..Cardinality({j \in 1..Len(q) : q[j] = "START"}) |-> "START"]

\* RemoveEvent(ORDERED_EVENT_TIMEOUT), EnqueueHistoryEventRecord, erase.
Retire(t) ==
    LET e == loc[t].sp IN
    /\ pc[t] = "retire"
    /\ IF loc[t].timer
       THEN timers' = NoTimers /\ inbox' = Starts(inbox)
       ELSE UNCHANGED <<timers, inbox>>
    /\ history' = Append(history, [ev |-> e, delivery |-> ev[e].delivery,
                                   abort |-> ev[e].abort])
    /\ queue' = Tail(queue)
    /\ Goto(t, "loop")
    /\ loc' = [loc EXCEPT ![t].sp = None, ![t].timer = FALSE]
    /\ UNCHANGED <<ev, published, lock, scheduled, pending, registryVars, clientVars>>

\* Mutant: the newest event is dispatched, not the one at the front.
DispatchNewest(t) ==
    LET e == queue[Len(queue)] IN
    /\ pc[t] = "loop"
    /\ queue # <<>> /\ ~Overdue(e)
    /\ ev[e].state = "IDLE" /\ ~Exhausted(e)
    /\ ev' = [ev EXCEPT ![e].next = @ + 1]
    /\ loc' = [loc EXCEPT ![t].sp = e, ![t].timer = pending]
    /\ Goto(t, "setTime")
    /\ UNCHANGED <<queueVars, lock, handlerVars, registryVars, clientVars>>

\* nextReceiver++; pendingTimeoutMessage_ is read as the argument of SetTime.
LoopDispatch(t) ==
    LET e == Head(queue) IN
    /\ pc[t] = "loop"
    /\ queue # <<>> /\ ~Overdue(e)
    /\ ev[e].state = "IDLE" /\ ~Exhausted(e)
    /\ ev' = [ev EXCEPT ![e].next = @ + 1]
    /\ loc' = [loc EXCEPT ![t].sp = e, ![t].timer = pending]
    /\ Goto(t, "setTime")
    /\ UNCHANGED <<queueVars, lock, handlerVars, registryVars, clientVars>>

SetTime(t) ==
    LET e == loc[t].sp IN
    /\ pc[t] = "setTime"
    /\ ev' = [ev EXCEPT ![e].receiverAge = 0,
                        ![e].dispatchAge = IF ev[e].next = 1 THEN 0 ELSE @]
    /\ IF loc[t].timer
       THEN Goto(t, "notify") /\ loc' = [loc EXCEPT ![t].timer = FALSE]
       ELSE Goto(t, "arm") /\ loc' = [loc EXCEPT ![t].due = TIMEOUT]
    /\ UNCHANGED <<queueVars, lock, handlerVars, registryVars, clientVars>>

\* NotifyOrderedEvent up to the write of curReceiver: without the permission,
\* to a frozen subscriber, and otherwise to its listener, null once it is gone.
NotifyOrderedEvent(t) ==
    LET e == loc[t].sp
        i == ev[e].next
        s == ev[e].receivers[i]
    IN
    /\ pc[t] = "notify"
    /\ \/ /\ <<s, e>> \notin Permitted
          /\ ev' = [ev EXCEPT ![e].delivery[i] = "SKIPPED"]
          /\ Goto(t, "check")
       \/ /\ <<s, e>> \in Permitted /\ s \in frozen
          /\ Goto(t, "park") /\ UNCHANGED ev
       \/ /\ <<s, e>> \in Permitted /\ s \notin frozen
          /\ ev' = [ev EXCEPT ![e].delivery[i] = "DELIVERED",
                              ![e].cur = IF sub[s] = "live" THEN s ELSE None,
                              ![e].state = "RECEIVEING"]
          /\ Goto(t, "cast")
    /\ UNCHANGED <<queueVars, lock, handlerVars, registryVars, clientVars, loc>>

\* iface_cast reads curReceiver again: a finish may have cleared it.
CastReceiver(t) ==
    /\ pc[t] = "cast"
    /\ IF ev[loc[t].sp].cur = None THEN Goto(t, "check") ELSE Goto(t, "tell")
    /\ UNCHANGED <<ev, queueVars, lock, handlerVars, registryVars, clientVars, loc>>

\* The receiver is told through the proxy that the cast returned.
TellReceiver(t) ==
    LET e == loc[t].sp
        i == ev[e].next
    IN
    /\ pc[t] = "tell"
    /\ ev' = [ev EXCEPT ![e].state = "RECEIVED"]
    /\ owed' = owed \cup {[to |-> ev[e].receivers[i], ev |-> e, idx |-> i]}
    /\ notified' = [notified EXCEPT ![e] = @ \cup {i}]
    /\ Goto(t, "check")
    /\ UNCHANGED <<queueVars, lock, handlerVars, registryVars, crossed, loc>>

\* The frozen branch after isFreeze was read: InsertFrozenEvents, SKIPPED.
ParkFrozen(t) ==
    LET e == loc[t].sp
        i == ev[e].next
    IN
    /\ pc[t] = "park"
    /\ parked' = parked \cup {<<ev[e].receivers[i], e>>}
    /\ ev' = [ev EXCEPT ![e].delivery[i] = "SKIPPED", ![e].cur = None]
    /\ Goto(t, "check")
    /\ UNCHANGED <<queueVars, lock, handlerVars, sub, frozen, replay, clientVars, loc>>

\* if curReceiver == nullptr: state = IDLE and schedule; return.
CheckReceiver(t) ==
    LET e == loc[t].sp IN
    /\ pc[t] = "check"
    /\ IF ev[e].cur = None
       THEN /\ ev' = [ev EXCEPT ![e].state = "IDLE"]
            /\ Goto(t, "schedule")
            /\ UNCHANGED <<lock, loc>>
       ELSE lock' = None /\ Leave(t) /\ UNCHANGED ev
    /\ UNCHANGED <<queueVars, handlerVars, registryVars, clientVars>>

-----------------------------------------------------------------------------
(* FinishReceiver, without the lock, on either thread *)

\* FinishReceiverAction goes by the state that FinishReceiver read; the
\* timeout handler ignores it.
FinishRead(t) ==
    /\ pc[t] = "finishRead"
    /\ loc' = [loc EXCEPT ![t].doNext = (ev[loc[t].sp].state = "RECEIVED")]
    /\ Goto(t, "finishState")
    /\ UNCHANGED <<ev, queueVars, lock, handlerVars, registryVars, clientVars>>

FinishState(t) ==
    /\ pc[t] = "finishState"
    /\ ev' = [ev EXCEPT ![loc[t].sp].state = "IDLE"]
    /\ Goto(t, "finishCur")
    /\ UNCHANGED <<queueVars, lock, handlerVars, registryVars, clientVars, loc>>

\* Threads about to read the curReceiver of e that they have just written.
Casting(e) == {t \in Threads : pc[t] = "cast" /\ loc[t].sp = e}

FinishCur(t) ==
    LET e == loc[t].sp IN
    /\ pc[t] = "finishCur"
    /\ ev' = [ev EXCEPT ![e].cur = None]
    /\ crossed' = IF Casting(e) = {} THEN crossed
                  ELSE [crossed EXCEPT ![e] = @ \cup {ev[e].next}]
    /\ Goto(t, "finishResult")
    /\ UNCHANGED <<queueVars, lock, handlerVars, registryVars, owed, notified, loc>>

\* resultAbort after FinishReceiver; UnsubscribeCommonEvent hands it over by
\* reference, so it is assigned to itself.
AbortAfter(t) ==
    IF loc[t].call = "unsub" /\ ~loc[t].force THEN ev[loc[t].sp].abort ELSE loc[t].abort

\* Mutant: the timeout handler does not schedule the next event.
FinishWithoutSchedule(t) ==
    LET done == [loc[t] EXCEPT !.abort = FALSE, !.doNext = FALSE] IN
    /\ pc[t] = "finishResult"
    /\ ev' = [ev EXCEPT ![loc[t].sp].abort = AbortAfter(t)]
    /\ IF loc[t].force
       THEN Goto(t, "schedule") /\ loc' = [loc EXCEPT ![t] = done]
       ELSE IF loc[t].doNext /\ loc[t].call # "timeout"
            THEN Goto(t, "lock") /\ loc' = [loc EXCEPT ![t] = [done EXCEPT !.sp = None]]
            ELSE Leave(t)
    /\ UNCHANGED <<queueVars, lock, handlerVars, registryVars, clientVars>>

\* SetCode, SetData, resultAbort; then the caller: the timeout schedules,
\* FinishReceiverAction goes on to ProcessNextOrderedEvent(false) if doNext.
FinishResult(t) ==
    LET done == [loc[t] EXCEPT !.abort = FALSE, !.doNext = FALSE] IN
    /\ pc[t] = "finishResult"
    /\ ev' = [ev EXCEPT ![loc[t].sp].abort = AbortAfter(t)]
    /\ IF loc[t].force \/ loc[t].call = "timeout"
       THEN Goto(t, "schedule") /\ loc' = [loc EXCEPT ![t] = done]
       ELSE IF loc[t].doNext
            THEN Goto(t, "lock") /\ loc' = [loc EXCEPT ![t] = [done EXCEPT !.sp = None]]
            ELSE Leave(t)
    /\ UNCHANGED <<queueVars, lock, handlerVars, registryVars, clientVars>>

-----------------------------------------------------------------------------
(* FinishReceiver and UnsubscribeCommonEvent of InnerCommonEventManager: *)
(* GetMatchingOrderedReceiver, then FinishReceiverAction on a match       *)

Matches(s) == queue # <<>> /\ ev[Head(queue)].cur = s

FinishReceiver(o, abort) ==
    /\ pc["main"] = "idle" /\ lock = None
    /\ o \in owed
    /\ abort => o.to \in Aborters
    /\ owed' = owed \ {o}
    /\ IF Matches(o.to)
       THEN /\ Goto("main", "finishRead")
            /\ loc' = [loc EXCEPT !["main"] =
                           [NoLocals EXCEPT !.call = "finish", !.sp = Head(queue), !.abort = abort]]
       ELSE UNCHANGED threadVars
    /\ UNCHANGED <<ev, queueVars, lock, handlerVars, registryVars, notified, crossed>>

UnsubscribeCommonEvent(s) ==
    /\ pc["main"] = "idle" /\ lock = None
    /\ s \in Leavers /\ sub[s] = "live"
    /\ LET called == [NoLocals EXCEPT !.call = "unsub", !.from = s] IN
       IF Matches(s)
       THEN /\ Goto("main", "finishRead")
            /\ loc' = [loc EXCEPT !["main"] = [called EXCEPT !.sp = Head(queue)]]
       ELSE Goto("main", "remove") /\ loc' = [loc EXCEPT !["main"] = called]
    /\ UNCHANGED <<ev, queueVars, lock, handlerVars, registryVars, clientVars>>

\* Mutant: the parked events of everybody are dropped.
ForgetEverything(s) ==
    sub' = [sub EXCEPT ![s] = "gone"] /\ parked' = {} /\ UNCHANGED <<frozen, replay>>

\* RemoveSubscriber: the record loses its listener and its parked events.
Forget(s) ==
    /\ sub' = [sub EXCEPT ![s] = "gone"]
    /\ parked' = {p \in parked : p[1] # s}
    /\ UNCHANGED <<frozen, replay>>

RemoveSubscriber ==
    /\ pc["main"] = "remove"
    /\ IF sub[loc["main"].from] = "live" THEN Forget(loc["main"].from) ELSE UNCHANGED registryVars
    /\ Goto("main", "idle")
    /\ loc' = [loc EXCEPT !["main"] = NoLocals]
    /\ UNCHANGED <<ev, queueVars, lock, handlerVars, clientVars>>

\* SubscriberDeathRecipient::OnRemoteDied, on a binder thread.
SubscriberDied(s) ==
    /\ s \in Mortals /\ sub[s] = "live"
    /\ Forget(s)
    /\ UNCHANGED <<ev, queueVars, lock, handlerVars, clientVars, threadVars>>

SubscribeCommonEvent(s) ==
    /\ pc["main"] = "idle"
    /\ sub[s] = "new"
    /\ sub' = [sub EXCEPT ![s] = "live"]
    /\ UNCHANGED <<ev, queueVars, lock, handlerVars, frozen, parked, replay, clientVars, threadVars>>

Freeze(u) ==
    /\ pc["main"] = "idle"
    /\ frozen' = frozen \cup {s \in Subscribers : Uid[s] = u /\ sub[s] = "live"}
    /\ UNCHANGED <<ev, queueVars, lock, handlerVars, sub, parked, replay, clientVars, threadVars>>

\* UpdateFreezeInfo(false), then PublishFreezeCommonEvent: GetFrozenEvents
\* empties the uid's map and each event is posted to the unordered handler
\* (to no effect when the record has lost its listener).
Unfreeze(u) ==
    LET thawed == {p \in parked : Uid[p[1]] = u} IN
    /\ pc["main"] = "idle"
    /\ frozen' = frozen \ {s \in Subscribers : Uid[s] = u /\ sub[s] = "live"}
    /\ parked' = parked \ thawed
    /\ replay' = replay \cup {p \in thawed : sub[p[1]] = "live"}
    /\ UNCHANGED <<ev, queueVars, lock, handlerVars, sub, clientVars, threadVars>>

-----------------------------------------------------------------------------
(* OrderedEventHandler::ProcessEvent on the ordered thread *)

\* Mutant: scheduled_ is not reset when the message is taken.
TakeStartStillScheduled ==
    /\ pc["ordered"] = "idle"
    /\ inbox # <<>> /\ Head(inbox) = "START"
    /\ inbox' = Tail(inbox)
    /\ Goto("ordered", "lock")
    /\ loc' = [loc EXCEPT !["ordered"] = [NoLocals EXCEPT !.call = "start"]]
    /\ UNCHANGED <<ev, queueVars, lock, scheduled, pending, timers, registryVars, clientVars>>

TakeStart ==
    /\ pc["ordered"] = "idle"
    /\ inbox # <<>> /\ Head(inbox) = "START"
    /\ inbox' = Tail(inbox)
    /\ scheduled' = FALSE
    /\ Goto("ordered", "lock")
    /\ loc' = [loc EXCEPT !["ordered"] = [NoLocals EXCEPT !.call = "start"]]
    /\ UNCHANGED <<ev, queueVars, lock, pending, timers, registryVars, clientVars>>

TakeTimeout ==
    /\ pc["ordered"] = "idle"
    /\ inbox # <<>> /\ Head(inbox) = "TIMEOUT"
    /\ inbox' = Tail(inbox)
    /\ pending' = FALSE
    /\ Goto("ordered", "expire")
    /\ loc' = [loc EXCEPT !["ordered"] = [NoLocals EXCEPT !.call = "timeout"]]
    /\ UNCHANGED <<ev, queueVars, lock, scheduled, timers, registryVars, clientVars>>

\* CurrentOrderedEventTimeout(true), without the lock, up to receiverTime.
TimeoutCheck ==
    /\ pc["ordered"] = "expire"
    /\ IF queue = <<>>
       THEN Leave("ordered") /\ UNCHANGED ev
       ELSE LET e == Head(queue)
                left == TIMEOUT - ev[e].receiverAge
            IN
            IF left > 0
            THEN /\ Goto("ordered", "arm")
                 /\ loc' = [loc EXCEPT !["ordered"].sp = e, !["ordered"].due = left]
                 /\ UNCHANGED ev
            ELSE /\ Goto("ordered", "mark")
                 /\ loc' = [loc EXCEPT !["ordered"].sp = e]
                 /\ ev' = [ev EXCEPT ![e].receiverAge = 0]
    /\ UNCHANGED <<queueVars, lock, handlerVars, registryVars, clientVars>>

\* Mutant: the receiver after the current one is marked.
TimeoutMarkNext(t) ==
    LET e == loc[t].sp IN
    /\ pc[t] = "mark"
    /\ ev' = IF ev[e].next < NumReceivers(e)
             THEN [ev EXCEPT ![e].delivery[ev[e].next + 1] = "TIMEOUT"] ELSE ev
    /\ loc' = [loc EXCEPT ![t].abort = ev[e].abort]
    /\ Goto(t, "finishState")
    /\ UNCHANGED <<queueVars, lock, handlerVars, registryVars, clientVars>>

\* The current receiver has timed out: mark it and take the arguments of
\* FinishReceiver from the record as it is.
TimeoutMark(t) ==
    LET e == loc[t].sp IN
    /\ pc[t] = "mark"
    /\ ev' = IF ev[e].next > 0 THEN [ev EXCEPT ![e].delivery[ev[e].next] = "TIMEOUT"] ELSE ev
    /\ loc' = [loc EXCEPT ![t].abort = ev[e].abort]
    /\ Goto(t, "finishState")
    /\ UNCHANGED <<queueVars, lock, handlerVars, registryVars, clientVars>>

-----------------------------------------------------------------------------
(* The clock.  It moves only when something the code compares with it moves. *)

Later(age, limit) == IF age < limit THEN age + 1 ELSE limit

Aged(e) ==
    [ev[e] EXCEPT !.receiverAge = Later(@, TIMEOUT),
                  !.dispatchAge = IF @ = Never THEN Never ELSE Later(@, ForceLimit(e) + 1)]

Tick ==
    LET waiting == {queue[i] : i \in 1..Len(queue)} IN
    /\ MayStall \/ (inbox = <<>> /\ \A t \in Threads : pc[t] = "idle")
    /\ ev' = [e \in Events |-> IF e \in waiting THEN Aged(e) ELSE ev[e]]
    /\ timers' = [d \in 1..TIMEOUT |-> IF d < TIMEOUT THEN timers[d + 1] ELSE 0]
    /\ inbox' = inbox \o [i \in 1..timers[1] |-> "TIMEOUT"]
    /\ loc' = [t \in Threads |-> [loc[t] EXCEPT !.due = IF @ > 0 THEN @ - 1 ELSE 0]]
    /\ <<ev, timers, loc>>' # <<ev, timers, loc>>
    /\ UNCHANGED <<queueVars, lock, scheduled, pending, registryVars, clientVars, pc>>

-----------------------------------------------------------------------------

\* The steps both threads can take inside a call.
Step(t) ==
    \/ ScheduleTest(t) \/ ScheduleSend(t)
    \/ ArmTest(t) \/ ArmSet(t) \/ ArmSend(t)
    \/ LockForNext(t) \/ LoopReturn(t) \/ LoopForce(t) \/ LoopConclude(t)
    \/ ForceConclude(t) \/ Retire(t) \/ LoopDispatch(t) \/ SetTime(t)
    \/ NotifyOrderedEvent(t) \/ CastReceiver(t) \/ TellReceiver(t)
    \/ ParkFrozen(t) \/ CheckReceiver(t)
    \/ FinishRead(t) \/ FinishState(t) \/ FinishCur(t) \/ FinishResult(t) \/ TimeoutMark(t)

MainStep == Step("main") \/ EnqueueOrderedRecord \/ RemoveSubscriber
OrderedStep == Step("ordered") \/ TakeStart \/ TakeTimeout \/ TimeoutCheck

Calling ==
    \/ \E e \in Events : ProcessOrderedEvent(e)
    \/ \E o \in owed, abort \in BOOLEAN : FinishReceiver(o, abort)
    \/ \E s \in Subscribers : UnsubscribeCommonEvent(s) \/ SubscribeCommonEvent(s) \/ SubscriberDied(s)
    \/ \E u \in FreezeUids : Freeze(u) \/ Unfreeze(u)

Next == MainStep \/ OrderedStep \/ Calling \/ Tick

Spec == Init /\ [][Next]_vars

\* Both threads are scheduled by the system and the clock runs; nothing is
\* assumed of publishers and subscribers, who may stop at any time.
Fairness == WF_vars(MainStep) /\ WF_vars(OrderedStep) /\ WF_vars(Tick)
FairSpec == Spec /\ Fairness
-----------------------------------------------------------------------------
(* Properties *)

Labels == {"idle", "enqueue", "schedule", "send", "arm", "armSet", "armSend",
           "lock", "loop", "settle", "retire", "setTime", "notify", "cast", "tell",
           "park", "check", "mark", "finishRead", "finishState", "finishCur",
           "finishResult", "expire", "remove"}

EventRecords ==
    [receivers : Seq(Subscribers), resultTo : Subscribers \cup {None},
     cur : Subscribers \cup {None}, delivery : Seq(Deliveries), next : Nat,
     state : States, abort : BOOLEAN,
     receiverAge : 0..TIMEOUT, dispatchAge : Nat \cup {Never}]

HistoryRecords == [ev : Events, delivery : Seq(Deliveries), abort : BOOLEAN]

Notifications == [to : Subscribers, ev : Events, idx : Nat]

Locals ==
    [call : Calls, sp : Events \cup {None}, from : Subscribers \cup {None},
     abort : BOOLEAN, doNext : BOOLEAN, due : 0..TIMEOUT, timer : BOOLEAN,
     force : BOOLEAN]

RecordsOK ==
    /\ ev \in [Events -> EventRecords]
    /\ \A e \in Events : /\ Len(ev[e].delivery) = Len(ev[e].receivers)
                         /\ ev[e].next <= Len(ev[e].receivers)

LogsOK ==
    /\ queue \in Seq(Events) /\ published \in Seq(Events)
    /\ history \in Seq(HistoryRecords)

HandlerOK ==
    /\ scheduled \in BOOLEAN /\ pending \in BOOLEAN
    /\ inbox \in Seq({"START", "TIMEOUT"})
    /\ timers \in [1..TIMEOUT -> Nat]

RegistryOK ==
    /\ sub \in [Subscribers -> {"new", "live", "gone"}]
    /\ frozen \subseteq Subscribers
    /\ parked \subseteq Subscribers \X Events /\ replay \subseteq Subscribers \X Events

ClientsOK ==
    /\ owed \subseteq Notifications
    /\ notified \in [Events -> SUBSET Nat] /\ crossed \in [Events -> SUBSET Nat]

ThreadsOK ==
    /\ lock \in Threads \cup {None}
    /\ pc \in [Threads -> Labels] /\ loc \in [Threads -> Locals]

\* Type invariant of the variables above; the receivers of an event and their
\* delivery states stay parallel and nextReceiver stays within them.
TypeOK == RecordsOK /\ LogsOK /\ HandlerOK /\ RegistryOK /\ ClientsOK /\ ThreadsOK

\* orderedEventQueue_ is a FIFO that loses and repeats nothing, although two
\* threads retire events from it: what has gone to the history, followed by
\* what is still queued, is what was enqueued, in that order.
QueueOrder == published = [i \in 1..Len(history) |-> history[i].ev] \o queue

\* Ordered events do not overlap and a receiver is not told twice: only
\* receivers of the front event are notified, at increasing indices of the
\* priority order, the last subscriber after all of them.
NotifyStep(e) ==
    notified'[e] # notified[e] =>
        /\ queue # <<>> /\ e = Head(queue)
        /\ \E i \in notified'[e] : notified'[e] = notified[e] \cup {i} /\ \A j \in notified[e] : j < i
NotifyInOrder == [][\A e \in Events : NotifyStep(e)]_vars

\* scheduled_ makes ScheduleOrderedCommonEvent return without sending: that is
\* only safe while an ORDERED_EVENT_START is on its way.
StartNotLost == scheduled => \E i \in 1..Len(inbox) : inbox[i] = "START"

\* A TIMEOUT message is due, now or later.
TimeoutDue ==
    \/ \E i \in 1..Len(inbox) : inbox[i] = "TIMEOUT"
    \/ \E d \in 1..TIMEOUT : timers[d] > 0

\* A front event that waits for nobody is never forgotten, although a finish
\* may put IDLE over the RECEIVED of the next receiver and go home: while it is
\* IDLE, a START or a TIMEOUT is due or one of the threads is inside a call.
IdleFrontIsDriven ==
    queue # <<>> /\ ev[Head(queue)].state = "IDLE" =>
        \/ \E i \in 1..Len(inbox) : inbox[i] = "START"
        \/ TimeoutDue
        \/ \E t \in Threads : pc[t] # "idle"

\* The turn of receiver ev[e].next is being given by a thread right now.
TurnInProgress(e) ==
    \E t \in Threads :
        /\ loc[t].sp = e /\ loc[t].call # "timeout"
        /\ pc[t] \in {"setTime", "arm", "armSet", "armSend", "notify", "cast", "tell", "park"}

\* No receiver is passed over without a reason: once nextReceiver has moved
\* beyond it, it was notified, or lacked a permission, or has gone, or the
\* event was kept for it while it was frozen, or a finish on the other thread
\* cleared curReceiver between its two uses.
NobodyPassedOver ==
    \A e \in Events : \A i \in 1..ev[e].next :
        LET s == ev[e].receivers[i] IN
        \/ i \in notified[e]
        \/ <<s, e>> \notin Permitted
        \/ sub[s] = "gone"
        \/ <<s, e>> \in parked \cup replay
        \/ i \in crossed[e]
        \/ i = ev[e].next /\ TurnInProgress(e)

\* What the history says of an event is what happened: PENDING exactly for
\* the receivers it never came to, DELIVERED or TIMEOUT for those it was sent
\* to, although the timeout handler marks receivers without the lock.
HistoryTruthful ==
    \A h \in 1..Len(history) :
        LET e == history[h].ev
            delivery == history[h].delivery
        IN \A i \in 1..Len(delivery) :
               /\ delivery[i] = "PENDING" <=> i > ev[e].next
               /\ i \in notified[e] => delivery[i] \in {"DELIVERED", "TIMEOUT"}
=============================================================================
