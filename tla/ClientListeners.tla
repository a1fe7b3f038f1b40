-------------------------- MODULE ClientListeners --------------------------
(***************************************************************************)
(* The client library: the singleton CommonEvent with its proxy of the     *)
(* service and its table of listeners, CommonEventListener, and the        *)
(* AsyncCommonEventResult of an ordered event.                             *)
(*                                                                         *)
(* Threads: those of the application, which call the API, and the event    *)
(* runners of the listeners, which run the callbacks; a callback may call  *)
(* the API too.  Binder threads bring events and the death of the service; *)
(* they only do what fits in one step.  Three kinds of mutex: mutex_ around *)
(* the proxy, eventListenersMutex_ around the table (held over a call of   *)
(* the service when unsubscribing), and the mutex_ of each listener (held  *)
(* over the user's callback).  A critical section in which nothing blocks  *)
(* is one step.                                                            *)
(***************************************************************************)
EXTENDS Selection, FiniteSets, SequencesExt, Functions

CONSTANTS
    Subscribers,          \* CommonEventSubscribers of the application
    HandlerMode,          \* those with thread mode HANDLER: the main runner's
    AppThreads, Main,     \* threads that call the API; the main event runner
    Plan,                 \* [AppThreads -> the calls it may make]
    InCallback,           \* [Subscribers -> the calls its callback may make]
    AsyncUsers,           \* subscribers whose callback may go asynchronous
    Finishers,            \* threads that finish the events taken asynchronous
    Events, Ordered,      \* events the service sends, and the ordered ones
    SUBSCRIBER_MAX_SIZE,
    MAX_LISTENERS,        \* bound: listener objects made for one subscriber
    MaxCalls,             \* bound: [AppThreads -> calls it may make]
    MAX_DEATHS,           \* bound: deaths of the service
    MayRefuse,            \* the service may answer false, the request or the reply be lost
    None

Listeners == Subscribers \X (1..MAX_LISTENERS)
Runner(l) == IF l[1] \in HandlerMode THEN Main ELSE l
Runners == {Runner(l) : l \in Listeners}
Threads == AppThreads \cup Runners
Deliveries == Listeners \X Events

ASSUME ClientAssumption ==
    /\ HandlerMode \subseteq Subscribers /\ AsyncUsers \subseteq Subscribers
    /\ Finishers \subseteq AppThreads /\ Ordered \subseteq Events
    /\ SUBSCRIBER_MAX_SIZE \in Nat /\ MAX_LISTENERS \in Nat \ {0}
    /\ MaxCalls \in [AppThreads -> Nat] /\ MAX_DEATHS \in Nat /\ MayRefuse \in BOOLEAN
    /\ None \notin Threads \cup Subscribers \cup Deliveries
    /\ AppThreads \cap Runners = {}
    /\ LET Calls == ({"subscribe", "unsubscribe"} \X Subscribers)
                    \cup ({"publish"} \X (Subscribers \cup {None})) IN
       Plan \in [AppThreads -> SUBSET Calls] /\ InCallback \in [Subscribers -> SUBSET Calls]

VARIABLES
    up, instance,          \* the service: does it run, and its incarnation
    registered,            \* listeners the running service has accepted
    commonEventProxy,      \* commonEventProxy_: the incarnation it reaches, or None
    isProxyValid,          \* isProxyValid_
    mutex,                 \* mutex_: the thread that holds it, or None
    recipients,            \* incarnations whose death will be reported
    eventListeners,        \* eventListeners_
    eventListenersMutex,   \* eventListenersMutex_
    made,                  \* [Subscribers -> listener objects made so far]
    ready,                 \* listeners with a runner_ and a handler_
    listenerMutex,         \* [Listeners -> holder of its mutex_, or None]
    arriving,              \* [Listeners -> NotifyEvent requests, one way]
    tasks,                 \* [Runners -> OnReceiveEvent tasks]
    running,               \* [Runners -> the task it runs]
    result,                \* [Subscribers -> result_, named by its delivery]
    finished,              \* results whose finished_ is set
    held,                  \* results that GoAsyncCommonEvent gave away
    call,                  \* [Threads -> the call of the API in progress]
    left,                  \* [AppThreads -> calls it may still make]
    sent,                  \* deliveries the service has sent (history variable)
    answers,               \* [Deliveries -> answers received] (history variable)
    late,                  \* [Listeners -> callbacks begun after Stop] (history variable)
    believed,              \* subscribers told that they are subscribed (history variable)
    refused                \* subscribers a call of whom failed (history variable)

serviceVars  == <<up, instance, registered>>
proxyVars    == <<commonEventProxy, isProxyValid, mutex, recipients>>
tableVars    == <<eventListeners, eventListenersMutex, made>>
listenerVars == <<ready, listenerMutex, arriving, tasks, running>>
resultVars   == <<result, finished, held>>
ghostVars    == <<sent, answers, late, believed, refused>>
vars == <<serviceVars, proxyVars, tableVars, listenerVars, resultVars, call, left, ghostVars>>

Idle == [op |-> "none", at |-> "idle"]

Init ==
    /\ up = TRUE /\ instance = 1 /\ registered = {}
    /\ commonEventProxy = None /\ isProxyValid = FALSE /\ mutex = None /\ recipients = {}
    /\ eventListeners = <<>> /\ eventListenersMutex = None /\ made = [s \in Subscribers |-> 0]
    /\ ready = {} /\ listenerMutex = [l \in Listeners |-> None]
    /\ arriving = [l \in Listeners |-> <<>>] /\ tasks = [r \in Runners |-> <<>>]
    /\ running = [r \in Runners |-> Idle]
    /\ result = [s \in Subscribers |-> None] /\ finished = {} /\ held = {}
    /\ call = [t \in Threads |-> Idle] /\ left = MaxCalls
    /\ sent = {} /\ answers = [d \in Deliveries |-> 0] /\ late = [l \in Listeners |-> 0]
    /\ believed = {} /\ refused = {}

-----------------------------------------------------------------------------
(* Calls of the API *)

Doing(t, at) == call[t].at = at
Goto(t, at) == call' = [call EXCEPT ![t].at = at]

\* A call returns; what a subscription or its end tells the caller.
Return(t, answer) ==
    LET op == call[t].op
        s == call[t].for
    IN
    /\ call' = [call EXCEPT ![t] = Idle]
    /\ believed' = IF op = "subscribe" /\ answer THEN believed \cup {s} ELSE believed
    /\ refused' = IF op # "finish" /\ ~answer THEN refused \cup {s} ELSE refused
    /\ UNCHANGED <<sent, late>>

\* for: the subscriber (None when publishing without one; with one the event is
\* ordered, or nothing is done), or the delivery
\* whose result is finished.  FinishCommonEvent first looks at finished_.
Start(t, op, for) ==
    /\ Doing(t, "idle")
    /\ call' = [call EXCEPT ![t] = [op |-> op, for |-> for, listener |-> None,
                                    at |-> IF op = "finish" THEN "finished?" ELSE "proxy?"]]
    /\ believed' = IF op = "unsubscribe" THEN believed \ {for} ELSE believed
    /\ UNCHANGED <<sent, answers, late, refused>>

CallApi(t) ==
    /\ left[t] > 0 /\ left' = [left EXCEPT ![t] = @ - 1]
    /\ \/ \E c \in Plan[t] : Start(t, c[1], c[2])
       \/ t \in Finishers /\ \E d \in held : Start(t, "finish", d)
    /\ UNCHANGED <<serviceVars, proxyVars, tableVars, listenerVars, resultVars>>

\* FinishCommonEvent: only of an ordered event (CheckSynchronous), and only the
\* first to get here goes on; then it says so.
TestFinished(t) ==
    /\ Doing(t, "finished?")
    /\ IF call[t].for[2] \notin Ordered \/ call[t].for \in finished
       THEN Return(t, FALSE) /\ UNCHANGED answers
       ELSE Goto(t, "finish") /\ UNCHANGED ghostVars
    /\ UNCHANGED <<serviceVars, proxyVars, tableVars, listenerVars, resultVars, left>>

\* Mutant: finished_ is never set.
SetFinishedNot(t) ==
    /\ Doing(t, "finish")
    /\ Goto(t, "proxy?")
    /\ UNCHANGED <<serviceVars, proxyVars, tableVars, listenerVars, resultVars, left, ghostVars>>

SetFinished(t) ==
    /\ Doing(t, "finish")
    /\ finished' = finished \cup {call[t].for}
    /\ Goto(t, "proxy?")
    /\ UNCHANGED <<serviceVars, proxyVars, tableVars, listenerVars, result, held, left, ghostVars>>

ProxyIsGood == commonEventProxy # None /\ isProxyValid

\* GetCommonEventProxy: a test without the mutex, one with it, the new proxy,
\* its death recipient; isProxyValid_ is set after the mutex is released.
TestProxy(t) ==
    /\ Doing(t, "proxy?")
    /\ Goto(t, IF ProxyIsGood THEN "valid" ELSE "connect")
    /\ UNCHANGED <<serviceVars, proxyVars, tableVars, listenerVars, resultVars, left, ghostVars>>

Connect(t) ==
    /\ Doing(t, "connect") /\ mutex = None
    /\ IF ProxyIsGood THEN Goto(t, "valid") /\ UNCHANGED <<proxyVars, ghostVars>>
       ELSE IF up
       THEN /\ commonEventProxy' = instance /\ mutex' = t
            /\ Goto(t, "recipient")
            /\ UNCHANGED <<isProxyValid, recipients, ghostVars>>
       ELSE Return(t, FALSE) /\ UNCHANGED <<proxyVars, answers>>
    /\ UNCHANGED <<serviceVars, tableVars, listenerVars, resultVars, left>>

AddDeathRecipient(t) ==
    /\ Doing(t, "recipient")
    /\ recipients' = IF up /\ commonEventProxy = instance THEN recipients \cup {instance} ELSE recipients
    /\ mutex' = None
    /\ Goto(t, "valid")
    /\ UNCHANGED <<serviceVars, commonEventProxy, isProxyValid, tableVars, listenerVars, resultVars,
                   left, ghostVars>>

\* What each call does once it has the proxy.
AfterProxy(c) ==
    IF c.op = "unsubscribe" THEN "table"
    ELSE IF c.op = "finish" \/ c.for = None THEN "request" ELSE "listener"

SetProxyValid(t) ==
    /\ Doing(t, "valid")
    /\ isProxyValid' = TRUE
    /\ Goto(t, AfterProxy(call[t]))
    /\ UNCHANGED <<serviceVars, commonEventProxy, mutex, recipients, tableVars, listenerVars,
                   resultVars, left, ghostVars>>

\* CreateCommonEventListener, and what the caller makes of its answer: a
\* subscriber that is in the table already is subscribed, says
\* SubscribeCommonEvent; a full table is a failure.
CreateCommonEventListener(t) ==
    LET s == call[t].for
        l == <<s, made[s] + 1>>
    IN
    /\ Doing(t, "listener") /\ eventListenersMutex = None
    /\ IF s \in DOMAIN eventListeners
       THEN /\ IF call[t].op = "subscribe" THEN Return(t, TRUE) /\ UNCHANGED answers
               ELSE Goto(t, "request") /\ UNCHANGED ghostVars
            /\ UNCHANGED <<tableVars, ready>>
       ELSE IF Cardinality(DOMAIN eventListeners) = SUBSCRIBER_MAX_SIZE
       THEN Return(t, FALSE) /\ UNCHANGED <<tableVars, ready, answers>>
       ELSE /\ l \in Listeners
            /\ made' = [made EXCEPT ![s] = @ + 1]
            /\ eventListeners' = [x \in DOMAIN eventListeners \cup {s} |->
                                   IF x = s THEN l ELSE eventListeners[x]]
            /\ ready' = ready \cup {l}
            /\ call' = [call EXCEPT ![t].at = "request", ![t].listener = l]
            /\ UNCHANGED <<eventListenersMutex, ghostVars>>
    /\ UNCHANGED <<serviceVars, proxyVars, listenerMutex, arriving, tasks, running, resultVars, left>>

\* UnSubscribeCommonEvent takes the table and keeps it until it returns.
FindListener(t) ==
    LET s == call[t].for IN
    /\ Doing(t, "table") /\ eventListenersMutex = None
    /\ IF s \in DOMAIN eventListeners
       THEN /\ eventListenersMutex' = t
            /\ call' = [call EXCEPT ![t].at = "request", ![t].listener = eventListeners[s]]
            /\ UNCHANGED ghostVars
       ELSE Return(t, TRUE) /\ UNCHANGED <<eventListenersMutex, answers>>
    /\ UNCHANGED <<serviceVars, proxyVars, eventListeners, made, listenerVars, resultVars, left>>

\* Mutant: the lock on the table is not given back on the way out.
KeepLock(t) == UNCHANGED eventListenersMutex

Release(t) == eventListenersMutex' = IF eventListenersMutex = t THEN None ELSE eventListenersMutex

\* CommonEventProxy: the request reaches the service and is posted there.
Reaches(t) ==
    LET c == call[t] IN
    /\ Doing(t, "request") /\ up /\ commonEventProxy = instance
    /\ registered' = CASE c.op = "subscribe" -> registered \cup {c.listener}
                       [] c.op = "unsubscribe" -> registered \ {c.listener}
                       [] OTHER -> registered
    /\ answers' = IF c.op = "finish" THEN [answers EXCEPT ![c.for] = @ + 1] ELSE answers

RequestAccepted(t) ==
    /\ Reaches(t)
    /\ IF call[t].op = "unsubscribe" THEN Goto(t, "stop") /\ UNCHANGED <<sent, late, believed, refused>>
                                     ELSE Return(t, TRUE)
    /\ UNCHANGED <<up, instance, proxyVars, tableVars, listenerVars, resultVars, left>>

\* The service does what it was asked for, but its reply does not arrive.
ReplyLost(t) ==
    /\ MayRefuse /\ Reaches(t)
    /\ Return(t, FALSE) /\ Release(t)
    /\ UNCHANGED <<up, instance, proxyVars, eventListeners, made, listenerVars, resultVars, left>>

Fails(t, answer, entries) ==
    /\ Doing(t, "request")
    /\ ~up \/ commonEventProxy # instance \/ MayRefuse
    /\ Return(t, answer)
    /\ eventListeners' = entries
    /\ Release(t)
    /\ UNCHANGED <<serviceVars, proxyVars, made, listenerVars, resultVars, left, answers>>

\* Mutants: the answer of the service is not passed on; the entry of the
\* table goes although the service still has the listener.
FailsSilently(t) == Fails(t, TRUE, eventListeners)
FailsAndErases(t) == Fails(t, FALSE, Restrict(eventListeners, DOMAIN eventListeners \ {call[t].for}))

\* The service is gone, was replaced, is not ready, or the request is lost.
RequestFails(t) == Fails(t, FALSE, eventListeners)

\* Mutant: handler_ and its tasks stay.
KeepTasks(l) == tasks

\* With handler_ those of its tasks go that have not been taken from the queue.
RemoveOrphans(l) == [tasks EXCEPT ![Runner(l)] = Selected(@, {d \in ToSet(@) : d[1] # l})]

\* CommonEventListener::Stop, then the entry goes.
StopListener(t) ==
    LET l == call[t].listener IN
    /\ Doing(t, "stop") /\ listenerMutex[l] = None
    /\ ready' = ready \ {l}
    /\ tasks' = RemoveOrphans(l)
    /\ eventListeners' = Restrict(eventListeners, DOMAIN eventListeners \ {call[t].for})
    /\ eventListenersMutex' = None
    /\ Return(t, TRUE)
    /\ UNCHANGED <<serviceVars, proxyVars, made, listenerMutex, arriving, running, resultVars, left, answers>>

ApiStep(t) ==
    \/ TestFinished(t) \/ SetFinished(t)
    \/ TestProxy(t) \/ Connect(t) \/ AddDeathRecipient(t) \/ SetProxyValid(t)
    \/ CreateCommonEventListener(t) \/ FindListener(t)
    \/ RequestAccepted(t) \/ ReplyLost(t) \/ RequestFails(t) \/ StopListener(t)

-----------------------------------------------------------------------------
(* Events *)

SendEvent(l, e) ==
    /\ up /\ l \in registered /\ <<l, e>> \notin sent
    /\ sent' = sent \cup {<<l, e>>}
    /\ arriving' = [arriving EXCEPT ![l] = Append(@, e)]
    /\ UNCHANGED <<serviceVars, proxyVars, tableVars, ready, listenerMutex, tasks, running,
                   resultVars, call, left, answers, late, believed, refused>>

\* CommonEventListener::NotifyEvent on a binder thread, which waits for the
\* listener's mutex_; requests of one caller to one object keep their order.
NotifyEvent(l) ==
    /\ arriving[l] # <<>> /\ listenerMutex[l] = None
    /\ arriving' = [arriving EXCEPT ![l] = Tail(@)]
    /\ tasks' = IF l \in ready
                THEN [tasks EXCEPT ![Runner(l)] = Append(@, <<l, Head(arriving[l])>>)] ELSE tasks
    /\ UNCHANGED <<serviceVars, proxyVars, tableVars, ready, listenerMutex, running, resultVars,
                   call, left, ghostVars>>

\* The runner has taken a task; OnReceiveEvent comes to the listener's mutex_.
TakeTask(r) ==
    /\ running[r] = Idle /\ tasks[r] # <<>>
    /\ running' = [running EXCEPT ![r] = [delivery |-> Head(tasks[r]), at |-> "taken"]]
    /\ tasks' = [tasks EXCEPT ![r] = Tail(@)]
    /\ UNCHANGED <<serviceVars, proxyVars, tableVars, ready, listenerMutex, arriving, resultVars,
                   call, left, ghostVars>>

\* OnReceiveEvent: the result is made and handed to the subscriber, whose
\* callback begins.
EnterCallback(r) ==
    LET d == running[r].delivery
        l == d[1]
    IN
    /\ running[r].at = "taken" /\ listenerMutex[l] = None
    /\ listenerMutex' = [listenerMutex EXCEPT ![l] = r]
    /\ result' = [result EXCEPT ![l[1]] = d]
    /\ running' = [running EXCEPT ![r].at = "callback"]
    /\ late' = IF l \in ready THEN late ELSE [late EXCEPT ![l] = @ + 1]
    /\ UNCHANGED <<serviceVars, proxyVars, tableVars, ready, arriving, tasks, finished, held,
                   call, left, sent, answers, believed, refused>>

\* The callback calls the API, among it FinishCommonEvent of its own result.
CallFromCallback(r) ==
    LET s == running[r].delivery[1][1] IN
    /\ running[r].at = "callback"
    /\ \/ \E c \in InCallback[s] : Start(r, c[1], c[2])
       \/ result[s] # None /\ Start(r, "finish", result[s])
    /\ running' = [running EXCEPT ![r].at = "called"]
    /\ UNCHANGED <<serviceVars, proxyVars, tableVars, ready, listenerMutex, arriving, tasks,
                   resultVars, left>>

GoAsyncCommonEvent(r) ==
    LET s == running[r].delivery[1][1] IN
    /\ running[r].at = "callback" /\ s \in AsyncUsers /\ result[s] # None
    /\ held' = held \cup {result[s]}
    /\ result' = [result EXCEPT ![s] = None]
    /\ UNCHANGED <<serviceVars, proxyVars, tableVars, listenerVars, finished, call, left, ghostVars>>

\* The callback returns; the listener finishes an ordered event that is still
\* the subscriber's.
EndCallback(r) ==
    LET s == running[r].delivery[1][1] IN
    /\ running[r].at \in {"callback", "called"} /\ Doing(r, "idle")
    /\ running' = [running EXCEPT ![r].at = "finishing"]
    /\ IF result[s] # None /\ running[r].delivery[2] \in Ordered
       THEN Start(r, "finish", result[s])
       ELSE UNCHANGED <<call, ghostVars>>
    /\ UNCHANGED <<serviceVars, proxyVars, tableVars, ready, listenerMutex, arriving, tasks,
                   resultVars, left>>

LeaveOnReceiveEvent(r) ==
    /\ running[r].at = "finishing" /\ Doing(r, "idle")
    /\ listenerMutex' = [listenerMutex EXCEPT ![running[r].delivery[1]] = None]
    /\ running' = [running EXCEPT ![r] = Idle]
    /\ UNCHANGED <<serviceVars, proxyVars, tableVars, ready, arriving, tasks, resultVars, call,
                   left, ghostVars>>

RunnerStep(r) ==
    TakeTask(r) \/ EnterCallback(r) \/ EndCallback(r) \/ LeaveOnReceiveEvent(r)

-----------------------------------------------------------------------------
(* The service dies and comes back *)

ServiceDies ==
    /\ up /\ instance <= MAX_DEATHS
    /\ up' = FALSE /\ registered' = {}
    /\ UNCHANGED <<instance, proxyVars, tableVars, listenerVars, resultVars, call, left, ghostVars>>

ServiceRestarts ==
    /\ ~up
    /\ up' = TRUE /\ instance' = instance + 1
    /\ UNCHANGED <<registered, proxyVars, tableVars, listenerVars, resultVars, call, left, ghostVars>>

\* CommonEventDeathRecipient::OnRemoteDied: ResetCommonEventProxy.
ResetCommonEventProxy ==
    /\ mutex = None
    /\ \E i \in recipients :
           /\ i < instance \/ ~up
           /\ recipients' = recipients \ {i, commonEventProxy}
    /\ isProxyValid' = FALSE
    /\ UNCHANGED <<serviceVars, commonEventProxy, mutex, tableVars, listenerVars, resultVars, call,
                   left, ghostVars>>

ThreadStep(t) == ApiStep(t) \/ (t \in Runners /\ RunnerStep(t))

\* What has been begun goes on: calls, callbacks, requests that have arrived.
Work ==
    \/ \E t \in Threads : ThreadStep(t)
    \/ \E l \in Listeners : NotifyEvent(l)
    \/ ResetCommonEventProxy

Next ==
    \/ Work
    \/ \E t \in AppThreads : CallApi(t)
    \/ \E l \in Listeners, e \in Events : SendEvent(l, e)
    \/ \E r \in Runners : CallFromCallback(r) \/ GoAsyncCommonEvent(r)
    \/ ServiceDies \/ ServiceRestarts

Spec == Init /\ [][Next]_vars

\* Some thread that can go on does; nobody has to call, to send, or to die.
FairSpec == Spec /\ WF_vars(Work)
-----------------------------------------------------------------------------
(* Properties *)

\* What the service may still send to is in the table, so that it can be
\* unsubscribed: through failed requests, deaths and repeated subscriptions
\* no registration is left behind.
RegisteredIsListed == registered \subseteq Range(eventListeners)

\* A subscriber that was told it is subscribed, and of whom no call has ever
\* failed, is known to the service unless the service has died since.
SubscribedIsRegistered ==
    \A s \in believed \ refused :
        instance = 1 /\ up => s \in DOMAIN eventListeners /\ eventListeners[s] \in registered

\* After UnSubscribeCommonEvent has stopped a listener at most one callback
\* begins, the one whose task its runner had already taken.
AtMostOneLateCallback == \A l \in Listeners : late[l] <= 1

\* The service is answered at most once for each ordered event and never for
\* another, whoever finishes it: the callback, the listener, or the thread
\* that holds the result of an event that went asynchronous.
AnsweredOnce ==
    \A d \in Deliveries : answers[d] <= (IF d \in sent /\ d[2] \in Ordered THEN 1 ELSE 0)

\* Every call returns and every callback gets to its end, as long as callbacks
\* stay away from the table of listeners.
CallsReturn ==
    []<>((\A t \in Threads : call[t] = Idle) /\ (\A r \in Runners : running[r] = Idle))
=============================================================================
