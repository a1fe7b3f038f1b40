--------------------------- MODULE JsSubscribers ---------------------------
(***************************************************************************)
(* The JavaScript bindings.  A function of the API checks its arguments on *)
(* the JavaScript thread and queues an AsyncCallbackInfo; a thread of the  *)
(* pool executes it; back on the JavaScript thread it completes, which     *)
(* calls the caller's callback or settles its promise.  Works run side by  *)
(* side and complete in any order.                                         *)
(*                                                                         *)
(* An event reaches SubscriberInstance::OnReceiveEvent on the runner of    *)
(* the subscriber's listener, under the listener's mutex.  It is passed to *)
(* the loop of the JavaScript thread by a work that does nothing; if it is *)
(* ordered its result goes into the subscriber's entry of                  *)
(* subscriberInstances, where the functions that get and set the result    *)
(* and finish the event look for it.                                       *)
(*                                                                         *)
(* The client library is seen through what it promises (ClientListeners):  *)
(* a request of the service is done or fails, and UnSubscribeCommonEvent   *)
(* waits for the callback in progress.  Applications subscribe an object   *)
(* once and, after unsubscribing it, at most finish its events.            *)
(***************************************************************************)
EXTENDS Integers, Sequences, FiniteSets, SequencesExt, Functions

CONSTANTS
    Subscribers,      \* SubscriberInstances
    Events, For,      \* events, and [Events -> the subscriber each is sent to]
    Ordered, Sticky,  \* the ordered ones, the sticky ones
    API,              \* the functions of the API that are called
    Codes,            \* result codes (and data) that may be set
    MAX_CALLS,        \* bound: calls, finishes apart
    MAX_OTHER,        \* bound: those other than create, subscribe and unsubscribe
    Collectable,      \* subscribers the garbage collector may finalize
    MayFail,          \* requests of the service may fail
    None

ASSUME JsAssumption ==
    /\ For \in [Events -> Subscribers] /\ Ordered \cup Sticky \subseteq Events
    /\ MAX_CALLS \in Nat /\ MAX_OTHER \in Nat /\ Collectable \subseteq Subscribers /\ MayFail \in BOOLEAN
    /\ None \notin Events \cup Subscribers \cup Nat

VARIABLES
    called, others,       \* calls made, by bound; together the last id given
    infos,                \* AsyncCallbackInfos of calls in progress
    settled,              \* what callers of finish were told (history variable)
    finishes,             \* events a finish was called for (history variable)
    created,              \* JavaScript objects there are
    subscribed,           \* subscribers the service has a listener of
    subscriberInstances,  \* [some subscribers -> [callbacks, commonEventResult]]
    callbackRef,          \* [Subscribers -> ref_, named by its call of subscribe]
    gone,                 \* subscribers an unsubscribe was called for (history variable)
    refused,              \* those of whom a request has failed (history variable)
    arriving,             \* [Subscribers -> events posted to the runner]
    running,              \* [Subscribers -> OnReceiveEvent in progress]
    own,                  \* [Subscribers -> event whose result is its result_]
    loop,                 \* works on their way to UvQueueWorkOnReceiveEvent
    sent,                 \* events sent (history variable)
    seen,                 \* [Subscribers -> events its callback was called with]
    collecting,           \* the subscriber being finalized, or None
    result,               \* [Events -> AsyncCommonEventResult]
    answers,              \* [Events -> answers the service got] (history variable)
    lost                  \* events of which an answer did not arrive (history variable)

callVars  == <<called, others, infos, settled, finishes>>
tableVars == <<created, subscribed, subscriberInstances, callbackRef, gone, refused>>
eventVars == <<arriving, running, own, loop, sent, seen>>
resultVars == <<result, answers, lost>>
vars == <<callVars, tableVars, eventVars, collecting, resultVars>>

Idle == [at |-> "idle"]

Init ==
    /\ called = 0 /\ others = 0 /\ infos = {} /\ settled = {} /\ finishes = {}
    /\ created = {} /\ subscribed = {} /\ subscriberInstances = <<>>
    /\ callbackRef = [s \in Subscribers |-> None] /\ gone = {} /\ refused = {}
    /\ arriving = [s \in Subscribers |-> <<>>] /\ running = [s \in Subscribers |-> Idle]
    /\ own = [s \in Subscribers |-> None] /\ loop = {}
    /\ sent = {} /\ seen = [s \in Subscribers |-> <<>>]
    /\ collecting = None
    /\ result = [e \in Events |-> [code |-> None, data |-> None, abort |-> FALSE, finished |-> FALSE]]
    /\ answers = [e \in Events |-> 0] /\ lost = {}

-----------------------------------------------------------------------------
(* Calls on the JavaScript thread: each queues its work *)

\* about: the event the call is about (history).  No error until one is found.
Info(id, function, s, argument, about) ==
    [id |-> id, function |-> function, subscriber |-> s, argument |-> argument,
     about |-> about, at |-> "queued", errorCode |-> 0, value |-> None]

Lifecycle == {"create", "subscribe", "unsubscribe"}

Latest(s) == IF s = None \/ seen[s] = <<>> THEN None ELSE Last(seen[s])

Queue(function, s, argument) ==
    /\ collecting = None /\ function \in API
    /\ called + others < MAX_CALLS
    /\ IF function \in Lifecycle
       THEN called' = called + 1 /\ UNCHANGED others
       ELSE others < MAX_OTHER /\ others' = others + 1 /\ UNCHANGED called
    /\ infos' = infos \cup {Info(called' + others', function, s, argument, Latest(s))}
    /\ UNCHANGED <<settled, finishes, created, subscribed, subscriberInstances, callbackRef,
                   refused, eventVars, collecting, resultVars>>

Call(function, s, argument) ==
    s \in created \ gone /\ Queue(function, s, argument) /\ UNCHANGED gone

Calling(function, s) == \E c \in infos : c.function = function /\ c.subscriber = s

CreateSubscriber(s) ==
    s \notin created /\ ~Calling("create", s) /\ Queue("create", s, None) /\ UNCHANGED gone

GetSubscribeInfo(s) == Call("getSubscribeInfo", s, None)
IsOrderedCommonEvent(s) == Call("isOrdered", s, None)
IsStickyCommonEvent(s) == Call("isSticky", s, None)
GetCode(s) == Call("getCode", s, None)
SetCode(s, code) == Call("setCode", s, [code |-> code])
GetData(s) == Call("getData", s, None)
SetData(s, data) == Call("setData", s, [data |-> data])
SetCodeAndData(s, code) == Call("setCodeAndData", s, [code |-> code, data |-> code])
AbortCommonEvent(s) == Call("abort", s, [abort |-> TRUE])
ClearAbortCommonEvent(s) == Call("clearAbort", s, [abort |-> FALSE])
GetAbortCommonEvent(s) == Call("getAbort", s, None)
Publish == Queue("publish", None, None) /\ UNCHANGED gone
PublishAsUser == Queue("publishAsUser", None, None) /\ UNCHANGED gone

Subscribe(s) ==
    /\ callbackRef[s] = None /\ ~Calling("subscribe", s)
    /\ Call("subscribe", s, None)

\* Only a subscriber with an entry is found; otherwise nothing is queued and
\* the caller's callback is never called.
Unsubscribe(s) ==
    /\ gone' = gone \cup {s}
    /\ s \in created \ gone
    /\ IF s \in DOMAIN subscriberInstances THEN Queue("unsubscribe", s, None)
       ELSE /\ Calling("subscribe", s) /\ "unsubscribe" \in API /\ collecting = None
            /\ UNCHANGED <<callVars, created, subscribed, subscriberInstances, callbackRef,
                           refused, eventVars, collecting, resultVars>>

\* An application finishes each ordered event it has seen, once.
FinishCommonEvent(s) ==
    \E e \in (ToSet(seen[s]) \cap Ordered) \ finishes :
        /\ collecting = None /\ "finish" \in API
        /\ finishes' = finishes \cup {e}
        /\ infos' = infos \cup {Info(0, "finish", s, None, e)}
        /\ UNCHANGED <<called, others, settled, tableVars, eventVars, collecting, resultVars>>

-----------------------------------------------------------------------------
(* The pool *)

\* GetAsyncResult; subscriberInsMutex is held by the finalizer alone for long.
AsyncResult(s) ==
    IF s \in DOMAIN subscriberInstances THEN subscriberInstances[s].commonEventResult ELSE None

Got(function, s) ==
    LET r == AsyncResult(s) IN
    CASE function = "isOrdered" -> (IF r # None THEN r ELSE own[s]) \in Ordered
      [] function = "isSticky"  -> (IF r # None THEN r ELSE own[s]) \in Sticky
      [] function = "getCode"   -> IF r # None THEN result[r].code ELSE None
      [] function = "getData"   -> IF r # None THEN result[r].data ELSE None
      [] function = "getAbort"  -> IF r # None THEN result[r].abort ELSE FALSE

Getters == {"isOrdered", "isSticky", "getCode", "getData", "getAbort"}
Setters == {"setCode", "setData", "setCodeAndData", "abort", "clearAbort"}
Publishers == {"publish", "publishAsUser"}

\* record, with the fields of changes.
Updated(record, changes) ==
    [x \in DOMAIN record |-> IF x \in DOMAIN changes THEN changes[x] ELSE record[x]]

Advance(c, changes) == infos' = (infos \ {c}) \cup {Updated(c, changes)}

\* What becomes of a request of the service.  One that is reported as failed
\* was carried out if it is only the reply that did not arrive.
Outcomes == [done : {TRUE}, errorCode : {0}] \cup (IF MayFail THEN [done : BOOLEAN, errorCode : {1}] ELSE {})

\* The client library's answer, as an error code.
ErrorCodes == {o.errorCode : o \in Outcomes}

Executing(c, function) == c \in infos /\ c.at = "queued" /\ c.function = function

\* Creating and describing a subscriber, publishing: nothing shared changes.
ExecuteOther(c) ==
    /\ \E f \in Publishers \cup {"create", "getSubscribeInfo"} : Executing(c, f)
    /\ \E error \in (IF c.function = "getSubscribeInfo" THEN {0} ELSE ErrorCodes) :
           Advance(c, [at |-> "done", errorCode |-> error])
    /\ UNCHANGED <<called, others, settled, finishes, tableVars, eventVars, collecting, resultVars>>

ExecuteGet(c) ==
    /\ \E f \in Getters : Executing(c, f)
    /\ collecting = None
    /\ Advance(c, [at |-> "done", value |-> Got(c.function, c.subscriber)])
    /\ UNCHANGED <<called, others, settled, finishes, tableVars, eventVars, collecting, resultVars>>

\* Without a result to set there is no error either.
ExecuteSet(c) ==
    LET r == AsyncResult(c.subscriber) IN
    /\ \E f \in Setters : Executing(c, f)
    /\ collecting = None
    /\ result' = IF r = None THEN result ELSE [result EXCEPT ![r] = Updated(@, c.argument)]
    /\ Advance(c, [at |-> "done"])
    /\ UNCHANGED <<called, others, settled, finishes, tableVars, eventVars, collecting, answers, lost>>

\* AsyncCommonEventResult::FinishCommonEvent tests finished_ in one step and
\* sets it, and answers, in another.
ExecuteFinish(c) ==
    LET r == AsyncResult(c.subscriber) IN
    /\ Executing(c, "finish")
    /\ collecting = None
    /\ IF r = None THEN Advance(c, [at |-> "done"])
       ELSE IF result[r].finished THEN Advance(c, [at |-> "done", errorCode |-> 1])
       ELSE Advance(c, [at |-> "finishing", argument |-> r])
    /\ UNCHANGED <<called, others, settled, finishes, tableVars, eventVars, collecting, resultVars>>

\* Mutant: finished_ is set but nothing is sent.
FinishNot(e, done) == result' = [result EXCEPT ![e].finished = TRUE] /\ UNCHANGED <<answers, lost>>

\* finished_ stays set when the request fails.
Finish(e, done) ==
    /\ result' = [result EXCEPT ![e].finished = TRUE]
    /\ answers' = IF done THEN [answers EXCEPT ![e] = @ + 1] ELSE answers
    /\ lost' = IF done THEN lost ELSE lost \cup {e}

ExecuteAnswer(c) ==
    /\ c \in infos /\ c.at = "finishing"
    /\ \E o \in Outcomes :
           Finish(c.argument, o.done) /\ Advance(c, [at |-> "done", errorCode |-> o.errorCode])
    /\ UNCHANGED <<called, others, settled, finishes, tableVars, eventVars, collecting>>

\* A history of the subscribers of whom a request has failed.
Refused(s, o) == refused' = IF o.errorCode = 0 THEN refused ELSE refused \cup {s}

ExecuteSubscribe(c) ==
    LET s == c.subscriber IN
    /\ Executing(c, "subscribe")
    /\ callbackRef' = [callbackRef EXCEPT ![s] = c.id]
    /\ \E o \in Outcomes :
           /\ Advance(c, [at |-> "done", errorCode |-> o.errorCode])
           /\ subscribed' = IF o.done THEN subscribed \cup {s} ELSE subscribed
           /\ Refused(s, o)
    /\ UNCHANGED <<called, others, settled, finishes, created, subscriberInstances, gone, eventVars,
                   collecting, resultVars>>

\* Stop waits for the callback; what has not been taken from the queue is lost.
Stoppable(s) == running[s].at \in {"idle", "taken"}

\* The client library stops the listener only when it is told that the service
\* has unsubscribed it.
UnSubscribeCommonEvent(s, o) ==
    /\ subscribed' = IF o.done THEN subscribed \ {s} ELSE subscribed
    /\ IF o.errorCode = 0 THEN Stoppable(s) /\ arriving' = [arriving EXCEPT ![s] = <<>>]
       ELSE UNCHANGED arriving
    /\ Refused(s, o)

ExecuteUnsubscribe(c) ==
    /\ Executing(c, "unsubscribe")
    /\ \E o \in Outcomes :
           /\ UnSubscribeCommonEvent(c.subscriber, o)
           /\ Advance(c, [at |-> "done", errorCode |-> o.errorCode])
    /\ UNCHANGED <<called, others, settled, finishes, created, subscriberInstances, callbackRef, gone,
                   running, own, loop, sent, seen, collecting, resultVars>>

Execute(c) ==
    \/ ExecuteOther(c) \/ ExecuteGet(c) \/ ExecuteSet(c) \/ ExecuteFinish(c) \/ ExecuteAnswer(c)
    \/ ExecuteSubscribe(c) \/ ExecuteUnsubscribe(c)

-----------------------------------------------------------------------------
(* Completion on the JavaScript thread *)

WithEntry(s, entry) ==
    [q \in DOMAIN subscriberInstances \cup {s} |-> IF q = s THEN entry ELSE subscriberInstances[q]]

WithoutEntry(s) == Restrict(subscriberInstances, DOMAIN subscriberInstances \ {s})

\* Mutant: unsubscribing keeps the entry.
EntriesOnlyGrow(c) ==
    IF c.function = "subscribe" /\ c.errorCode = 0
    THEN WithEntry(c.subscriber, [callbacks |-> {c.id}, commonEventResult |-> None])
    ELSE subscriberInstances

\* What completing a call does to the table.  NapiDeleteSubscribe takes the
\* entry whether the library has unsubscribed or not.
EntriesAfter(c) ==
    LET s == c.subscriber IN
    CASE c.function = "subscribe" /\ c.errorCode = 0 ->
             WithEntry(s, [callbacks |-> {c.id}, commonEventResult |-> None])
      [] c.function = "unsubscribe" -> WithoutEntry(s)
      [] OTHER -> subscriberInstances

Complete(c) ==
    /\ c \in infos /\ c.at = "done" /\ collecting = None
    /\ infos' = infos \ {c}
    /\ created' = IF c.function = "create" /\ c.errorCode = 0 THEN created \cup {c.subscriber} ELSE created
    /\ subscriberInstances' = EntriesAfter(c)
    /\ settled' = IF c.function # "finish" THEN settled ELSE settled \cup
           {[subscriber |-> c.subscriber, about |-> c.about, errorCode |-> c.errorCode]}
    /\ UNCHANGED <<called, others, finishes, subscribed, callbackRef, gone, refused, eventVars, collecting,
                   resultVars>>

\* The finalizer of the object holds subscriberInsMutex while it unsubscribes.
Collect(s) ==
    /\ collecting = None /\ s \in (created \cap Collectable)
    /\ ~\E c \in infos : c.subscriber = s
    /\ created' = created \ {s} /\ gone' = gone \cup {s}
    /\ collecting' = IF s \in DOMAIN subscriberInstances THEN s ELSE None
    /\ UNCHANGED <<callVars, subscribed, subscriberInstances, callbackRef, refused, eventVars, resultVars>>

\* It does not look at the outcome.
Collected ==
    LET s == collecting IN
    /\ s # None
    /\ \E o \in Outcomes : UnSubscribeCommonEvent(s, o)
    /\ subscriberInstances' = WithoutEntry(s)
    /\ collecting' = None
    /\ UNCHANGED <<callVars, created, callbackRef, gone, running, own, loop, sent, seen, resultVars>>

-----------------------------------------------------------------------------
(* Events *)

\* The service waits for the answer of an ordered event, and gives up one that
\* is lost, before it sends the subscriber the next one.
SendEvent(e) ==
    LET s == For[e] IN
    /\ s \in subscribed /\ e \notin sent
    /\ e \in Ordered => \A q \in sent \cap Ordered : For[q] = s => answers[q] > 0 \/ q \in lost
    /\ sent' = sent \cup {e}
    /\ arriving' = [arriving EXCEPT ![s] = Append(@, e)]
    /\ UNCHANGED <<callVars, tableVars, running, own, loop, seen, collecting, resultVars>>

TakeEvent(s) ==
    /\ running[s] = Idle /\ arriving[s] # <<>>
    /\ running' = [running EXCEPT ![s] = [at |-> "taken", event |-> Head(arriving[s])]]
    /\ arriving' = [arriving EXCEPT ![s] = Tail(@)]
    /\ UNCHANGED <<callVars, tableVars, own, loop, sent, seen, collecting, resultVars>>

\* The listener sets result_; OnReceiveEvent copies env_ and ref_.
OnReceiveEvent(s) ==
    LET e == running[s].event IN
    /\ running[s].at = "taken"
    /\ own' = [own EXCEPT ![s] = e]
    /\ running' = [running EXCEPT ![s] =
           [at |-> IF e \in Ordered THEN "ordered" ELSE "queue", event |-> e, ref |-> callbackRef[s]]]
    /\ UNCHANGED <<callVars, tableVars, arriving, loop, sent, seen, collecting, resultVars>>

\* Mutant: the entry's result stays the subscriber's too.
HandOverCopy(s) ==
    /\ running[s].at = "ordered" /\ collecting = None
    /\ subscriberInstances' =
           IF s \in DOMAIN subscriberInstances
           THEN [subscriberInstances EXCEPT ![s].commonEventResult = own[s]] ELSE subscriberInstances
    /\ running' = [running EXCEPT ![s].at = "queue"]
    /\ UNCHANGED <<callVars, created, subscribed, callbackRef, gone, refused, arriving, own, loop, sent, seen,
                   collecting, resultVars>>

\* Under subscriberInsMutex: the entry, if there is one by now, gets the result.
HandOver(s) ==
    /\ running[s].at = "ordered" /\ collecting = None
    /\ IF s \in DOMAIN subscriberInstances
       THEN /\ subscriberInstances' = [subscriberInstances EXCEPT ![s].commonEventResult = own[s]]
            /\ own' = [own EXCEPT ![s] = None]
       ELSE UNCHANGED <<subscriberInstances, own>>
    /\ running' = [running EXCEPT ![s].at = "queue"]
    /\ UNCHANGED <<callVars, created, subscribed, callbackRef, gone, refused, arriving, loop, sent, seen,
                   collecting, resultVars>>

QueueWork(s) ==
    /\ running[s].at = "queue"
    /\ loop' = loop \cup {[subscriber |-> s, event |-> running[s].event, ref |-> running[s].ref]}
    /\ running' = [running EXCEPT ![s].at = "queued"]
    /\ UNCHANGED <<callVars, tableVars, arriving, own, sent, seen, collecting, resultVars>>

\* Mutant: the listener leaves the answer to the application.
LeaveToApplication(s) ==
    /\ running[s].at = "queued"
    /\ running' = [running EXCEPT ![s] = Idle]
    /\ UNCHANGED <<callVars, tableVars, arriving, own, loop, sent, seen, collecting, resultVars>>

\* Back in the listener: a result that is still the subscriber's is finished.
EndReceive(s) ==
    LET e == running[s].event IN
    /\ running[s].at = "queued"
    /\ IF e \in Ordered /\ own[s] = e /\ ~result[e].finished
       THEN \E o \in Outcomes : Finish(e, o.done)
       ELSE UNCHANGED resultVars
    /\ running' = [running EXCEPT ![s] = Idle]
    /\ UNCHANGED <<callVars, tableVars, arriving, own, loop, sent, seen, collecting>>

RunnerStep(s) == TakeEvent(s) \/ OnReceiveEvent(s) \/ HandOver(s) \/ QueueWork(s) \/ EndReceive(s)

\* A callback whose reference has been deleted may be called or not.
RefAlive(w) ==
    \/ \E c \in infos : c.id = w.ref
    \/ w.subscriber \in DOMAIN subscriberInstances /\ w.ref \in subscriberInstances[w.subscriber].callbacks

UvQueueWorkOnReceiveEvent(w) ==
    /\ w \in loop /\ collecting = None
    /\ loop' = loop \ {w}
    /\ \/ seen' = [seen EXCEPT ![w.subscriber] = Append(@, w.event)]
       \/ ~RefAlive(w) /\ UNCHANGED seen
    /\ UNCHANGED <<callVars, tableVars, arriving, running, own, sent, collecting, resultVars>>

-----------------------------------------------------------------------------

Calls ==
    \/ Publish \/ PublishAsUser
    \/ \E s \in Subscribers :
           \/ CreateSubscriber(s) \/ Subscribe(s) \/ Unsubscribe(s)
           \/ GetSubscribeInfo(s) \/ IsOrderedCommonEvent(s) \/ IsStickyCommonEvent(s)
           \/ GetCode(s) \/ GetData(s) \/ GetAbortCommonEvent(s)
           \/ AbortCommonEvent(s) \/ ClearAbortCommonEvent(s)
           \/ \E code \in Codes : SetCode(s, code) \/ SetData(s, code) \/ SetCodeAndData(s, code)

\* Everything that does not wait for somebody to want it; applications finish
\* the ordered events they are called with.
Work ==
    \/ \E c \in infos : Execute(c) \/ Complete(c)
    \/ \E s \in Subscribers : RunnerStep(s) \/ FinishCommonEvent(s)
    \/ \E w \in loop : UvQueueWorkOnReceiveEvent(w)
    \/ Collected

Next ==
    \/ Work \/ Calls
    \/ \E e \in Events : SendEvent(e)
    \/ \E s \in Subscribers : Collect(s)

Spec == Init /\ [][Next]_vars
FairSpec == Spec /\ WF_vars(Work)
-----------------------------------------------------------------------------
(* Properties *)

\* Ordered events of e's subscriber, other than e, that were finished.
OthersFinished(e) == {f \in finishes \ {e} : For[f] = For[e]}

\* The service is answered once for an ordered event, be it by the listener,
\* because the event came before the entry, or by the application.  Only the
\* finish of another event, which comes so late that it finds the result of
\* this one, may pass the unlocked test of finished_ with it and answer again.
AnsweredOnce ==
    \A e \in Events :
        answers[e] <= IF e \in Ordered THEN 1 + Cardinality(OthersFinished(e)) ELSE 0

\* A finish that was reported as done has had its event answered, or the
\* listener is about to, unless the subscriber has been unsubscribed or the
\* listener's own answer was lost.
FinishedIsAnswered ==
    \A c \in settled : c.errorCode = 0 =>
        \/ answers[c.about] > 0 \/ c.about \in lost
        \/ running[c.subscriber].at # "idle" /\ running[c.subscriber].event = c.about
        \/ c.subscriber \in gone

\* Between calls, whoever has an entry in the bindings has a listener at the
\* service; and whoever has a listener has an entry, unless a request about it
\* has failed, be it a call's or the finalizer's.
EntriesAgree ==
    \A s \in Subscribers :
        \/ \E c \in infos : c.subscriber = s
        \/ /\ s \in DOMAIN subscriberInstances => s \in subscribed
           /\ s \in subscribed => s \in DOMAIN subscriberInstances \cup refused

\* Every call settles, every event gets through to the callback, and every
\* ordered event whose answer is not lost or overtaken by its unsubscription is
\* answered.
EverythingSettles ==
    []<>(/\ infos = {} /\ loop = {} /\ collecting = None
         /\ \A s \in Subscribers : running[s] = Idle
         /\ \A e \in Ordered : e \in sent => answers[e] > 0 \/ e \in lost \/ For[e] \in gone)
=============================================================================
