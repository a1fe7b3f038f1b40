------------------------ MODULE JsSubscribersProofs ------------------------
(***************************************************************************)
(* Theorems about JsSubscribers: the table of the bindings and the service *)
(* agree, and what becomes of the answer to an ordered event.              *)
(***************************************************************************)
EXTENDS JsSubscribers, FiniteSetTheorems, TLAPS

\* A call that has not completed is a record of these fields.
Fields == {"id", "function", "subscriber", "argument", "about", "at", "errorCode", "value"}

CallOK(c) ==
    /\ DOMAIN c = Fields
    /\ c.at \in {"queued", "finishing", "done"}
    /\ c.at = "finishing" => c.function = "finish"
    /\ c.function \in Setters => "finished" \notin DOMAIN c.argument
    /\ c.function \notin Publishers => c.subscriber \in Subscribers

RunningOK(s, r) ==
    \/ r = Idle
    \/ r.at = "taken" /\ r.event \in Events /\ For[r.event] = s
    \/ /\ DOMAIN r = {"at", "event", "ref"}
       /\ r.at \in {"ordered", "queue", "queued"} /\ r.event \in Events /\ For[r.event] = s
       /\ r.at = "ordered" => r.event \in Ordered

\* An answer of e has been sent, whether it arrived or not.
Tried(e) == answers[e] > 0 \/ e \in lost

\* What each variable holds, as far as the invariants below need it.
ShapeInv ==
    /\ \A c \in infos : CallOK(c)
    /\ DOMAIN running = Subscribers /\ \A s \in Subscribers : RunningOK(s, running[s])
    /\ arriving \in [Subscribers -> Seq(Events)] /\ seen \in [Subscribers -> Seq(Events)]
    /\ own \in [Subscribers -> Events \cup {None}]
    /\ answers \in [Events -> Nat] /\ DOMAIN result = Events
    /\ \A e \in Events :
           /\ "finished" \in DOMAIN result[e] /\ result[e].finished \in BOOLEAN
           /\ result[e].finished <=> Tried(e)
    /\ DOMAIN subscriberInstances \subseteq Subscribers
    /\ \A s \in DOMAIN subscriberInstances :
           DOMAIN subscriberInstances[s] = {"callbacks", "commonEventResult"}
    /\ sent \subseteq Events /\ collecting \in Subscribers \cup {None}

-----------------------------------------------------------------------------
(* Who subscribes: the table of the bindings and the service *)

IsCall(c, function, s) == c \in infos /\ c.function = function /\ c.subscriber = s

\* One subscription of an object, for which there is no entry yet, and one
\* unsubscription, of an object that has been subscribed; nothing of an object
\* that is being collected.
CallsInv ==
    /\ \A c, d : \A s \in Subscribers :
           /\ IsCall(c, "subscribe", s) /\ IsCall(d, "subscribe", s) => c = d
           /\ IsCall(c, "unsubscribe", s) /\ IsCall(d, "unsubscribe", s) => c = d
           /\ ~(IsCall(c, "subscribe", s) /\ IsCall(d, "unsubscribe", s))
    /\ \A c : \A s \in Subscribers : IsCall(c, "subscribe", s) =>
           /\ s \notin DOMAIN subscriberInstances
           /\ c.at = "done" => IF c.errorCode = 0 THEN s \in subscribed ELSE s \in refused
    /\ \A c : \A s \in Subscribers : IsCall(c, "unsubscribe", s) =>
           /\ s \in gone
           /\ c.at = "done" => IF c.errorCode = 0 THEN s \notin subscribed ELSE s \in refused
    /\ collecting # None => collecting \in gone /\ \A c \in infos : c.subscriber # collecting

\* An object that has a listener or an entry has been subscribed, and will not
\* be again.
RefInv ==
    /\ called \in Nat /\ others \in Nat /\ \A c \in infos : c.id \in Nat
    /\ DOMAIN callbackRef = Subscribers
    /\ \A s \in Subscribers : s \in subscribed \cup DOMAIN subscriberInstances => callbackRef[s] # None

\* A call is under way that makes them differ.
Settling(s) == \E c : IsCall(c, "subscribe", s) \/ IsCall(c, "unsubscribe", s)

Agrees(s) ==
    /\ s \in DOMAIN subscriberInstances => s \in subscribed
    /\ s \in subscribed => s \in DOMAIN subscriberInstances \cup refused

AgreeInv == \A s \in Subscribers : Settling(s) \/ Agrees(s)

-----------------------------------------------------------------------------
(* Where an event is *)

Arriving(e) == \E i \in 1..Len(arriving[For[e]]) : arriving[For[e]][i] = e

\* The listener has yet to look for the entry.
Pending(e) ==
    \/ Arriving(e)
    \/ running[For[e]].at \in {"taken", "ordered"} /\ running[For[e]].event = e

Past(e) == e \in sent /\ ~Pending(e)

Held(s, e) == s \in DOMAIN subscriberInstances /\ subscriberInstances[s].commonEventResult = e

\* An event is sent once and is in one place.
PlacesInv ==
    \A s \in Subscribers :
        /\ \A i \in 1..Len(arriving[s]) : arriving[s][i] \in sent /\ For[arriving[s][i]] = s
        /\ \A i, j \in 1..Len(arriving[s]) : arriving[s][i] = arriving[s][j] => i = j
        /\ running[s] # Idle =>
               running[s].event \in sent /\ \A i \in 1..Len(arriving[s]) : arriving[s][i] # running[s].event

\* Only an event that has come through is in anybody's hands: ...
OwnPast ==
    \A s \in Subscribers :
        /\ own[s] # None =>
               own[s] \in sent /\ For[own[s]] = s /\ (running[s].at # "ordered" => ~Pending(own[s]))
        /\ running[s].at = "ordered" => own[s] = running[s].event

\* ... those of the functions that look for the entry, ...
HeldPast ==
    \A s \in Subscribers : \A e : Held(s, e) => e = None \/ (e \in Ordered /\ For[e] = s /\ Past(e))

\* ... of a finish, ...
FinishingPast ==
    \A c \in infos : c.at = "finishing" =>
        c.argument \in Ordered /\ For[c.argument] = c.subscriber /\ Past(c.argument)

\* ... on the way to the callback or seen by it, ...
LoopPast == \A w \in loop : w.subscriber \in Subscribers /\ For[w.event] = w.subscriber /\ Past(w.event)
SeenPast == \A s \in Subscribers : \A i \in 1..Len(seen[s]) : For[seen[s][i]] = s /\ Past(seen[s][i])

\* ... or answered.
AnsweredPast == \A e \in Events : Tried(e) => e \in Ordered /\ Past(e)

PastInv == OwnPast /\ HeldPast /\ FinishingPast /\ LoopPast /\ SeenPast /\ AnsweredPast

\* The service waits for an answer.
TurnInv ==
    \A e, f \in sent \cap Ordered : For[e] = For[f] /\ ~Tried(e) /\ ~Tried(f) => e = f

\* The listener will find e to be the subscriber's own.
AtListener(e) ==
    LET s == For[e] IN
    running[s].at \in {"queue", "queued"} /\ running[s].event = e /\ own[s] = e

\* Until it is answered an ordered event is pending, or its result is in one place.
ResultInv ==
    \A e \in sent \cap Ordered :
        Tried(e) \/ For[e] \in gone \/ Pending(e) \/ AtListener(e) \/ Held(For[e], e)

OwnInv ==
    \A s \in Subscribers : own[s] # None =>
        /\ ~Held(s, own[s])
        /\ \A c \in infos : c.at = "finishing" => c.argument # own[s]

-----------------------------------------------------------------------------
(* What becomes of a finish *)

IsFinish(c, e) == c \in infos /\ c.function = "finish" /\ c.about = e

\* Each event is finished once, by the subscriber that has seen it.
FinishInv ==
    /\ IsFiniteSet(finishes)
    /\ \A c, d, e : IsFinish(c, e) /\ IsFinish(d, e) => c = d
    /\ \A c \in infos : c.function = "finish" =>
           /\ c.about \in finishes /\ For[c.about] = c.subscriber
    /\ \A e \in finishes : e \in Events \cap Ordered /\ Past(e)

\* An answer of e has been sent, will be by its listener, or its subscriber has been unsubscribed.
Sure(e) == Tried(e) \/ For[e] \in gone \/ AtListener(e)

SureInv ==
    /\ \A c \in infos : c.function = "finish" =>
           /\ c.at = "finishing" => c.argument = c.about \/ Sure(c.about)
           /\ c.at = "done" /\ c.errorCode = 0 => Sure(c.about)
    /\ \A c \in settled : c.errorCode = 0 =>
           c.about \in Events \cap Ordered /\ For[c.about] = c.subscriber /\ Sure(c.about)

\* The finish of e has been executed.
Executed(e) == e \in finishes /\ \A c : IsFinish(c, e) => c.at = "done"

LateFor(e) == {f \in OthersFinished(e) : Executed(f)}

\* A finish may yet answer e.
Answerable(e) == Held(For[e], e) \/ \E c \in infos : c.at = "finishing" /\ c.argument = e

\* Each finish answers once, and the listener only what no finish can reach.
AnswerInv ==
    \A e \in Events :
        /\ answers[e] <= Cardinality(LateFor(e)) + 1
        /\ Answerable(e) /\ ~Executed(e) => answers[e] <= Cardinality(LateFor(e))

-----------------------------------------------------------------------------
(* What the operators of the model do *)

\* A call goes on as d.
Moves(c, d) ==
    /\ c \in infos /\ infos' = (infos \ {c}) \cup {d}
    /\ DOMAIN d = Fields
    /\ d.id = c.id /\ d.function = c.function /\ d.subscriber = c.subscriber /\ d.about = c.about

USE DEF Tried

LEMMA ExecutedPlainly ==
    ASSUME NEW c \in infos, CallOK(c), Advance(c, [at |-> "done"])
    PROVE  \E d : Moves(c, d) /\ d.at = "done" /\ d.argument = c.argument /\ d.errorCode = c.errorCode
<1> DEFINE m == [at |-> "done"]
           d == Updated(c, m)
<1>1. DOMAIN m = {"at"} /\ m["at"] = "done"
  OBVIOUS
<1> HIDE DEF m
<1>2. d = [x \in Fields |-> IF x \in {"at"} THEN m[x] ELSE c[x]]
  BY <1>1 DEF Updated, CallOK
<1>3. infos' = (infos \ {c}) \cup {d}
  BY DEF Advance, m
<1> HIDE DEF d
<1> QED
  BY <1>1, <1>2, <1>3 DEF Moves, Fields

LEMMA ExecutedWithError ==
    ASSUME NEW c \in infos, CallOK(c), NEW error, Advance(c, [at |-> "done", errorCode |-> error])
    PROVE  \E d : Moves(c, d) /\ d.at = "done" /\ d.argument = c.argument /\ d.errorCode = error
<1> DEFINE m == [at |-> "done", errorCode |-> error]
           d == Updated(c, m)
<1>1. DOMAIN m = {"at", "errorCode"} /\ m["at"] = "done" /\ m["errorCode"] = error
  OBVIOUS
<1>3. infos' = (infos \ {c}) \cup {d}
  BY DEF Advance
<1> HIDE DEF m
<1>2. d = [x \in Fields |-> IF x \in {"at", "errorCode"} THEN m[x] ELSE c[x]]
  BY <1>1 DEF Updated, CallOK
<1> HIDE DEF d
<1> QED
  BY <1>1, <1>2, <1>3 DEF Moves, Fields

LEMMA ExecutedWithValue ==
    ASSUME NEW c \in infos, CallOK(c), NEW value, Advance(c, [at |-> "done", value |-> value])
    PROVE  \E d : Moves(c, d) /\ d.at = "done" /\ d.argument = c.argument /\ d.errorCode = c.errorCode
<1> DEFINE m == [at |-> "done", value |-> value]
           d == Updated(c, m)
<1>1. DOMAIN m = {"at", "value"} /\ m["at"] = "done" /\ m["value"] = value
  OBVIOUS
<1>3. infos' = (infos \ {c}) \cup {d}
  BY DEF Advance
<1> HIDE DEF m
<1>2. d = [x \in Fields |-> IF x \in {"at", "value"} THEN m[x] ELSE c[x]]
  BY <1>1 DEF Updated, CallOK
<1> HIDE DEF d
<1> QED
  BY <1>1, <1>2, <1>3 DEF Moves, Fields

LEMMA FoundUnfinished ==
    ASSUME NEW c \in infos, CallOK(c), NEW r, Advance(c, [at |-> "finishing", argument |-> r])
    PROVE  \E d : Moves(c, d) /\ d.at = "finishing" /\ d.argument = r
<1> DEFINE m == [at |-> "finishing", argument |-> r]
           d == Updated(c, m)
<1>1. DOMAIN m = {"at", "argument"} /\ m["at"] = "finishing" /\ m["argument"] = r
  OBVIOUS
<1>3. infos' = (infos \ {c}) \cup {d}
  BY DEF Advance
<1> HIDE DEF m
<1>2. d = [x \in Fields |-> IF x \in {"at", "argument"} THEN m[x] ELSE c[x]]
  BY <1>1 DEF Updated, CallOK
<1> HIDE DEF d
<1> QED
  BY <1>1, <1>2, <1>3 DEF Moves, Fields

-----------------------------------------------------------------------------
(* The steps, one by one, as the invariants see them *)

\* What the delivery of events works on.
deliveryVars == <<arriving, running, own, loop, sent, seen>>

LEMMA QueueAdds ==
    ASSUME NEW function, NEW s, NEW argument, Queue(function, s, argument)
    PROVE  /\ collecting = None
           /\ \E c : /\ infos' = infos \cup {c} /\ DOMAIN c = Fields /\ c.at = "queued"
                     /\ c.function = function /\ c.subscriber = s /\ c.argument = argument
           /\ UNCHANGED <<settled, finishes, created, subscribed, refused, subscriberInstances, callbackRef,
                          deliveryVars, collecting, answers, lost, result>>
<1> DEFINE c == Info(called' + others', function, s, argument, Latest(s))
<1>1. infos' = infos \cup {c}
  BY DEF Queue
<1>2. DOMAIN c = Fields /\ c.at = "queued" /\ c.function = function /\ c.subscriber = s /\ c.argument = argument
  BY DEF Info, Fields
<1>3. UNCHANGED <<settled, finishes, created, subscribed, refused, subscriberInstances, callbackRef,
                  deliveryVars, collecting, answers, lost, result>>
  BY DEF Queue, eventVars, deliveryVars, resultVars
<1> HIDE DEF c
<1> QED
  BY <1>1, <1>2, <1>3 DEF Queue

\* Functions of a subscriber that change neither its subscription nor an answer.
Ordinary == Getters \cup Setters \cup Publishers \cup {"create", "getSubscribeInfo"}

\* A call is queued, or is an unsubscription before there is an entry.
Queued(c) ==
    /\ infos' = infos \cup {c} /\ DOMAIN c = Fields /\ c.at = "queued" /\ collecting = None
    /\ c.function \in Setters => "finished" \notin DOMAIN c.argument
    /\ c.function \notin Publishers => c.subscriber \in Subscribers
    /\ \/ c.function \in Ordinary
       \/ /\ c.function = "subscribe" /\ c.subscriber \notin gone /\ callbackRef[c.subscriber] = None
          /\ \A d \in infos : ~(d.function = "subscribe" /\ d.subscriber = c.subscriber)
       \/ /\ c.function = "unsubscribe" /\ c.subscriber \in DOMAIN subscriberInstances
          /\ c.subscriber \notin gone /\ c.subscriber \in gone'

LEMMA CallsQueue ==
    ASSUME Calls
    PROVE  /\ UNCHANGED <<settled, finishes, subscribed, refused, subscriberInstances,
                          deliveryVars, collecting, answers, lost, result>>
           /\ gone \subseteq gone' /\ gone' \subseteq gone \cup Subscribers
           /\ infos' = infos \/ \E c : Queued(c)
<1>0. /\ \A x \in Setters : x \notin Publishers /\ x \in Ordinary
      /\ \A x \in Getters \cup Publishers \cup {"create", "getSubscribeInfo"} : x \notin Setters /\ x \in Ordinary
      /\ "subscribe" \notin Setters /\ "unsubscribe" \notin Setters
  BY DEF Setters, Publishers, Getters, Ordinary
<1>1. ASSUME NEW function \in Publishers, Queue(function, None, None), UNCHANGED gone
      PROVE  /\ UNCHANGED <<settled, finishes, subscribed, refused, subscriberInstances,
                            deliveryVars, collecting, answers, lost, result>>
             /\ \E c : Queued(c)
  BY <1>0, <1>1, QueueAdds DEF Queued
<1>2. ASSUME NEW function \in Ordinary, NEW s \in Subscribers, NEW argument,
             function \in Setters => "finished" \notin DOMAIN argument,
             Queue(function, s, argument), UNCHANGED gone
      PROVE  /\ UNCHANGED <<settled, finishes, subscribed, refused, subscriberInstances,
                            deliveryVars, collecting, answers, lost, result>>
             /\ \E c : Queued(c)
  BY <1>2, QueueAdds DEF Queued
<1>3. CASE Publish \/ PublishAsUser
  <2>1. "publish" \in Publishers /\ "publishAsUser" \in Publishers
    BY DEF Publishers
  <2> QED
    BY <1>1, <1>3, <2>1 DEF Publish, PublishAsUser
<1>4. ASSUME NEW s \in Subscribers, CreateSubscriber(s)
      PROVE  /\ UNCHANGED <<settled, finishes, subscribed, refused, subscriberInstances, gone,
                            deliveryVars, collecting, answers, lost, result>>
             /\ \E c : Queued(c)
  BY <1>0, <1>2, <1>4 DEF CreateSubscriber
<1>5. ASSUME NEW s \in Subscribers, NEW function \in Getters \cup {"getSubscribeInfo"}, Call(function, s, None)
      PROVE  /\ UNCHANGED <<settled, finishes, subscribed, refused, subscriberInstances, gone,
                            deliveryVars, collecting, answers, lost, result>>
             /\ \E c : Queued(c)
  BY <1>0, <1>2, <1>5 DEF Call
<1>6. ASSUME NEW s \in Subscribers, NEW function \in Setters, NEW argument,
             "finished" \notin DOMAIN argument, Call(function, s, argument)
      PROVE  /\ UNCHANGED <<settled, finishes, subscribed, refused, subscriberInstances, gone,
                            deliveryVars, collecting, answers, lost, result>>
             /\ \E c : Queued(c)
  BY <1>0, <1>2, <1>6 DEF Call
<1>7. ASSUME NEW s \in Subscribers,
             \/ GetSubscribeInfo(s) \/ IsOrderedCommonEvent(s) \/ IsStickyCommonEvent(s)
             \/ GetCode(s) \/ GetData(s) \/ GetAbortCommonEvent(s)
      PROVE  /\ UNCHANGED <<settled, finishes, subscribed, refused, subscriberInstances, gone,
                            deliveryVars, collecting, answers, lost, result>>
             /\ \E c : Queued(c)
  <2>1. /\ "isOrdered" \in Getters /\ "isSticky" \in Getters /\ "getCode" \in Getters
        /\ "getData" \in Getters /\ "getAbort" \in Getters
    BY DEF Getters
  <2> QED
    BY <1>5, <1>7, <2>1 DEF GetSubscribeInfo, IsOrderedCommonEvent, IsStickyCommonEvent, GetCode, GetData,
        GetAbortCommonEvent
<1>8. ASSUME NEW s \in Subscribers, NEW code,
             \/ SetCode(s, code) \/ SetData(s, code) \/ SetCodeAndData(s, code)
             \/ AbortCommonEvent(s) \/ ClearAbortCommonEvent(s)
      PROVE  /\ UNCHANGED <<settled, finishes, subscribed, refused, subscriberInstances, gone,
                            deliveryVars, collecting, answers, lost, result>>
             /\ \E c : Queued(c)
  <2>1. /\ "setCode" \in Setters /\ "setData" \in Setters /\ "setCodeAndData" \in Setters
        /\ "abort" \in Setters /\ "clearAbort" \in Setters
    BY DEF Setters
  <2>2. /\ "finished" \notin DOMAIN [code |-> code] /\ "finished" \notin DOMAIN [data |-> code]
        /\ "finished" \notin DOMAIN [code |-> code, data |-> code]
        /\ "finished" \notin DOMAIN [abort |-> TRUE] /\ "finished" \notin DOMAIN [abort |-> FALSE]
    OBVIOUS
  <2> QED
    BY <1>6, <1>8, <2>1, <2>2 DEF SetCode, SetData, SetCodeAndData, AbortCommonEvent, ClearAbortCommonEvent
<1>9. ASSUME NEW s \in Subscribers, Subscribe(s)
      PROVE  /\ UNCHANGED <<settled, finishes, subscribed, refused, subscriberInstances, gone,
                            deliveryVars, collecting, answers, lost, result>>
             /\ \E c : Queued(c)
  BY <1>0, <1>9, QueueAdds DEF Subscribe, Call, Calling, Queued
<1>10. ASSUME NEW s \in Subscribers, Unsubscribe(s)
      PROVE  /\ UNCHANGED <<settled, finishes, subscribed, refused, subscriberInstances,
                            deliveryVars, collecting, answers, lost, result>>
             /\ gone' = gone \cup {s}
             /\ infos' = infos \/ \E c : Queued(c)
  <2>1. CASE s \in DOMAIN subscriberInstances
    <3>1. s \notin gone /\ gone' = gone \cup {s} /\ Queue("unsubscribe", s, None)
      BY <1>10, <2>1 DEF Unsubscribe
    <3> QED
      BY <1>0, <2>1, <3>1, QueueAdds DEF Queued
  <2>2. CASE s \notin DOMAIN subscriberInstances
    BY <1>10, <2>2 DEF Unsubscribe, callVars, eventVars, deliveryVars, resultVars
  <2> QED
    BY <2>1, <2>2
<1> QED
  BY <1>3, <1>4, <1>7, <1>8, <1>9, <1>10 DEF Calls

LEMMA PlainExecution ==
    ASSUME ShapeInv, NEW c \in infos, ExecuteOther(c) \/ ExecuteGet(c) \/ ExecuteSet(c)
    PROVE  /\ \E d : Moves(c, d) /\ d.at = "done" /\ d.argument = c.argument
           /\ c.at = "queued" /\ c.function \in Ordinary
           /\ UNCHANGED <<settled, finishes, subscribed, refused, subscriberInstances, gone,
                          deliveryVars, collecting, answers, lost>>
           /\ DOMAIN result' = Events
           /\ \A e \in Events : "finished" \in DOMAIN result'[e] /\ result'[e].finished = result[e].finished
<1>0. CallOK(c)
  BY DEF ShapeInv
<1>1. CASE ExecuteOther(c)
  <2>1. \E error : Advance(c, [at |-> "done", errorCode |-> error])
    BY <1>1 DEF ExecuteOther
  <2>2. c.at = "queued" /\ c.function \in Ordinary
    BY <1>1 DEF ExecuteOther, Executing, Ordinary
  <2>3. UNCHANGED <<settled, finishes, subscribed, refused, subscriberInstances, gone,
                    deliveryVars, collecting, answers, lost, result>>
    BY <1>1 DEF ExecuteOther, tableVars, eventVars, deliveryVars, resultVars
  <2> QED
    BY <1>0, <2>1, <2>2, <2>3, ExecutedWithError DEF ShapeInv
<1>2. CASE ExecuteGet(c)
  <2>1. \E value : Advance(c, [at |-> "done", value |-> value])
    BY <1>2 DEF ExecuteGet
  <2>2. c.at = "queued" /\ c.function \in Ordinary
    BY <1>2 DEF ExecuteGet, Executing, Ordinary
  <2>3. UNCHANGED <<settled, finishes, subscribed, refused, subscriberInstances, gone,
                    deliveryVars, collecting, answers, lost, result>>
    BY <1>2 DEF ExecuteGet, tableVars, eventVars, deliveryVars, resultVars
  <2> QED
    BY <1>0, <2>1, <2>2, <2>3, ExecutedWithValue DEF ShapeInv
<1>3. CASE ExecuteSet(c)
  <2> DEFINE r == AsyncResult(c.subscriber)
  <2>1. Advance(c, [at |-> "done"])
    BY <1>3 DEF ExecuteSet
  <2>2. c.at = "queued" /\ c.function \in Setters
    BY <1>3 DEF ExecuteSet, Executing
  <2>3. UNCHANGED <<settled, finishes, subscribed, refused, subscriberInstances, gone,
                    deliveryVars, collecting, answers, lost>>
    BY <1>3 DEF ExecuteSet, tableVars, eventVars, deliveryVars
  <2>4. result' = result \/ result' = [result EXCEPT ![r] = Updated(result[r], c.argument)]
    BY <1>3 DEF ExecuteSet
  <2>5. "finished" \notin DOMAIN c.argument
    BY <1>0, <2>2 DEF CallOK
  <2>6. ASSUME NEW e \in Events
        PROVE  /\ "finished" \in DOMAIN Updated(result[e], c.argument)
               /\ Updated(result[e], c.argument).finished = result[e].finished
    BY <2>5 DEF Updated, ShapeInv
  <2> HIDE DEF r
  <2>7. DOMAIN result' = Events
    BY <2>4 DEF ShapeInv
  <2>8. \A e \in Events : "finished" \in DOMAIN result'[e] /\ result'[e].finished = result[e].finished
    BY <2>4, <2>6 DEF ShapeInv
  <2> QED
    BY <1>0, <2>1, <2>2, <2>3, <2>7, <2>8, ExecutedPlainly DEF Ordinary
<1> QED
  BY <1>1, <1>2, <1>3

LEMMA FinishLooks ==
    ASSUME ShapeInv, NEW c \in infos, ExecuteFinish(c)
    PROVE  /\ \E d : /\ Moves(c, d)
                     /\ \/ d.at = "done" /\ \A e \in Events : ~Held(c.subscriber, e)
                        \/ d.at = "done" /\ d.errorCode = 1
                        \/ d.at = "finishing" /\ d.argument # None /\ Held(c.subscriber, d.argument)
           /\ c.at = "queued" /\ c.function = "finish"
           /\ UNCHANGED <<settled, finishes, subscribed, refused, subscriberInstances, gone,
                          deliveryVars, collecting, answers, lost, result>>
<1> DEFINE r == AsyncResult(c.subscriber)
<1>0. CallOK(c)
  BY DEF ShapeInv
<1>1. \/ r = None /\ Advance(c, [at |-> "done"])
      \/ r # None /\ Advance(c, [at |-> "done", errorCode |-> 1])
      \/ r # None /\ Advance(c, [at |-> "finishing", argument |-> r])
  BY DEF ExecuteFinish
<1>2. r # None => Held(c.subscriber, r)
  BY DEF AsyncResult, Held
<1>3. r = None => \A e \in Events : ~Held(c.subscriber, e)
  BY JsAssumption DEF AsyncResult, Held
<1>4. c.at = "queued" /\ c.function = "finish"
  BY DEF ExecuteFinish, Executing
<1>5. UNCHANGED <<settled, finishes, subscribed, refused, subscriberInstances, gone,
                  deliveryVars, collecting, answers, lost, result>>
  BY DEF ExecuteFinish, tableVars, eventVars, deliveryVars, resultVars
<1> HIDE DEF r
<1> QED
  BY <1>0, <1>1, <1>2, <1>3, <1>4, <1>5, ExecutedPlainly, ExecutedWithError, FoundUnfinished

LEMMA FinishAnswers ==
    ASSUME ShapeInv, NEW c \in infos, ExecuteAnswer(c)
    PROVE  /\ \E d : Moves(c, d) /\ d.at = "done"
           /\ c.at = "finishing" /\ c.function = "finish" /\ \E done \in BOOLEAN : Finish(c.argument, done)
           /\ UNCHANGED <<settled, finishes, subscribed, refused, subscriberInstances, gone,
                          deliveryVars, collecting>>
<1>0. CallOK(c)
  BY DEF ShapeInv
<1>1. PICK o \in Outcomes :
          Finish(c.argument, o.done) /\ Advance(c, [at |-> "done", errorCode |-> o.errorCode])
  BY DEF ExecuteAnswer
<1>4. c.at = "finishing" /\ o.done \in BOOLEAN
  BY DEF ExecuteAnswer, Outcomes
<1>2. c.function = "finish"
  BY <1>0, <1>4 DEF CallOK
<1>3. UNCHANGED <<settled, finishes, subscribed, refused, subscriberInstances, gone, deliveryVars, collecting>>
  BY DEF ExecuteAnswer, tableVars, eventVars, deliveryVars
<1> QED
  BY <1>0, <1>1, <1>2, <1>3, <1>4, ExecutedWithError

\* What may become of a request, as far as its error code tells.
LEMMA OutcomeFacts ==
    ASSUME NEW o \in Outcomes
    PROVE  o.done \in BOOLEAN /\ (o.errorCode = 0 => o.done = TRUE)
<1>1. o \in [done : {TRUE}, errorCode : {0}] \/ o \in [done : BOOLEAN, errorCode : {1}]
  BY DEF Outcomes
<1>2. CASE o \in [done : {TRUE}, errorCode : {0}]
  BY <1>2
<1>3. CASE o \in [done : BOOLEAN, errorCode : {1}]
  BY <1>3
<1> QED
  BY <1>1, <1>2, <1>3

LEMMA Subscribes ==
    ASSUME ShapeInv, NEW c \in infos, ExecuteSubscribe(c)
    PROVE  /\ \E d : /\ Moves(c, d) /\ d.at = "done"
                     /\ IF d.errorCode = 0
                        THEN subscribed' = subscribed \cup {c.subscriber} /\ refused' = refused
                        ELSE /\ subscribed' \in {subscribed, subscribed \cup {c.subscriber}}
                             /\ refused' = refused \cup {c.subscriber}
           /\ c.at = "queued" /\ c.function = "subscribe"
           /\ UNCHANGED <<settled, finishes, subscriberInstances, gone, deliveryVars, collecting, answers, lost, result>>
<1>0. CallOK(c)
  BY DEF ShapeInv
<1>1. PICK o \in Outcomes :
          /\ Advance(c, [at |-> "done", errorCode |-> o.errorCode])
          /\ subscribed' = IF o.done THEN subscribed \cup {c.subscriber} ELSE subscribed
          /\ Refused(c.subscriber, o)
  BY DEF ExecuteSubscribe
<1>2. c.at = "queued" /\ c.function = "subscribe"
  BY DEF ExecuteSubscribe, Executing
<1>3. UNCHANGED <<settled, finishes, subscriberInstances, gone, deliveryVars, collecting, answers, lost, result>>
  BY DEF ExecuteSubscribe, eventVars, deliveryVars, resultVars
<1>4. IF o.errorCode = 0
      THEN subscribed' = subscribed \cup {c.subscriber} /\ refused' = refused
      ELSE /\ subscribed' \in {subscribed, subscribed \cup {c.subscriber}}
           /\ refused' = refused \cup {c.subscriber}
  BY <1>1, OutcomeFacts DEF Refused
<1>5. PICK d : Moves(c, d) /\ d.at = "done" /\ d.errorCode = o.errorCode
  BY <1>0, <1>1, ExecutedWithError
<1> QED
  BY <1>2, <1>3, <1>4, <1>5

\* What the library does, by its answer, to the listener of s.
Unlistened(s, errorCode) ==
    IF errorCode = 0
    THEN /\ subscribed' = subscribed \ {s} /\ refused' = refused
         /\ arriving' = [arriving EXCEPT ![s] = <<>>]
    ELSE /\ subscribed' \in {subscribed, subscribed \ {s}} /\ refused' = refused \cup {s}
         /\ arriving' = arriving

LEMMA LibraryUnsubscribes ==
    ASSUME NEW s, NEW o \in Outcomes, UnSubscribeCommonEvent(s, o)
    PROVE  Unlistened(s, o.errorCode)
BY OutcomeFacts DEF UnSubscribeCommonEvent, Refused, Unlistened

LEMMA QueueKeptOrDropped ==
    ASSUME ShapeInv, NEW s \in Subscribers, NEW errorCode, Unlistened(s, errorCode)
    PROVE  /\ arriving' \in [Subscribers -> Seq(Events)]
           /\ \A q \in Subscribers : arriving'[q] = arriving[q] \/ arriving'[q] = <<>>
<1>1. arriving \in [Subscribers -> Seq(Events)] /\ <<>> \in Seq(Events)
  BY DEF ShapeInv
<1>2. arriving' = arriving \/ arriving' = [arriving EXCEPT ![s] = <<>>]
  BY DEF Unlistened
<1> QED
  BY <1>1, <1>2

LEMMA Unsubscribes ==
    ASSUME ShapeInv, NEW c \in infos, ExecuteUnsubscribe(c)
    PROVE  /\ \E d : Moves(c, d) /\ d.at = "done" /\ Unlistened(c.subscriber, d.errorCode)
           /\ c.at = "queued" /\ c.function = "unsubscribe"
           /\ UNCHANGED <<settled, finishes, subscriberInstances, gone, running, own, loop, sent, seen,
                          collecting, answers, lost, result>>
<1>0. CallOK(c)
  BY DEF ShapeInv
<1>1. PICK o \in Outcomes :
          /\ Advance(c, [at |-> "done", errorCode |-> o.errorCode])
          /\ UnSubscribeCommonEvent(c.subscriber, o)
  BY DEF ExecuteUnsubscribe
<1>2. c.at = "queued" /\ c.function = "unsubscribe"
  BY DEF ExecuteUnsubscribe, Executing
<1>3. UNCHANGED <<settled, finishes, subscriberInstances, gone, running, own, loop, sent, seen,
                  collecting, answers, lost, result>>
  BY DEF ExecuteUnsubscribe, resultVars
<1>4. PICK d : Moves(c, d) /\ d.at = "done" /\ d.errorCode = o.errorCode
  BY <1>0, <1>1, ExecutedWithError
<1> QED
  BY <1>1, <1>2, <1>3, <1>4, LibraryUnsubscribes

\* What completing a call does to the entries.
LEMMA Completes ==
    ASSUME ShapeInv, NEW c \in infos, Complete(c)
    PROVE  /\ infos' = infos \ {c} /\ c.at = "done" /\ collecting = None
           /\ UNCHANGED <<finishes, subscribed, refused, gone, deliveryVars, collecting, answers, lost, result>>
           /\ settled' = (IF c.function # "finish" THEN settled ELSE settled \cup
                  {[subscriber |-> c.subscriber, about |-> c.about, errorCode |-> c.errorCode]})
           /\ CASE c.function = "subscribe" /\ c.errorCode = 0 ->
                       subscriberInstances' = WithEntry(c.subscriber, [callbacks |-> {c.id}, commonEventResult |-> None])
                [] c.function = "unsubscribe" -> subscriberInstances' = WithoutEntry(c.subscriber)
                [] OTHER -> subscriberInstances' = subscriberInstances
<1>1. infos' = infos \ {c} /\ c.at = "done" /\ collecting = None
  BY DEF Complete
<1>2. UNCHANGED <<finishes, subscribed, refused, gone, deliveryVars, collecting, answers, lost, result>>
  BY DEF Complete, eventVars, deliveryVars, resultVars
<1>3. /\ subscriberInstances' = EntriesAfter(c)
      /\ settled' = (IF c.function # "finish" THEN settled ELSE settled \cup
             {[subscriber |-> c.subscriber, about |-> c.about, errorCode |-> c.errorCode]})
  BY DEF Complete
<1>4. CASE c.function = "subscribe" /\ c.errorCode = 0
  BY <1>1, <1>2, <1>3, <1>4 DEF EntriesAfter
<1>5. CASE c.function = "unsubscribe"
  BY <1>1, <1>2, <1>3, <1>5 DEF EntriesAfter
<1>6. CASE ~(c.function = "subscribe" /\ c.errorCode = 0) /\ c.function # "unsubscribe"
  BY <1>1, <1>2, <1>3, <1>6 DEF EntriesAfter
<1> QED
  BY <1>4, <1>5, <1>6

LEMMA EntryMade ==
    ASSUME ShapeInv, NEW s \in Subscribers, NEW ids,
           subscriberInstances' = WithEntry(s, [callbacks |-> ids, commonEventResult |-> None])
    PROVE  /\ DOMAIN subscriberInstances' = DOMAIN subscriberInstances \cup {s}
           /\ \A q \in DOMAIN subscriberInstances' :
                  DOMAIN subscriberInstances'[q] = {"callbacks", "commonEventResult"}
           /\ \A q, e : Held(q, e)' <=> IF q = s THEN e = None ELSE Held(q, e)
<1> DEFINE entry == [callbacks |-> ids, commonEventResult |-> None]
<1>1. DOMAIN entry = {"callbacks", "commonEventResult"} /\ entry.commonEventResult = None
  OBVIOUS
<1>2. subscriberInstances' = [q \in DOMAIN subscriberInstances \cup {s} |->
                                  IF q = s THEN entry ELSE subscriberInstances[q]]
  BY DEF WithEntry
<1> HIDE DEF entry
<1> QED
  BY <1>1, <1>2 DEF Held, ShapeInv

LEMMA EntryDropped ==
    ASSUME ShapeInv, NEW s, subscriberInstances' = WithoutEntry(s)
    PROVE  /\ DOMAIN subscriberInstances' = DOMAIN subscriberInstances \ {s}
           /\ \A q \in DOMAIN subscriberInstances' :
                  DOMAIN subscriberInstances'[q] = {"callbacks", "commonEventResult"}
           /\ \A q, e : Held(q, e)' <=> q # s /\ Held(q, e)
<1>1. subscriberInstances' = [q \in DOMAIN subscriberInstances \ {s} |-> subscriberInstances[q]]
  BY DEF WithoutEntry, Restrict
<1> QED
  BY <1>1 DEF Held, ShapeInv

LEMMA Finalizes ==
    ASSUME ShapeInv, Collected
    PROVE  /\ collecting \in Subscribers /\ collecting' = None
           /\ \E errorCode : Unlistened(collecting, errorCode)
           /\ subscriberInstances' = WithoutEntry(collecting)
           /\ UNCHANGED <<infos, settled, finishes, gone, running, own, loop, sent, seen, answers, lost, result>>
<1>1. \E o \in Outcomes : UnSubscribeCommonEvent(collecting, o)
  BY DEF Collected
<1>2. \E errorCode : Unlistened(collecting, errorCode)
  BY <1>1, LibraryUnsubscribes
<1> QED
  BY <1>2 DEF Collected, ShapeInv, callVars, resultVars

LEMMA Collects ==
    ASSUME NEW s \in Subscribers, Collect(s)
    PROVE  /\ collecting = None
           /\ gone' = gone \cup {s}
           /\ \A c \in infos : c.subscriber # s
           /\ IF s \in DOMAIN subscriberInstances THEN collecting' = s ELSE collecting' = None
           /\ UNCHANGED <<infos, settled, finishes, subscribed, refused, subscriberInstances, deliveryVars, answers, lost, result>>
BY DEF Collect, callVars, eventVars, deliveryVars, resultVars

\* A result is marked and its answer sent, or lost, together.
LEMMA FinishMarks ==
    ASSUME ShapeInv, NEW e \in Events, NEW done \in BOOLEAN, Finish(e, done)
    PROVE  /\ DOMAIN result' = Events
           /\ answers' \in [Events -> Nat]
           /\ answers'[e] \in {answers[e], answers[e] + 1} /\ Tried(e)'
           /\ \A f \in Events \ {e} : answers'[f] = answers[f] /\ (f \in lost' <=> f \in lost)
           /\ \A f \in Events :
                  /\ "finished" \in DOMAIN result'[f] /\ result'[f].finished \in BOOLEAN
                  /\ result'[f].finished <=> Tried(f)'
<1>1. /\ answers' = IF done THEN [answers EXCEPT ![e] = @ + 1] ELSE answers
      /\ lost' = IF done THEN lost ELSE lost \cup {e}
      /\ answers \in [Events -> Nat] /\ DOMAIN result = Events
  BY DEF Finish, ShapeInv
<1>2. /\ answers'[e] \in {answers[e], answers[e] + 1} /\ answers[e] \in Nat /\ Tried(e)'
      /\ \A f \in Events \ {e} : answers'[f] = answers[f] /\ (f \in lost' <=> f \in lost)
      /\ answers' \in [Events -> Nat]
  <2>1. CASE done = TRUE
    BY <1>1, <2>1
  <2>2. CASE done = FALSE
    BY <1>1, <2>2
  <2> QED
    BY <2>1, <2>2
<1>3. result' = [result EXCEPT ![e] = [result[e] EXCEPT !.finished = TRUE]]
  BY DEF Finish
<1>4. DOMAIN [result[e] EXCEPT !.finished = TRUE] = DOMAIN result[e]
  OBVIOUS
<1>5. "finished" \in DOMAIN result[e]
  BY DEF ShapeInv
<1>6. [result[e] EXCEPT !.finished = TRUE].finished = TRUE
  BY <1>5
<1>7. "finished" \in DOMAIN result'[e] /\ result'[e].finished = TRUE
  BY <1>1, <1>3, <1>4, <1>5, <1>6
<1>8. \A f \in Events \ {e} : result'[f] = result[f]
  BY <1>1, <1>3
<1>9. DOMAIN result' = Events
  BY <1>1, <1>3
<1> QED
  BY <1>2, <1>7, <1>8, <1>9 DEF ShapeInv

-----------------------------------------------------------------------------
(* The shape of the state *)

LEMMA CallMoves ==
    ASSUME ShapeInv, NEW c, NEW d, Moves(c, d), d.at \in {"done", "finishing"},
           d.at = "finishing" => c.function = "finish",
           d.argument = c.argument \/ c.function = "finish"
    PROVE  \A x \in infos' : CallOK(x)
<1>1. CallOK(c) /\ infos' = (infos \ {c}) \cup {d}
  BY DEF Moves, ShapeInv
<1>2. "finish" \notin Setters
  BY DEF Setters
<1>3. CallOK(d)
  BY <1>1, <1>2 DEF Moves, CallOK
<1> QED
  BY <1>1, <1>3 DEF ShapeInv

EntriesShape ==
    /\ DOMAIN subscriberInstances \subseteq Subscribers
    /\ \A s \in DOMAIN subscriberInstances :
           DOMAIN subscriberInstances[s] = {"callbacks", "commonEventResult"}

ResultsShape ==
    /\ answers \in [Events -> Nat] /\ DOMAIN result = Events
    /\ \A e \in Events :
           /\ "finished" \in DOMAIN result[e] /\ result[e].finished \in BOOLEAN
           /\ result[e].finished <=> Tried(e)

\* The calls' side of a step.
LEMMA ShapeOfCalls ==
    ASSUME ShapeInv, \A c \in infos' : CallOK(c), UNCHANGED <<running, seen, own, sent>>,
           arriving' \in [Subscribers -> Seq(Events)], collecting' \in Subscribers \cup {None},
           EntriesShape', ResultsShape'
    PROVE  ShapeInv'
BY DEF ShapeInv, EntriesShape, ResultsShape

LEMMA ShapeParts == ASSUME ShapeInv PROVE EntriesShape /\ ResultsShape
BY DEF ShapeInv, EntriesShape, ResultsShape

LEMMA ShapeStays ==
    ASSUME ShapeInv, UNCHANGED <<subscriberInstances, answers, lost, result>>
    PROVE  EntriesShape' /\ ResultsShape'
BY DEF ShapeInv, EntriesShape, ResultsShape

LEMMA ShapeInit == Init => ShapeInv
<1> SUFFICES ASSUME Init PROVE ShapeInv
  OBVIOUS
<1>1. subscriberInstances = <<>> /\ DOMAIN subscriberInstances = {}
  BY DEF Init
<1>2. <<>> \in Seq(Events)
  OBVIOUS
<1>3. arriving \in [Subscribers -> Seq(Events)] /\ seen \in [Subscribers -> Seq(Events)]
  BY <1>2 DEF Init
<1>4. ASSUME NEW e \in Events
      PROVE  /\ "finished" \in DOMAIN result[e] /\ result[e].finished = FALSE /\ ~Tried(e)
  BY DEF Init
<1>5. ResultsShape
  <2>1. answers \in [Events -> Nat] /\ DOMAIN result = Events
    BY DEF Init
  <2>2. ASSUME NEW e \in Events
        PROVE  /\ "finished" \in DOMAIN result[e] /\ result[e].finished \in BOOLEAN
               /\ result[e].finished <=> Tried(e)
    <3>1. "finished" \in DOMAIN result[e] /\ result[e].finished = FALSE /\ ~Tried(e)
      BY <1>4
    <3>2. ~(Tried(e))
      BY <3>1
    <3> QED
      BY <3>1, <3>2
  <2> QED
    BY <2>1, <2>2 DEF ResultsShape
<1>6. own \in [Subscribers -> Events \cup {None}]
  BY DEF Init
<1>7. DOMAIN running = Subscribers /\ \A s \in Subscribers : RunningOK(s, running[s])
  BY DEF Init, RunningOK
<1>8. infos = {} /\ sent = {} /\ collecting = None
  BY DEF Init
<1> QED
  BY <1>1, <1>3, <1>5, <1>6, <1>7, <1>8 DEF ShapeInv, ResultsShape

LEMMA ShapeCalls ==
    ASSUME ShapeInv, Calls
    PROVE  ShapeInv'
<1>1. UNCHANGED <<running, seen, own, sent, arriving, collecting, subscriberInstances, answers, lost, result>>
  BY CallsQueue DEF deliveryVars
<1>2. \A c \in infos' : CallOK(c)
  <2>1. CASE infos' = infos
    BY <2>1 DEF ShapeInv
  <2>2. CASE \E c : Queued(c)
    <3>1. PICK c : Queued(c)
      BY <2>2
    <3>2. CallOK(c)
      BY <3>1 DEF Queued, CallOK
    <3> QED
      BY <3>1, <3>2 DEF Queued, ShapeInv
  <2> QED
    BY <2>1, <2>2, CallsQueue
<1>3. arriving' \in [Subscribers -> Seq(Events)] /\ collecting' \in Subscribers \cup {None}
  BY <1>1 DEF ShapeInv
<1> QED
  BY <1>1, <1>2, <1>3, ShapeOfCalls, ShapeStays

LEMMA FinishQueues ==
    ASSUME ShapeInv, NEW s \in Subscribers, FinishCommonEvent(s)
    PROVE  /\ \E c : /\ infos' = infos \cup {c} /\ DOMAIN c = Fields /\ c.at = "queued"
                     /\ c.function = "finish" /\ c.subscriber = s
                     /\ c.about \in Ordered \ finishes /\ finishes' = finishes \cup {c.about}
                     /\ \E i \in 1..Len(seen[s]) : seen[s][i] = c.about
           /\ collecting = None
           /\ UNCHANGED <<settled, subscribed, refused, subscriberInstances, gone, deliveryVars, collecting, answers, lost, result>>
<1>1. PICK e \in (ToSet(seen[s]) \cap Ordered) \ finishes :
          /\ collecting = None /\ finishes' = finishes \cup {e}
          /\ infos' = infos \cup {Info(0, "finish", s, None, e)}
          /\ UNCHANGED <<settled, tableVars, eventVars, collecting, resultVars>>
  BY DEF FinishCommonEvent
<1> DEFINE c == Info(0, "finish", s, None, e)
<1>2. DOMAIN c = Fields /\ c.at = "queued" /\ c.function = "finish" /\ c.subscriber = s /\ c.about = e
  BY DEF Info, Fields
<1>3. infos' = infos \cup {c}
  BY <1>1
<1>4. DOMAIN seen[s] = 1..Len(seen[s])
  BY DEF ShapeInv
<1>5. \E i \in 1..Len(seen[s]) : seen[s][i] = e
  BY <1>1, <1>4 DEF ToSet
<1>6. UNCHANGED <<settled, subscribed, refused, subscriberInstances, gone, deliveryVars, collecting, answers, lost, result>>
  BY <1>1 DEF tableVars, eventVars, deliveryVars, resultVars
<1> HIDE DEF c
<1> QED
  BY <1>1, <1>2, <1>3, <1>5, <1>6

LEMMA ShapeFinishQueues ==
    ASSUME ShapeInv, NEW s \in Subscribers, FinishCommonEvent(s)
    PROVE  ShapeInv'
<1>1. UNCHANGED <<running, seen, own, sent, arriving, collecting, subscriberInstances, answers, lost, result>>
  BY FinishQueues DEF deliveryVars
<1>2. \A c \in infos' : CallOK(c)
  <2>1. "finish" \notin Setters
    BY DEF Setters
  <2> QED
    BY <2>1, FinishQueues DEF CallOK, ShapeInv
<1>3. arriving' \in [Subscribers -> Seq(Events)] /\ collecting' \in Subscribers \cup {None}
  BY <1>1 DEF ShapeInv
<1> QED
  BY <1>1, <1>2, <1>3, ShapeOfCalls, ShapeStays

\* Of PastInv, what the shape of the state rests on.
LEMMA ShapeExecute ==
    ASSUME ShapeInv, PastInv, NEW c \in infos, Execute(c)
    PROVE  ShapeInv'
<1>0. /\ arriving \in [Subscribers -> Seq(Events)] /\ collecting \in Subscribers \cup {None}
      /\ \A e \in Events : result[e].finished \in BOOLEAN /\ (result[e].finished <=> Tried(e))
      /\ answers \in [Events -> Nat]
  BY DEF ShapeInv
<1>1. CASE ExecuteOther(c) \/ ExecuteGet(c) \/ ExecuteSet(c)
  <2>1. ResultsShape'
    BY <1>0, <1>1, PlainExecution DEF ResultsShape
  <2>2. EntriesShape'
    BY <1>1, PlainExecution, ShapeParts DEF EntriesShape
  <2>3. \A x \in infos' : CallOK(x)
    BY <1>1, PlainExecution, CallMoves
  <2> QED
    BY <1>0, <1>1, <2>1, <2>2, <2>3, PlainExecution, ShapeOfCalls DEF deliveryVars
<1>2. CASE ExecuteFinish(c)
  <2>1. \A x \in infos' : CallOK(x)
    BY <1>2, FinishLooks, CallMoves
  <2> QED
    BY <1>0, <1>2, <2>1, FinishLooks, ShapeStays, ShapeOfCalls DEF deliveryVars
<1>3. CASE ExecuteAnswer(c)
  <2>1. \A x \in infos' : CallOK(x)
    BY <1>3, FinishAnswers, CallMoves
  <2>2. c.argument \in Events
    BY <1>3, FinishAnswers, JsAssumption DEF PastInv, FinishingPast
  <2>3. ResultsShape'
    BY <1>3, <2>2, FinishAnswers, FinishMarks DEF ResultsShape
  <2>4. EntriesShape'
    BY <1>3, FinishAnswers, ShapeParts DEF EntriesShape
  <2> QED
    BY <1>0, <1>3, <2>1, <2>3, <2>4, FinishAnswers, ShapeOfCalls DEF deliveryVars
<1>4. CASE ExecuteSubscribe(c)
  <2>1. \A x \in infos' : CallOK(x)
    <3>1. PICK d : Moves(c, d) /\ d.at = "done"
      BY <1>4, Subscribes
    <3>2. "subscribe" \notin Setters /\ c.function = "subscribe"
      BY <1>4, Subscribes DEF Setters
    <3>3. CallOK(d)
      BY <3>1, <3>2 DEF Moves, CallOK, ShapeInv
    <3> QED
      BY <3>1, <3>3 DEF Moves, ShapeInv
  <2> QED
    BY <1>0, <1>4, <2>1, Subscribes, ShapeStays, ShapeOfCalls DEF deliveryVars
<1>5. CASE ExecuteUnsubscribe(c)
  <2>1. \A x \in infos' : CallOK(x)
    <3>1. PICK d : Moves(c, d) /\ d.at = "done"
      BY <1>5, Unsubscribes
    <3>2. "unsubscribe" \notin Setters /\ c.function = "unsubscribe"
      BY <1>5, Unsubscribes DEF Setters
    <3>3. CallOK(d)
      BY <3>1, <3>2 DEF Moves, CallOK, ShapeInv
    <3> QED
      BY <3>1, <3>3 DEF Moves, ShapeInv
  <2>2. arriving' \in [Subscribers -> Seq(Events)]
    <3>1. c.subscriber \in Subscribers
      BY <1>5, Unsubscribes DEF ShapeInv, CallOK, Publishers
    <3> QED
      BY <1>5, <3>1, Unsubscribes, QueueKeptOrDropped
  <2>3. UNCHANGED <<running, seen, own, sent, collecting, subscriberInstances, answers, lost, result>>
    BY <1>5, Unsubscribes
  <2> QED
    BY <1>0, <2>1, <2>2, <2>3, ShapeStays, ShapeOfCalls
<1> QED
  BY <1>1, <1>2, <1>3, <1>4, <1>5 DEF Execute

LEMMA ShapeComplete ==
    ASSUME ShapeInv, NEW c \in infos, Complete(c)
    PROVE  ShapeInv'
<1>0. infos' = infos \ {c} /\ UNCHANGED <<running, seen, own, sent, arriving, collecting, answers, lost, result>>
  BY Completes DEF deliveryVars
<1>1. EntriesShape'
  <2>1. CASE c.function = "subscribe" /\ c.errorCode = 0
    <3>1. c.subscriber \in Subscribers
      BY <2>1 DEF ShapeInv, CallOK, Publishers
    <3>2. subscriberInstances' = WithEntry(c.subscriber, [callbacks |-> {c.id}, commonEventResult |-> None])
      BY <2>1, Completes
    <3> QED
      BY <3>1, <3>2, EntryMade, ShapeParts DEF EntriesShape
  <2>2. CASE c.function = "unsubscribe"
    <3>1. subscriberInstances' = WithoutEntry(c.subscriber)
      BY <2>2, Completes
    <3> QED
      BY <3>1, EntryDropped, ShapeParts DEF EntriesShape
  <2>3. CASE ~(c.function = "subscribe" /\ c.errorCode = 0) /\ c.function # "unsubscribe"
    BY <2>3, Completes, ShapeParts DEF EntriesShape
  <2> QED
    BY <2>1, <2>2, <2>3
<1>2. ResultsShape'
  BY <1>0, ShapeParts DEF ResultsShape
<1>3. arriving' \in [Subscribers -> Seq(Events)] /\ collecting' \in Subscribers \cup {None}
  BY <1>0 DEF ShapeInv
<1>4. \A x \in infos' : CallOK(x)
  BY <1>0 DEF ShapeInv
<1> QED
  BY <1>0, <1>1, <1>2, <1>3, <1>4, ShapeOfCalls

LEMMA ShapeCollects ==
    ASSUME ShapeInv, Collected \/ \E s \in Subscribers : Collect(s)
    PROVE  ShapeInv'
<1>1. CASE Collected
  <2>1. EntriesShape'
    BY <1>1, Finalizes, EntryDropped, ShapeParts DEF EntriesShape
  <2>2. ResultsShape'
    BY <1>1, Finalizes, ShapeParts DEF ResultsShape
  <2>3. arriving' \in [Subscribers -> Seq(Events)]
    BY <1>1, Finalizes, QueueKeptOrDropped
  <2>4. \A x \in infos' : CallOK(x)
    BY <1>1, Finalizes DEF ShapeInv
  <2> QED
    BY <1>1, <2>1, <2>2, <2>3, <2>4, Finalizes, ShapeOfCalls
<1>2. ASSUME NEW s \in Subscribers, Collect(s) PROVE ShapeInv'
  <2>1. UNCHANGED <<infos, running, seen, own, sent, arriving, subscriberInstances, answers, lost, result>>
    BY <1>2, Collects DEF deliveryVars
  <2>2. collecting' \in Subscribers \cup {None} /\ arriving' \in [Subscribers -> Seq(Events)]
    BY <1>2, <2>1, Collects DEF ShapeInv
  <2>3. \A x \in infos' : CallOK(x)
    BY <2>1 DEF ShapeInv
  <2> QED
    BY <2>1, <2>2, <2>3, ShapeStays, ShapeOfCalls
<1> QED
  BY <1>1, <1>2

-----------------------------------------------------------------------------
(* The steps of events *)

LEMMA Takes ==
    ASSUME ShapeInv, NEW s \in Subscribers, TakeEvent(s)
    PROVE  /\ running[s] = Idle /\ Len(arriving[s]) > 0 /\ arriving[s][1] \in Events
           /\ running'[s].at = "taken" /\ running'[s].event = arriving[s][1]
           /\ DOMAIN running' = Subscribers /\ DOMAIN arriving' = Subscribers
           /\ \A q \in Subscribers \ {s} : running'[q] = running[q] /\ arriving'[q] = arriving[q]
           /\ arriving'[s] \in Seq(Events) /\ Len(arriving'[s]) = Len(arriving[s]) - 1
           /\ \A i \in 1..Len(arriving'[s]) : arriving'[s][i] = arriving[s][i + 1]
           /\ UNCHANGED <<infos, settled, finishes, subscribed, refused, subscriberInstances, gone, own, loop, sent, seen,
                          collecting, answers, lost, result>>
<1>1. arriving[s] \in Seq(Events) /\ arriving \in [Subscribers -> Seq(Events)] /\ DOMAIN running = Subscribers
  BY DEF ShapeInv
<1>2. running[s] = Idle /\ arriving[s] # <<>>
  BY DEF TakeEvent
<1>3. Len(arriving[s]) > 0 /\ arriving[s][1] \in Events /\ Head(arriving[s]) = arriving[s][1]
  BY <1>1, <1>2
<1>4. /\ Tail(arriving[s]) \in Seq(Events) /\ Len(Tail(arriving[s])) = Len(arriving[s]) - 1
      /\ \A i \in 1..Len(Tail(arriving[s])) : Tail(arriving[s])[i] = arriving[s][i + 1]
  BY <1>1, <1>2
<1>5. running' = [running EXCEPT ![s] = [at |-> "taken", event |-> arriving[s][1]]]
  BY <1>3 DEF TakeEvent
<1>6. arriving' = [arriving EXCEPT ![s] = Tail(arriving[s])]
  BY DEF TakeEvent
<1>7. running'[s].at = "taken" /\ running'[s].event = arriving[s][1]
  BY <1>1, <1>5
<1>8. UNCHANGED <<infos, settled, finishes, subscribed, refused, subscriberInstances, gone, own, loop, sent, seen,
                  collecting, answers, lost, result>>
  BY DEF TakeEvent, callVars, tableVars, resultVars
<1>9. arriving'[s] = Tail(arriving[s]) /\ DOMAIN arriving' = Subscribers /\ DOMAIN running' = Subscribers
  BY <1>1, <1>5, <1>6
<1>10. \A q \in Subscribers \ {s} : running'[q] = running[q] /\ arriving'[q] = arriving[q]
  BY <1>1, <1>5, <1>6
<1> QED
  BY <1>2, <1>3, <1>4, <1>7, <1>8, <1>9, <1>10

\* The callback of the listener goes on to at.
Proceeds(s, at) ==
    /\ running'[s].at = at /\ running'[s].event = running[s].event
    /\ DOMAIN running'[s] = {"at", "event", "ref"}
    /\ DOMAIN running' = Subscribers /\ \A q \in Subscribers \ {s} : running'[q] = running[q]

LEMMA Receives ==
    ASSUME ShapeInv, NEW s \in Subscribers, OnReceiveEvent(s)
    PROVE  /\ running[s].at = "taken" /\ running[s].event \in Events
           /\ Proceeds(s, IF running[s].event \in Ordered THEN "ordered" ELSE "queue")
           /\ own' = [own EXCEPT ![s] = running[s].event]
           /\ UNCHANGED <<infos, settled, finishes, subscribed, refused, subscriberInstances, gone, arriving, loop, sent, seen,
                          collecting, answers, lost, result>>
<1> DEFINE e == running[s].event
           r == [at |-> IF e \in Ordered THEN "ordered" ELSE "queue", event |-> e, ref |-> callbackRef[s]]
<1>1. running[s].at = "taken" /\ own' = [own EXCEPT ![s] = e] /\ running' = [running EXCEPT ![s] = r]
  BY DEF OnReceiveEvent
<1>2. RunningOK(s, running[s]) /\ DOMAIN running = Subscribers
  BY DEF ShapeInv
<1>3. running[s].event \in Events
  BY <1>1, <1>2 DEF RunningOK, Idle
<1>4. /\ DOMAIN r = {"at", "event", "ref"} /\ r.event = e
      /\ r.at = IF e \in Ordered THEN "ordered" ELSE "queue"
  OBVIOUS
<1>5. UNCHANGED <<infos, settled, finishes, subscribed, refused, subscriberInstances, gone, arriving, loop, sent, seen,
                  collecting, answers, lost, result>>
  BY DEF OnReceiveEvent, callVars, tableVars, resultVars
<1> HIDE DEF r
<1>6. Proceeds(s, IF e \in Ordered THEN "ordered" ELSE "queue")
  BY <1>1, <1>2, <1>4 DEF Proceeds
<1> QED
  BY <1>1, <1>3, <1>5, <1>6

LEMMA SetsAt ==
    ASSUME ShapeInv, NEW s \in Subscribers, NEW at, running[s].at \in {"ordered", "queue"},
           running' = [running EXCEPT ![s].at = at]
    PROVE  Proceeds(s, at)
<1>1. RunningOK(s, running[s]) /\ DOMAIN running = Subscribers
  BY DEF ShapeInv
<1>2. DOMAIN running[s] = {"at", "event", "ref"}
  BY <1>1 DEF RunningOK, Idle
<1>3. running' = [running EXCEPT ![s] = [running[s] EXCEPT !.at = at]]
  OBVIOUS
<1> QED
  BY <1>1, <1>2, <1>3 DEF Proceeds

LEMMA HandsOver ==
    ASSUME ShapeInv, NEW s \in Subscribers, HandOver(s)
    PROVE  /\ running[s].at = "ordered" /\ collecting = None /\ Proceeds(s, "queue")
           /\ EntriesShape' /\ DOMAIN subscriberInstances' = DOMAIN subscriberInstances
           /\ IF s \in DOMAIN subscriberInstances
              THEN /\ own' = [own EXCEPT ![s] = None]
                   /\ \A q, e : Held(q, e)' <=> IF q = s THEN e = own[s] ELSE Held(q, e)
              ELSE UNCHANGED <<subscriberInstances, own>>
           /\ UNCHANGED <<infos, settled, finishes, subscribed, refused, gone, arriving, loop, sent, seen,
                          collecting, answers, lost, result>>
<1>1. running[s].at = "ordered" /\ collecting = None /\ running' = [running EXCEPT ![s].at = "queue"]
  BY DEF HandOver
<1>2. UNCHANGED <<infos, settled, finishes, subscribed, refused, gone, arriving, loop, sent, seen,
                  collecting, answers, lost, result>>
  BY DEF HandOver, callVars, resultVars
<1>3. CASE s \in DOMAIN subscriberInstances
  <2>1. own' = [own EXCEPT ![s] = None]
    BY <1>3 DEF HandOver
  <2>2. subscriberInstances' =
            [subscriberInstances EXCEPT ![s] = [subscriberInstances[s] EXCEPT !.commonEventResult = own[s]]]
    BY <1>3 DEF HandOver
  <2>3. /\ DOMAIN subscriberInstances[s] = {"callbacks", "commonEventResult"}
        /\ DOMAIN subscriberInstances \subseteq Subscribers
    BY <1>3 DEF ShapeInv
  <2>4. /\ subscriberInstances'[s].commonEventResult = own[s]
        /\ DOMAIN subscriberInstances'[s] = {"callbacks", "commonEventResult"}
    BY <1>3, <2>2, <2>3
  <2>5. DOMAIN subscriberInstances' = DOMAIN subscriberInstances
    BY <2>2
  <2>6. \A q \in DOMAIN subscriberInstances \ {s} : subscriberInstances'[q] = subscriberInstances[q]
    BY <2>2
  <2>7. EntriesShape'
    BY <2>3, <2>4, <2>5, <2>6 DEF EntriesShape, ShapeInv
  <2>8. \A q, e : Held(q, e)' <=> IF q = s THEN e = own[s] ELSE Held(q, e)
    BY <1>3, <2>4, <2>5, <2>6 DEF Held
  <2> QED
    BY <1>1, <1>2, <1>3, <2>1, <2>5, <2>7, <2>8, SetsAt
<1>4. CASE s \notin DOMAIN subscriberInstances
  <2>1. UNCHANGED <<subscriberInstances, own>>
    BY <1>4 DEF HandOver
  <2>2. EntriesShape'
    BY <2>1 DEF EntriesShape, ShapeInv
  <2> QED
    BY <1>1, <1>2, <1>4, <2>1, <2>2, SetsAt
<1> QED
  BY <1>3, <1>4

LEMMA QueuesWork ==
    ASSUME ShapeInv, NEW s \in Subscribers, QueueWork(s)
    PROVE  /\ running[s].at = "queue" /\ Proceeds(s, "queued")
           /\ \E w : loop' = loop \cup {w} /\ w.subscriber = s /\ w.event = running[s].event
           /\ UNCHANGED <<infos, settled, finishes, subscribed, refused, subscriberInstances, gone, arriving, own, sent, seen,
                          collecting, answers, lost, result>>
<1>1. /\ running[s].at = "queue" /\ running' = [running EXCEPT ![s].at = "queued"]
      /\ loop' = loop \cup {[subscriber |-> s, event |-> running[s].event, ref |-> running[s].ref]}
  BY DEF QueueWork
<1>2. UNCHANGED <<infos, settled, finishes, subscribed, refused, subscriberInstances, gone, arriving, own, sent, seen,
                  collecting, answers, lost, result>>
  BY DEF QueueWork, callVars, tableVars, resultVars
<1> DEFINE w == [subscriber |-> s, event |-> running[s].event, ref |-> running[s].ref]
<1>3. w.subscriber = s /\ w.event = running[s].event
  OBVIOUS
<1>4. loop' = loop \cup {w}
  BY <1>1
<1>5. Proceeds(s, "queued")
  <2>0. RunningOK(s, running[s]) /\ DOMAIN running = Subscribers
    BY DEF ShapeInv
  <2>1. DOMAIN running[s] = {"at", "event", "ref"}
    BY <1>1, <2>0 DEF RunningOK, Idle
  <2>2. running' = [running EXCEPT ![s] = [running[s] EXCEPT !.at = "queued"]]
    BY <1>1
  <2> QED
    BY <2>0, <2>1, <2>2 DEF Proceeds
<1> HIDE DEF w
<1> QED
  BY <1>1, <1>2, <1>3, <1>4, <1>5

LEMMA Ends ==
    ASSUME ShapeInv, NEW s \in Subscribers, EndReceive(s)
    PROVE  /\ running[s].at = "queued" /\ running[s].event \in Events
           /\ running'[s] = Idle /\ DOMAIN running' = Subscribers
           /\ \A q \in Subscribers \ {s} : running'[q] = running[q]
           /\ IF running[s].event \in Ordered /\ own[s] = running[s].event /\ ~Tried(running[s].event)
              THEN \E done \in BOOLEAN : Finish(running[s].event, done)
              ELSE UNCHANGED <<answers, lost, result>>
           /\ UNCHANGED <<infos, settled, finishes, subscribed, refused, subscriberInstances, gone, arriving, own, loop, sent, seen,
                          collecting>>
<1>1. /\ running[s].at = "queued" /\ running' = [running EXCEPT ![s] = Idle]
      /\ IF running[s].event \in Ordered /\ own[s] = running[s].event /\ ~result[running[s].event].finished
         THEN \E done \in BOOLEAN : Finish(running[s].event, done) ELSE UNCHANGED resultVars
  BY OutcomeFacts DEF EndReceive
<1>2. UNCHANGED <<infos, settled, finishes, subscribed, refused, subscriberInstances, gone, arriving, own, loop, sent, seen,
                  collecting>>
  BY DEF EndReceive, callVars, tableVars
<1>3. DOMAIN running = Subscribers /\ running[s].event \in Events
  BY <1>1 DEF ShapeInv, RunningOK, Idle
<1>4. ~result[running[s].event].finished <=> ~Tried(running[s].event)
  BY <1>3 DEF ShapeInv
<1>5. UNCHANGED resultVars => UNCHANGED <<answers, lost, result>>
  BY DEF resultVars
<1>6. /\ running'[s] = Idle /\ DOMAIN running' = Subscribers
      /\ \A q \in Subscribers \ {s} : running'[q] = running[q]
  BY <1>1, <1>3
<1> QED
  BY <1>1, <1>2, <1>3, <1>4, <1>5, <1>6

LEMMA CallsBack ==
    ASSUME ShapeInv, NEW w \in loop, w.subscriber \in Subscribers, w.event \in Events, UvQueueWorkOnReceiveEvent(w)
    PROVE  /\ seen' \in [Subscribers -> Seq(Events)] /\ loop' \subseteq loop
           /\ \A s \in Subscribers : \A i \in 1..Len(seen'[s]) :
                  \/ i \in 1..Len(seen[s]) /\ seen'[s][i] = seen[s][i]
                  \/ s = w.subscriber /\ seen'[s][i] = w.event
           /\ UNCHANGED <<infos, settled, finishes, subscribed, refused, subscriberInstances, gone, arriving, running, own, sent,
                          collecting, answers, lost, result>>
<1>1. /\ loop' = loop \ {w}
      /\ seen' = [seen EXCEPT ![w.subscriber] = Append(seen[w.subscriber], w.event)] \/ seen' = seen
  BY DEF UvQueueWorkOnReceiveEvent
<1>2. UNCHANGED <<infos, settled, finishes, subscribed, refused, subscriberInstances, gone, arriving, running, own, sent,
                  collecting, answers, lost, result>>
  BY DEF UvQueueWorkOnReceiveEvent, callVars, tableVars, resultVars
<1>3. seen \in [Subscribers -> Seq(Events)]
  BY DEF ShapeInv
<1>4. CASE seen' = [seen EXCEPT ![w.subscriber] = Append(seen[w.subscriber], w.event)]
  <2> DEFINE q == Append(seen[w.subscriber], w.event)
  <2>1. /\ q \in Seq(Events) /\ Len(q) = Len(seen[w.subscriber]) + 1 /\ Len(seen[w.subscriber]) \in Nat
        /\ \A i \in 1..Len(q) : q[i] = IF i = Len(seen[w.subscriber]) + 1 THEN w.event ELSE seen[w.subscriber][i]
    BY <1>3
  <2>2. seen' \in [Subscribers -> Seq(Events)] /\ seen'[w.subscriber] = q
    BY <1>3, <1>4, <2>1
  <2>3. \A s \in Subscribers \ {w.subscriber} : seen'[s] = seen[s]
    BY <1>3, <1>4
  <2> HIDE DEF q
  <2>4. ASSUME NEW s \in Subscribers, NEW i \in 1..Len(seen'[s])
        PROVE  \/ i \in 1..Len(seen[s]) /\ seen'[s][i] = seen[s][i]
               \/ s = w.subscriber /\ seen'[s][i] = w.event
    BY <2>1, <2>2, <2>3
  <2> QED
    BY ONLY <1>1, <1>2, <2>2, <2>4
<1>5. CASE seen' = seen
  BY <1>1, <1>2, <1>3, <1>5
<1> QED
  BY <1>1, <1>4, <1>5

LEMMA Sends ==
    ASSUME ShapeInv, NEW e \in Events, SendEvent(e)
    PROVE  /\ For[e] \in Subscribers /\ e \notin sent /\ sent' = sent \cup {e}
           /\ e \in Ordered => \A f \in sent \cap Ordered : For[f] = For[e] => Tried(f)
           /\ arriving' \in [Subscribers -> Seq(Events)]
           /\ \A q \in Subscribers \ {For[e]} : arriving'[q] = arriving[q]
           /\ Len(arriving'[For[e]]) = Len(arriving[For[e]]) + 1 /\ Len(arriving[For[e]]) \in Nat
           /\ \A i \in 1..Len(arriving[For[e]]) : arriving'[For[e]][i] = arriving[For[e]][i]
           /\ arriving'[For[e]][Len(arriving[For[e]]) + 1] = e
           /\ UNCHANGED <<infos, settled, finishes, subscribed, refused, subscriberInstances, gone, running, own, loop, seen,
                          collecting, answers, lost, result>>
<1> DEFINE s == For[e]
<1>1. s \in Subscribers
  BY JsAssumption
<1>2. /\ e \notin sent /\ sent' = sent \cup {e}
      /\ arriving' = [arriving EXCEPT ![s] = Append(arriving[s], e)]
  BY DEF SendEvent
<1>3. e \in Ordered => \A f \in sent \cap Ordered : For[f] = For[e] => Tried(f)
  BY DEF SendEvent
<1>4. UNCHANGED <<infos, settled, finishes, subscribed, refused, subscriberInstances, gone, running, own, loop, seen,
                  collecting, answers, lost, result>>
  BY DEF SendEvent, callVars, tableVars, resultVars
<1>5. arriving \in [Subscribers -> Seq(Events)]
  BY DEF ShapeInv
<1> HIDE DEF s
<1>6. /\ Append(arriving[s], e) \in Seq(Events) /\ Len(Append(arriving[s], e)) = Len(arriving[s]) + 1
      /\ Len(arriving[s]) \in Nat
      /\ \A i \in 1..Len(arriving[s]) : Append(arriving[s], e)[i] = arriving[s][i]
      /\ Append(arriving[s], e)[Len(arriving[s]) + 1] = e
  BY <1>1, <1>5
<1>7. /\ arriving' \in [Subscribers -> Seq(Events)] /\ arriving'[s] = Append(arriving[s], e)
      /\ \A q \in Subscribers \ {s} : arriving'[q] = arriving[q]
  BY <1>1, <1>2, <1>5, <1>6
<1> QED
  BY <1>1, <1>2, <1>3, <1>4, <1>6, <1>7 DEF s

LEMMA ShapeOfEvents ==
    ASSUME ShapeInv, UNCHANGED <<infos, collecting>>,
           DOMAIN running' = Subscribers, \A s \in Subscribers : RunningOK(s, running'[s]),
           arriving' \in [Subscribers -> Seq(Events)], seen' \in [Subscribers -> Seq(Events)],
           own' \in [Subscribers -> Events \cup {None}], sent' \subseteq Events,
           EntriesShape', ResultsShape'
    PROVE  ShapeInv'
BY DEF ShapeInv, EntriesShape, ResultsShape

LEMMA ShapeFields ==
    ASSUME ShapeInv
    PROVE  /\ arriving \in [Subscribers -> Seq(Events)] /\ seen \in [Subscribers -> Seq(Events)]
           /\ own \in [Subscribers -> Events \cup {None}] /\ sent \subseteq Events
           /\ DOMAIN running = Subscribers /\ \A s \in Subscribers : RunningOK(s, running[s])
BY DEF ShapeInv

LEMMA ShapeProceeds ==
    ASSUME ShapeInv, NEW s \in Subscribers, NEW at \in {"ordered", "queue", "queued"}, Proceeds(s, at),
           running[s] # Idle, at = "ordered" => running[s].event \in Ordered
    PROVE  \A q \in Subscribers : RunningOK(q, running'[q])
<1>1. RunningOK(s, running[s])
  BY DEF ShapeInv
<1>2. running[s].event \in Events /\ For[running[s].event] = s
  BY <1>1 DEF RunningOK
<1>3. RunningOK(s, running'[s])
  BY <1>2 DEF RunningOK, Proceeds
<1> QED
  BY <1>3 DEF Proceeds, ShapeInv

LEMMA ShapeEvents ==
    ASSUME ShapeInv, PlacesInv, PastInv,
           \/ \E s \in Subscribers : RunnerStep(s)
           \/ \E w \in loop : UvQueueWorkOnReceiveEvent(w)
           \/ \E e \in Events : SendEvent(e)
    PROVE  ShapeInv'
<1>1. ASSUME NEW s \in Subscribers, TakeEvent(s) PROVE ShapeInv'
  <2>1. For[arriving[s][1]] = s
    BY <1>1, Takes, ShapeFields DEF PlacesInv
  <2>2. \A q \in Subscribers : RunningOK(q, running'[q])
    <3>1. /\ running'[s].at = "taken" /\ running'[s].event = arriving[s][1] /\ arriving[s][1] \in Events
          /\ \A q \in Subscribers \ {s} : running'[q] = running[q]
      BY <1>1, Takes
    <3>2. RunningOK(s, running'[s])
      BY <2>1, <3>1 DEF RunningOK
    <3> QED
      BY <3>1, <3>2, ShapeFields
  <2>3. arriving' \in [Subscribers -> Seq(Events)]
    <3>1. \A q \in Subscribers : arriving'[q] \in Seq(Events)
      BY <1>1, Takes, ShapeFields
    <3>2. arriving' = [arriving EXCEPT ![s] = Tail(@)]
      BY <1>1 DEF TakeEvent
    <3> QED
      BY <3>1, <3>2, ShapeFields
  <2> QED
    BY <1>1, <2>2, <2>3, Takes, ShapeFields, ShapeStays, ShapeOfEvents
<1>2. ASSUME NEW s \in Subscribers, OnReceiveEvent(s) PROVE ShapeInv'
  <2>1. running[s] # Idle
    BY <1>2, Receives DEF Idle
  <2>2. \A q \in Subscribers : RunningOK(q, running'[q])
    BY <1>2, <2>1, Receives, ShapeProceeds
  <2>3. own' \in [Subscribers -> Events \cup {None}]
    BY <1>2, Receives, ShapeFields
  <2>4. DOMAIN running' = Subscribers
    BY <1>2, Receives DEF Proceeds
  <2>5. UNCHANGED <<infos, collecting, arriving, seen, sent, subscriberInstances, answers, lost, result>>
    BY <1>2, Receives
  <2> QED
    BY <2>2, <2>3, <2>4, <2>5, ShapeFields, ShapeStays, ShapeOfEvents
<1>3. ASSUME NEW s \in Subscribers, HandOver(s) PROVE ShapeInv'
  <2>1. running[s] # Idle
    BY <1>3, HandsOver DEF Idle
  <2>2. \A q \in Subscribers : RunningOK(q, running'[q])
    BY <1>3, <2>1, HandsOver, ShapeProceeds
  <2>3. own' \in [Subscribers -> Events \cup {None}]
    BY <1>3, HandsOver, ShapeFields
  <2>4. DOMAIN running' = Subscribers
    BY <1>3, HandsOver DEF Proceeds
  <2>5. ResultsShape'
    BY <1>3, HandsOver, ShapeParts DEF ResultsShape
  <2> QED
    BY <1>3, <2>2, <2>3, <2>4, <2>5, HandsOver, ShapeFields, ShapeOfEvents
<1>4. ASSUME NEW s \in Subscribers, QueueWork(s) PROVE ShapeInv'
  <2>1. running[s] # Idle
    BY <1>4, QueuesWork DEF Idle
  <2>2. \A q \in Subscribers : RunningOK(q, running'[q])
    BY <1>4, <2>1, QueuesWork, ShapeProceeds
  <2>4. DOMAIN running' = Subscribers
    BY <1>4, QueuesWork DEF Proceeds
  <2>5. UNCHANGED <<infos, collecting, arriving, seen, own, sent, subscriberInstances, answers, lost, result>>
    BY <1>4, QueuesWork
  <2> QED
    BY <2>2, <2>4, <2>5, ShapeFields, ShapeStays, ShapeOfEvents
<1>5. ASSUME NEW s \in Subscribers, EndReceive(s) PROVE ShapeInv'
  <2>1. ResultsShape'
    <3>1. CASE \E done \in BOOLEAN : Finish(running[s].event, done)
      BY <1>5, <3>1, Ends, FinishMarks DEF ResultsShape
    <3>2. CASE UNCHANGED <<answers, lost, result>>
      BY <3>2, ShapeParts DEF ResultsShape
    <3> QED
      BY <1>5, <3>1, <3>2, Ends
  <2>2. \A q \in Subscribers : RunningOK(q, running'[q])
    BY <1>5, Ends, ShapeFields DEF RunningOK
  <2>3. EntriesShape'
    BY <1>5, Ends, ShapeParts DEF EntriesShape
  <2> QED
    BY <1>5, <2>1, <2>2, <2>3, Ends, ShapeFields, ShapeOfEvents
<1>6. ASSUME NEW w \in loop, UvQueueWorkOnReceiveEvent(w) PROVE ShapeInv'
  <2>1. w.subscriber \in Subscribers /\ w.event \in Events
    BY ShapeFields DEF PastInv, LoopPast, Past
  <2> QED
    BY <1>6, <2>1, CallsBack, ShapeFields, ShapeStays, ShapeOfEvents
<1>7. ASSUME NEW e \in Events, SendEvent(e) PROVE ShapeInv'
  BY <1>7, Sends, ShapeFields, ShapeStays, ShapeOfEvents
<1> QED
  BY <1>1, <1>2, <1>3, <1>4, <1>5, <1>6, <1>7 DEF RunnerStep

LEMMA ShapeNext ==
    ASSUME ShapeInv, PlacesInv, PastInv, [Next]_vars
    PROVE  ShapeInv'
<1>1. CASE UNCHANGED vars
  BY <1>1, ShapeFields, ShapeStays, ShapeOfEvents
  DEF vars, callVars, tableVars, eventVars, resultVars, ShapeInv
<1> QED
  BY <1>1, ShapeCalls, ShapeFinishQueues, ShapeExecute, ShapeComplete, ShapeCollects, ShapeEvents DEF Next, Work

-----------------------------------------------------------------------------
(* Events move on *)

\* No event that has been sent becomes pending again.
Onward == sent \subseteq sent' /\ \A e \in sent : Pending(e)' => Pending(e)

LEMMA PastStays ==
    ASSUME Onward, NEW e, Past(e)
    PROVE  Past(e)'
BY DEF Onward, Past

\* The queue of a subscriber stays or is dropped, and its callback goes on, if
\* that with an event it already had.
SameRun(s) ==
    /\ arriving'[s] = arriving[s] \/ arriving'[s] = <<>>
    /\ \/ running'[s] = running[s] \/ running'[s] = Idle
       \/ /\ running[s] # Idle /\ running'[s].event = running[s].event
          /\ running'[s].at \in {"taken", "ordered"} => running[s].at \in {"taken", "ordered"}

LEMMA RunsOn ==
    ASSUME ShapeInv, PlacesInv, sent' = sent, \A s \in Subscribers : SameRun(s)
    PROVE  Onward /\ PlacesInv'
<1>0. Len(<<>>) = 0
  OBVIOUS
<1>1. ASSUME NEW e \in sent, Pending(e)' PROVE Pending(e)
  <2>1. For[e] \in Subscribers
    BY ShapeFields, JsAssumption
  <2>2. Arriving(e)' => Arriving(e)
    BY <1>0, <2>1 DEF SameRun, Arriving
  <2>3. SameRun(For[e])
    BY <2>1
  <2> QED
    BY <1>1, <2>2, <2>3 DEF SameRun, Pending, Idle
<1>2. ASSUME NEW s \in Subscribers
      PROVE  /\ \A i \in 1..Len(arriving'[s]) : arriving'[s][i] \in sent' /\ For[arriving'[s][i]] = s
             /\ \A i, j \in 1..Len(arriving'[s]) : arriving'[s][i] = arriving'[s][j] => i = j
             /\ running'[s] # Idle =>
                    /\ running'[s].event \in sent'
                    /\ \A i \in 1..Len(arriving'[s]) : arriving'[s][i] # running'[s].event
  <2>1. SameRun(s)
    OBVIOUS
  <2>2. running'[s] # Idle => running[s] # Idle /\ running'[s].event = running[s].event
    BY <2>1 DEF SameRun
  <2>3. CASE arriving'[s] = arriving[s]
    BY <2>2, <2>3 DEF PlacesInv
  <2>4. CASE arriving'[s] = <<>>
    BY <1>0, <2>2, <2>4 DEF PlacesInv
  <2> QED
    BY <2>1, <2>3, <2>4 DEF SameRun
<1> QED
  BY <1>1, <1>2 DEF Onward, PlacesInv

LEMMA TakesOn ==
    ASSUME ShapeInv, PlacesInv, NEW s \in Subscribers, TakeEvent(s)
    PROVE  Onward /\ PlacesInv'
<1>0. Len(arriving[s]) \in Nat /\ sent' = sent
  BY Takes, ShapeFields
<1>1. \A i \in 1..Len(arriving'[s]) : i + 1 \in 1..Len(arriving[s]) /\ arriving'[s][i] = arriving[s][i + 1]
  BY <1>0, Takes
<1>2. 1 \in 1..Len(arriving[s]) /\ running'[s].event = arriving[s][1]
  BY <1>0, Takes
<1>3. ASSUME NEW e \in sent, Pending(e)' PROVE Pending(e)
  <2>1. For[e] \in Subscribers
    BY ShapeFields, JsAssumption
  <2>2. CASE For[e] = s
    BY <1>1, <1>2, <1>3, <2>2, Takes DEF Pending, Arriving
  <2>3. CASE For[e] # s
    BY <1>3, <2>1, <2>3, Takes DEF Pending, Arriving
  <2> QED
    BY <2>2, <2>3
<1>4. ASSUME NEW q \in Subscribers
      PROVE  /\ \A i \in 1..Len(arriving'[q]) : arriving'[q][i] \in sent' /\ For[arriving'[q][i]] = q
             /\ \A i, j \in 1..Len(arriving'[q]) : arriving'[q][i] = arriving'[q][j] => i = j
             /\ running'[q] # Idle =>
                    /\ running'[q].event \in sent'
                    /\ \A i \in 1..Len(arriving'[q]) : arriving'[q][i] # running'[q].event
  <2>1. CASE q # s
    BY <1>0, <2>1, Takes DEF PlacesInv
  <2>2. CASE q = s
    <3>1. \A i \in 1..Len(arriving'[q]) : arriving'[q][i] \in sent' /\ For[arriving'[q][i]] = q
      BY <1>0, <1>1, <2>2 DEF PlacesInv
    <3>2. ASSUME NEW i \in 1..Len(arriving'[q]), NEW j \in 1..Len(arriving'[q]), arriving'[q][i] = arriving'[q][j]
          PROVE  i = j
      <4>1. /\ i + 1 \in 1..Len(arriving[s]) /\ j + 1 \in 1..Len(arriving[s])
            /\ arriving[s][i + 1] = arriving[s][j + 1]
        BY <1>1, <2>2, <3>2
      <4>2. \A a, b \in 1..Len(arriving[s]) : arriving[s][a] = arriving[s][b] => a = b
        BY DEF PlacesInv
      <4>3. i \in Nat /\ j \in Nat /\ i + 1 = j + 1
        BY <4>1, <4>2, <3>2
      <4> QED
        BY <4>3
    <3>3. running'[q].event \in sent'
      BY <1>0, <1>2, <2>2 DEF PlacesInv
    <3>4. ASSUME NEW i \in 1..Len(arriving'[q]) PROVE arriving'[q][i] # running'[q].event
      <4>1. i + 1 # 1
        BY <3>4
      <4> QED
        BY <1>1, <1>2, <2>2, <4>1 DEF PlacesInv
    <3> QED
      BY <3>1, <3>2, <3>3, <3>4
  <2> QED
    BY <2>1, <2>2
<1> QED
  BY <1>0, <1>3, <1>4 DEF Onward, PlacesInv

LEMMA SendsOn ==
    ASSUME ShapeInv, PlacesInv, NEW e \in Events, SendEvent(e)
    PROVE  Onward /\ PlacesInv' /\ Pending(e)'
<1> DEFINE s == For[e]
           n == Len(arriving[For[e]])
<1>0. n \in Nat /\ s \in Subscribers /\ n + 1 \in 1..Len(arriving'[s]) /\ Len(arriving'[s]) = n + 1
  BY Sends
<1>1. /\ \A i \in 1..Len(arriving'[s]) : i \in 1..n \/ i = n + 1
      /\ \A i \in 1..n : arriving'[s][i] = arriving[s][i]
      /\ arriving'[s][n + 1] = e
  BY <1>0, Sends
<1>2. e \notin sent /\ sent' = sent \cup {e} /\ running' = running
  BY Sends
<1>3. \A i \in 1..n : arriving[s][i] \in sent /\ arriving[s][i] # e /\ For[arriving[s][i]] = s
  BY <1>0, <1>2 DEF PlacesInv
<1>4. \A q \in Subscribers \ {s} : arriving'[q] = arriving[q]
  BY Sends
<1> HIDE DEF n
<1>5. ASSUME NEW f \in sent, Pending(f)' PROVE Pending(f)
  <2>1. For[f] \in Subscribers
    BY ShapeFields, JsAssumption
  <2>2. CASE For[f] = s
    BY <1>1, <1>2, <1>5, <2>2 DEF Pending, Arriving, n
  <2>3. CASE For[f] # s
    BY <1>2, <1>4, <1>5, <2>1, <2>3 DEF Pending, Arriving
  <2> QED
    BY <2>2, <2>3
<1>6. ASSUME NEW q \in Subscribers
      PROVE  /\ \A i \in 1..Len(arriving'[q]) : arriving'[q][i] \in sent' /\ For[arriving'[q][i]] = q
             /\ \A i, j \in 1..Len(arriving'[q]) : arriving'[q][i] = arriving'[q][j] => i = j
             /\ running'[q] # Idle =>
                    /\ running'[q].event \in sent'
                    /\ \A i \in 1..Len(arriving'[q]) : arriving'[q][i] # running'[q].event
  <2>1. CASE q # s
    BY <1>2, <1>4, <2>1 DEF PlacesInv
  <2>2. CASE q = s
    <3>1. \A i \in 1..Len(arriving'[q]) : arriving'[q][i] \in sent' /\ For[arriving'[q][i]] = q
      BY <1>1, <1>2, <1>3, <2>2
    <3>2. ASSUME NEW i \in 1..Len(arriving'[q]), NEW j \in 1..Len(arriving'[q]), arriving'[q][i] = arriving'[q][j]
          PROVE  i = j
      <4>1. \A k, l \in 1..n : arriving[s][k] = arriving[s][l] => k = l
        BY <1>0 DEF PlacesInv, n
      <4> QED
        BY <1>1, <1>3, <2>2, <3>2, <4>1
    <3>3. running'[q] # Idle => /\ running'[q].event \in sent /\ running'[q].event \in sent'
                                /\ \A i \in 1..n : arriving[s][i] # running'[q].event
      BY <1>2, <2>2 DEF PlacesInv, n
    <3> QED
      BY <1>1, <1>2, <2>2, <3>1, <3>2, <3>3
  <2> QED
    BY <2>1, <2>2
<1>7. Pending(e)'
  BY <1>0, <1>1 DEF Pending, Arriving
<1> QED
  BY <1>2, <1>5, <1>6, <1>7 DEF Onward, PlacesInv

LEMMA ProceedsOn ==
    ASSUME ShapeInv, NEW s \in Subscribers, NEW at \in {"ordered", "queue", "queued"}, Proceeds(s, at),
           running[s] # Idle, at = "ordered" => running[s].at \in {"taken", "ordered"}, UNCHANGED arriving
    PROVE  \A q \in Subscribers : SameRun(q)
BY DEF Proceeds, SameRun

\* Work on the side of the calls, which leaves the events alone.
LEMMA CallsOn ==
    ASSUME ShapeInv, PlacesInv, UNCHANGED <<sent, running>>,
           \A s \in Subscribers : arriving'[s] = arriving[s] \/ arriving'[s] = <<>>
    PROVE  Onward /\ PlacesInv'
<1>1. \A s \in Subscribers : SameRun(s)
  BY DEF SameRun
<1> QED
  BY <1>1, RunsOn

LEMMA ExecuteOn ==
    ASSUME ShapeInv, PlacesInv, NEW c \in infos, Execute(c)
    PROVE  Onward /\ PlacesInv'
<1>1. CASE ExecuteUnsubscribe(c)
  <2>1. c.subscriber \in Subscribers
    BY <1>1, Unsubscribes DEF ShapeInv, CallOK, Publishers
  <2> QED
    BY <1>1, <2>1, Unsubscribes, QueueKeptOrDropped, CallsOn
<1>2. CASE ~ExecuteUnsubscribe(c)
  <2>1. UNCHANGED deliveryVars
    BY <1>2, PlainExecution, FinishLooks, FinishAnswers, Subscribes DEF Execute
  <2> QED
    BY <2>1, CallsOn DEF deliveryVars
<1> QED
  BY <1>1, <1>2

LEMMA NextOnward ==
    ASSUME ShapeInv, PlacesInv, PastInv, [Next]_vars
    PROVE  Onward /\ PlacesInv'
<1>1. CASE Calls
  BY <1>1, CallsQueue, CallsOn DEF deliveryVars
<1>2. ASSUME NEW c \in infos, Execute(c) PROVE Onward /\ PlacesInv'
  BY <1>2, ExecuteOn
<1>3. ASSUME NEW c \in infos, Complete(c) PROVE Onward /\ PlacesInv'
  BY <1>3, Completes, CallsOn DEF deliveryVars
<1>4. ASSUME NEW s \in Subscribers, FinishCommonEvent(s) PROVE Onward /\ PlacesInv'
  BY <1>4, FinishQueues, CallsOn DEF deliveryVars
<1>5. ASSUME NEW s \in Subscribers, Collect(s) PROVE Onward /\ PlacesInv'
  BY <1>5, Collects, CallsOn DEF deliveryVars
<1>6. CASE Collected
  BY <1>6, Finalizes, QueueKeptOrDropped, CallsOn
<1>7. ASSUME NEW s \in Subscribers, TakeEvent(s) PROVE Onward /\ PlacesInv'
  BY <1>7, TakesOn
<1>8. ASSUME NEW s \in Subscribers, OnReceiveEvent(s) PROVE Onward /\ PlacesInv'
  <2>1. running[s] # Idle
    BY <1>8, Receives DEF Idle
  <2> QED
    BY <1>8, <2>1, Receives, ProceedsOn, RunsOn
<1>9. ASSUME NEW s \in Subscribers, HandOver(s) PROVE Onward /\ PlacesInv'
  <2>1. running[s] # Idle
    BY <1>9, HandsOver DEF Idle
  <2> QED
    BY <1>9, <2>1, HandsOver, ProceedsOn, RunsOn
<1>10. ASSUME NEW s \in Subscribers, QueueWork(s) PROVE Onward /\ PlacesInv'
  <2>1. running[s] # Idle
    BY <1>10, QueuesWork DEF Idle
  <2> QED
    BY <1>10, <2>1, QueuesWork, ProceedsOn, RunsOn
<1>11. ASSUME NEW s \in Subscribers, EndReceive(s) PROVE Onward /\ PlacesInv'
  <2>1. \A q \in Subscribers : SameRun(q)
    BY <1>11, Ends DEF SameRun
  <2> QED
    BY <1>11, <2>1, Ends, RunsOn
<1>12. ASSUME NEW w \in loop, UvQueueWorkOnReceiveEvent(w) PROVE Onward /\ PlacesInv'
  <2>1. w.subscriber \in Subscribers /\ w.event \in Events
    BY ShapeFields DEF PastInv, LoopPast, Past
  <2> QED
    BY <1>12, <2>1, CallsBack, CallsOn
<1>13. ASSUME NEW e \in Events, SendEvent(e) PROVE Onward /\ PlacesInv'
  BY <1>13, SendsOn
<1>14. CASE UNCHANGED vars
  BY <1>14, CallsOn DEF vars, eventVars
<1> QED
  BY <1>1, <1>2, <1>3, <1>4, <1>5, <1>6, <1>7, <1>8, <1>9, <1>10, <1>11, <1>12, <1>13, <1>14
  DEF Next, Work, RunnerStep

-----------------------------------------------------------------------------
(* Who holds an event that is past *)

\* The event of a callback that has looked for the entry is past.
LEMMA RunningPast ==
    ASSUME ShapeInv, PlacesInv, NEW s \in Subscribers, running[s].at \in {"queue", "queued"}
    PROVE  Past(running[s].event) /\ running[s].event \in Events /\ For[running[s].event] = s
<1>1. RunningOK(s, running[s]) /\ running[s] # Idle
  BY ShapeFields DEF Idle
<1>2. running[s].event \in Events /\ For[running[s].event] = s
  BY <1>1 DEF RunningOK
<1>3. running[s].event \in sent /\ \A i \in 1..Len(arriving[s]) : arriving[s][i] # running[s].event
  BY <1>1 DEF PlacesInv
<1> QED
  BY <1>2, <1>3 DEF Past, Pending, Arriving

LEMMA OwnPastKept ==
    ASSUME OwnPast, Onward, ShapeInv, own' = own,
           \A s \in Subscribers : running'[s].at = "ordered" => running'[s] = running[s],
           \A s \in Subscribers : running[s].at = "ordered" => running'[s] = running[s]
    PROVE  OwnPast'
<1> SUFFICES ASSUME NEW s \in Subscribers
             PROVE  /\ own[s] # None =>
                           /\ own[s] \in sent' /\ For[own[s]] = s
                           /\ running'[s].at # "ordered" => ~Pending(own[s])'
                    /\ running'[s].at = "ordered" => own[s] = running'[s].event
  BY DEF OwnPast
<1>1. ASSUME NEW e, e = own[s], e # None
      PROVE  e \in sent' /\ For[e] = s /\ (running'[s].at # "ordered" => ~Pending(e)')
  <2>1. e \in sent /\ For[e] = s /\ (running[s].at # "ordered" => ~Pending(e))
    BY <1>1 DEF OwnPast
  <2> QED
    BY <2>1 DEF Onward
<1> QED
  BY <1>1 DEF OwnPast

LEMMA HeldPastKept ==
    ASSUME HeldPast, Onward, \A s \in Subscribers : \A e : Held(s, e)' => Held(s, e) \/ e = None
    PROVE  HeldPast'
BY PastStays DEF HeldPast

LEMMA FinishingPastKept ==
    ASSUME ShapeInv, HeldPast, FinishingPast, Onward,
           \A c \in infos' : c.at = "finishing" =>
               \/ c \in infos
               \/ c.subscriber \in Subscribers /\ Held(c.subscriber, c.argument) /\ c.argument # None
    PROVE  FinishingPast'
BY PastStays DEF HeldPast, FinishingPast

LEMMA LoopPastKept == ASSUME LoopPast, Onward, loop' \subseteq loop PROVE LoopPast'
BY PastStays DEF LoopPast

LEMMA SeenPastKept == ASSUME SeenPast, Onward, seen' = seen PROVE SeenPast'
BY PastStays DEF SeenPast

LEMMA AnsweredPastKept ==
    ASSUME AnsweredPast, Onward, \A e \in Events : Tried(e)' => Tried(e) \/ (e \in Ordered /\ Past(e))
    PROVE  AnsweredPast'
BY PastStays DEF AnsweredPast

\* What the calls do to what is past.
LEMMA CallsPast ==
    ASSUME ShapeInv, PastInv, Onward, UNCHANGED <<own, running, seen>>, loop' \subseteq loop,
           \A s \in Subscribers : \A e : Held(s, e)' => Held(s, e) \/ e = None,
           \A c \in infos' : c.at = "finishing" =>
               \/ c \in infos
               \/ c.subscriber \in Subscribers /\ Held(c.subscriber, c.argument) /\ c.argument # None,
           \A e \in Events : Tried(e)' => Tried(e) \/ (e \in Ordered /\ Past(e))
    PROVE  PastInv'
<1>1. OwnPast'
  BY OwnPastKept DEF PastInv
<1>2. HeldPast'
  BY HeldPastKept DEF PastInv
<1>3. FinishingPast'
  BY FinishingPastKept DEF PastInv
<1>4. LoopPast' /\ SeenPast' /\ AnsweredPast'
  BY LoopPastKept, SeenPastKept, AnsweredPastKept DEF PastInv
<1> QED
  BY <1>1, <1>2, <1>3, <1>4 DEF PastInv

\* A step leaves the entries to those who had them, the calls too.
LEMMA HeldSame ==
    ASSUME subscriberInstances' = subscriberInstances
    PROVE  \A s, e : Held(s, e)' <=> Held(s, e)
BY DEF Held

LEMMA GoesThrough ==
    ASSUME ShapeInv, PlacesInv, NEW s \in Subscribers, running[s].at \in {"taken", "ordered"},
           Proceeds(s, "queue"), UNCHANGED <<arriving, sent>>, NEW e, e = running[s].event
    PROVE  Past(e)' /\ e \in Events /\ For[e] = s
<1>1. RunningOK(s, running[s]) /\ running[s] # Idle
  BY ShapeFields DEF Idle
<1>2. e \in Events /\ For[e] = s
  BY <1>1 DEF RunningOK
<1>3. e \in sent /\ \A i \in 1..Len(arriving[s]) : arriving[s][i] # e
  BY <1>1 DEF PlacesInv
<1>4. running'[s].at = "queue"
  BY DEF Proceeds
<1>5. Past(e)'
  BY <1>2, <1>3, <1>4 DEF Past, Pending, Arriving
<1> QED
  BY <1>2, <1>5

LEMMA PastExecute ==
    ASSUME ShapeInv, PastInv, Onward, NEW c \in infos, Execute(c)
    PROVE  PastInv'
<1>0. CallOK(c)
  BY DEF ShapeInv
<1>1. CASE ExecuteOther(c) \/ ExecuteGet(c) \/ ExecuteSet(c)
  BY <1>1, PlainExecution, HeldSame, CallsPast DEF Moves, deliveryVars
<1>2. CASE ExecuteFinish(c)
  <2>1. c.subscriber \in Subscribers
    BY <1>0, <1>2, FinishLooks DEF CallOK, Publishers
  <2>2. \A x \in infos' : x.at = "finishing" =>
            \/ x \in infos
            \/ x.subscriber \in Subscribers /\ Held(x.subscriber, x.argument) /\ x.argument # None
    BY <1>2, <2>1, FinishLooks DEF Moves
  <2>3. UNCHANGED <<own, running, seen, loop, subscriberInstances, answers, lost>>
    BY <1>2, FinishLooks DEF deliveryVars
  <2> QED
    BY <2>2, <2>3, HeldSame, CallsPast
<1>3. CASE ExecuteAnswer(c)
  <2>1. c.argument \in Ordered /\ Past(c.argument) /\ c.argument \in Events
    BY <1>3, FinishAnswers, JsAssumption DEF PastInv, FinishingPast
  <2>2. \A e \in Events : Tried(e)' => Tried(e) \/ (e \in Ordered /\ Past(e))
    BY <1>3, <2>1, FinishAnswers, FinishMarks
  <2>3. \A x \in infos' : x.at = "finishing" => x \in infos
    BY <1>3, FinishAnswers DEF Moves
  <2>4. UNCHANGED <<own, running, seen, loop, subscriberInstances>>
    BY <1>3, FinishAnswers DEF deliveryVars
  <2> QED
    BY <2>2, <2>3, <2>4, HeldSame, CallsPast
<1>4. CASE ExecuteSubscribe(c)
  <2>1. \A x \in infos' : x.at = "finishing" => x \in infos
    BY <1>4, Subscribes DEF Moves
  <2>2. UNCHANGED <<own, running, seen, loop, subscriberInstances, answers, lost>>
    BY <1>4, Subscribes DEF deliveryVars
  <2> QED
    BY <2>1, <2>2, HeldSame, CallsPast
<1>5. CASE ExecuteUnsubscribe(c)
  <2>1. \A x \in infos' : x.at = "finishing" => x \in infos
    BY <1>5, Unsubscribes DEF Moves
  <2>2. UNCHANGED <<own, running, seen, loop, subscriberInstances, answers, lost>>
    BY <1>5, Unsubscribes
  <2> QED
    BY <2>1, <2>2, HeldSame, CallsPast
<1> QED
  BY <1>1, <1>2, <1>3, <1>4, <1>5 DEF Execute

\* Only new entries, which hold nothing, are made.
LEMMA EntriesComplete ==
    ASSUME ShapeInv, NEW c \in infos, Complete(c)
    PROVE  \A s, e : Held(s, e)' => Held(s, e) \/ e = None
<1>1. CASE c.function = "subscribe" /\ c.errorCode = 0
  <2>1. c.subscriber \in Subscribers
    BY <1>1 DEF ShapeInv, CallOK, Publishers
  <2>2. subscriberInstances' = WithEntry(c.subscriber, [callbacks |-> {c.id}, commonEventResult |-> None])
    BY <1>1, Completes
  <2>3. \A s, e : Held(s, e)' <=> IF s = c.subscriber THEN e = None ELSE Held(s, e)
    BY <2>1, <2>2, EntryMade
  <2> QED
    BY <2>3
<1>2. CASE c.function = "unsubscribe"
  <2>1. subscriberInstances' = WithoutEntry(c.subscriber)
    BY <1>2, Completes
  <2> QED
    BY <2>1, EntryDropped
<1>3. CASE ~(c.function = "subscribe" /\ c.errorCode = 0) /\ c.function # "unsubscribe"
  BY <1>3, Completes, HeldSame
<1> QED
  BY <1>1, <1>2, <1>3

LEMMA PastCalls ==
    ASSUME ShapeInv, PastInv, Onward,
           \/ Calls \/ Collected \/ UNCHANGED vars
           \/ \E c \in infos : Complete(c)
           \/ \E s \in Subscribers : FinishCommonEvent(s) \/ Collect(s)
    PROVE  PastInv'
<1>1. CASE Calls
  <2>1. \A c \in infos' : c.at = "finishing" => c \in infos
    BY <1>1, CallsQueue DEF Queued
  <2> QED
    BY <1>1, <2>1, CallsQueue, HeldSame, CallsPast DEF deliveryVars
<1>2. CASE Collected
  BY <1>2, Finalizes, EntryDropped, CallsPast
<1>3. ASSUME NEW c \in infos, Complete(c) PROVE PastInv'
  BY <1>3, Completes, EntriesComplete, CallsPast DEF deliveryVars
<1>4. ASSUME NEW s \in Subscribers, FinishCommonEvent(s) PROVE PastInv'
  <2>1. \A c \in infos' : c.at = "finishing" => c \in infos
    BY <1>4, FinishQueues
  <2> QED
    BY <1>4, <2>1, FinishQueues, HeldSame, CallsPast DEF deliveryVars
<1>5. ASSUME NEW s \in Subscribers, Collect(s) PROVE PastInv'
  BY <1>5, Collects, HeldSame, CallsPast DEF deliveryVars
<1>6. CASE UNCHANGED vars
  BY <1>6, HeldSame, CallsPast DEF vars, callVars, tableVars, eventVars, resultVars
<1> QED
  BY <1>1, <1>2, <1>3, <1>4, <1>5, <1>6

LEMMA PastEvents ==
    ASSUME ShapeInv, PlacesInv, PastInv, Onward,
           \/ \E s \in Subscribers : RunnerStep(s)
           \/ \E w \in loop : UvQueueWorkOnReceiveEvent(w)
           \/ \E e \in Events : SendEvent(e)
    PROVE  PastInv'
<1>0. OwnPast /\ HeldPast /\ FinishingPast /\ LoopPast /\ SeenPast /\ AnsweredPast
  BY DEF PastInv
<1>1. ASSUME NEW s \in Subscribers, TakeEvent(s) PROVE PastInv'
  <2>1. OwnPast'
    <3>1. running[s].at # "ordered" /\ running'[s].at # "ordered"
      BY <1>1, Takes DEF Idle
    <3> QED
      BY <1>0, <1>1, <3>1, Takes, OwnPastKept
  <2>2. UNCHANGED <<infos, subscriberInstances, loop, seen, answers, lost>>
    BY <1>1, Takes
  <2> QED
    BY <1>0, <2>1, <2>2, HeldSame, HeldPastKept, FinishingPastKept, LoopPastKept, SeenPastKept, AnsweredPastKept
    DEF PastInv
<1>2. ASSUME NEW s \in Subscribers, OnReceiveEvent(s) PROVE PastInv'
  <2>1. UNCHANGED <<infos, subscriberInstances, arriving, sent, loop, seen, answers, lost>>
    BY <1>2, Receives
  <2>2. OwnPast'
    <3> PICK e : e = running[s].event
      OBVIOUS
    <3>0. own' = [own EXCEPT ![s] = e] /\ own'[s] = e /\ \A q \in Subscribers \ {s} : own'[q] = own[q]
      BY <1>2, Receives, ShapeFields
    <3>1. RunningOK(s, running[s]) /\ running[s] # Idle
      BY <1>2, Receives, ShapeFields DEF Idle
    <3>2. e \in sent /\ For[e] = s
      BY <3>1 DEF RunningOK, PlacesInv
    <3>3. Proceeds(s, IF e \in Ordered THEN "ordered" ELSE "queue")
      BY <1>2, Receives
    <3>4. running'[s].at # "ordered" => ~Pending(e)'
      <4>1. CASE e \in Ordered
        BY <3>3, <4>1 DEF Proceeds
      <4>2. CASE e \notin Ordered
        BY <1>2, <2>1, <3>3, <4>2, Receives, GoesThrough DEF Past
      <4> QED
        BY <4>1, <4>2
    <3>5. running'[s].event = e /\ \A q \in Subscribers \ {s} : running'[q] = running[q]
      BY <3>3 DEF Proceeds
    <3>6. ASSUME NEW q \in Subscribers, NEW f, f = own'[q]
          PROVE  /\ f # None => f \in sent' /\ For[f] = q /\ (running'[q].at # "ordered" => ~Pending(f)')
                 /\ running'[q].at = "ordered" => f = running'[q].event
      <4>1. CASE q = s
        BY <2>1, <3>0, <3>2, <3>4, <3>5, <3>6, <4>1
      <4>2. CASE q # s
        <5>1. f = own[q] /\ running'[q] = running[q]
          BY <3>0, <3>5, <3>6, <4>2
        <5>2. /\ f # None => f \in sent /\ For[f] = q /\ (running[q].at # "ordered" => ~Pending(f))
              /\ running[q].at = "ordered" => f = running[q].event
          BY <1>0, <5>1 DEF OwnPast
        <5> QED
          BY <2>1, <5>1, <5>2 DEF Onward
      <4> QED
        BY <4>1, <4>2
    <3> QED
      BY <3>6 DEF OwnPast
  <2> QED
    BY <1>0, <2>1, <2>2, HeldSame, HeldPastKept, FinishingPastKept, LoopPastKept, SeenPastKept, AnsweredPastKept
    DEF PastInv
<1>3. ASSUME NEW s \in Subscribers, HandOver(s) PROVE PastInv'
  <2> PICK e : e = running[s].event
    OBVIOUS
  <2>1. UNCHANGED <<infos, arriving, sent, loop, seen, answers, lost>> /\ Proceeds(s, "queue") /\ running[s].at = "ordered"
    BY <1>3, HandsOver
  <2>2. Past(e)' /\ e \in Events /\ For[e] = s /\ own[s] = e
    BY <1>0, <2>1, GoesThrough DEF OwnPast
  <2>3. e \in Ordered
    <3>1. RunningOK(s, running[s])
      BY ShapeFields
    <3> QED
      BY <2>1, <3>1 DEF RunningOK, Idle
  <2>4. HeldPast'
    <3>1. \A q, f : Held(q, f)' => Held(q, f) \/ (q = s /\ f = e)
      BY <1>3, <2>2, HandsOver, HeldSame
    <3> QED
      BY <1>0, <2>2, <2>3, <3>1, PastStays DEF HeldPast
  <2>5. OwnPast'
    <3>1. own'[s] \in {None, e} /\ \A q \in Subscribers \ {s} : own'[q] = own[q]
      BY <1>3, <2>2, HandsOver, ShapeFields
    <3>2. running'[s].at = "queue" /\ \A q \in Subscribers \ {s} : running'[q] = running[q]
      BY <2>1 DEF Proceeds
    <3>3. e \in sent' /\ ~Pending(e)'
      BY <2>2 DEF Past
    <3>4. ASSUME NEW q \in Subscribers, NEW f, f = own'[q]
          PROVE  /\ f # None => f \in sent' /\ For[f] = q /\ (running'[q].at # "ordered" => ~Pending(f)')
                 /\ running'[q].at = "ordered" => f = running'[q].event
      <4>1. CASE q = s
        BY <2>2, <3>1, <3>2, <3>3, <3>4, <4>1
      <4>2. CASE q # s
        <5>1. f = own[q] /\ running'[q] = running[q]
          BY <3>1, <3>2, <3>4, <4>2
        <5>2. /\ f # None => f \in sent /\ For[f] = q /\ (running[q].at # "ordered" => ~Pending(f))
              /\ running[q].at = "ordered" => f = running[q].event
          BY <1>0, <5>1 DEF OwnPast
        <5> QED
          BY <2>1, <5>1, <5>2 DEF Onward
      <4> QED
        BY <4>1, <4>2
    <3> QED
      BY <3>4 DEF OwnPast
  <2> QED
    BY <1>0, <2>1, <2>4, <2>5, FinishingPastKept, LoopPastKept, SeenPastKept, AnsweredPastKept DEF PastInv
<1>4. ASSUME NEW s \in Subscribers, QueueWork(s) PROVE PastInv'
  <2>1. UNCHANGED <<infos, subscriberInstances, arriving, sent, own, seen, answers, lost>>
        /\ Proceeds(s, "queued") /\ running[s].at = "queue"
    BY <1>4, QueuesWork
  <2>2. OwnPast'
    BY <1>0, <2>1, OwnPastKept DEF Proceeds
  <2>3. LoopPast'
    <3>1. PICK w : loop' = loop \cup {w} /\ w.subscriber = s /\ w.event = running[s].event
      BY <1>4, QueuesWork
    <3>2. Past(w.event) /\ For[w.event] = s
      BY <2>1, <3>1, RunningPast
    <3> QED
      BY <1>0, <3>1, <3>2, PastStays DEF LoopPast
  <2> QED
    BY <1>0, <2>1, <2>2, <2>3, HeldSame, HeldPastKept, FinishingPastKept, SeenPastKept, AnsweredPastKept DEF PastInv
<1>5. ASSUME NEW s \in Subscribers, EndReceive(s) PROVE PastInv'
  <2>1. UNCHANGED <<infos, subscriberInstances, loop, own, seen>>
    BY <1>5, Ends
  <2>2. OwnPast'
    <3>1. running[s].at # "ordered" /\ running'[s].at # "ordered"
      BY <1>5, Ends DEF Idle
    <3> QED
      BY <1>0, <1>5, <2>1, <3>1, Ends, OwnPastKept
  <2>3. \A e \in Events : Tried(e)' => Tried(e) \/ (e \in Ordered /\ Past(e))
    <3>1. Past(running[s].event) /\ running[s].event \in Events
      BY <1>5, Ends, RunningPast
    <3>2. CASE running[s].event \in Ordered /\ \E done \in BOOLEAN : Finish(running[s].event, done)
      BY <3>1, <3>2, FinishMarks
    <3>3. CASE UNCHANGED <<answers, lost>>
      BY <3>3
    <3> QED
      BY <1>5, <3>2, <3>3, Ends
  <2> QED
    BY <1>0, <2>1, <2>2, <2>3, HeldSame, HeldPastKept, FinishingPastKept, LoopPastKept, SeenPastKept, AnsweredPastKept
    DEF PastInv
<1>6. ASSUME NEW w \in loop, UvQueueWorkOnReceiveEvent(w) PROVE PastInv'
  <2>0. w.subscriber \in Subscribers /\ w.event \in Events /\ For[w.event] = w.subscriber /\ Past(w.event)
    BY <1>0, ShapeFields DEF LoopPast, Past
  <2>1. UNCHANGED <<infos, subscriberInstances, own, running, answers, lost>> /\ loop' \subseteq loop
    BY <1>6, <2>0, CallsBack
  <2>2. OwnPast'
    BY <1>0, <2>1, OwnPastKept
  <2>3. SeenPast'
    <3> SUFFICES ASSUME NEW s \in Subscribers, NEW i \in 1..Len(seen'[s]), NEW e, e = seen'[s][i]
                 PROVE  For[e] = s /\ Past(e)'
      BY DEF SeenPast
    <3>1. \/ i \in 1..Len(seen[s]) /\ e = seen[s][i]
          \/ s = w.subscriber /\ e = w.event
      BY <1>6, <2>0, CallsBack
    <3>2. For[e] = s /\ Past(e)
      BY <1>0, <2>0, <3>1 DEF SeenPast
    <3> QED
      BY <3>2, PastStays
  <2> QED
    BY <1>0, <2>1, <2>2, <2>3, HeldSame, HeldPastKept, FinishingPastKept, LoopPastKept, AnsweredPastKept DEF PastInv
<1>7. ASSUME NEW e \in Events, SendEvent(e) PROVE PastInv'
  <2>1. UNCHANGED <<infos, subscriberInstances, own, running, loop, seen, answers, lost>>
    BY <1>7, Sends
  <2> QED
    BY <2>1, HeldSame, CallsPast
<1> QED
  BY <1>1, <1>2, <1>3, <1>4, <1>5, <1>6, <1>7 DEF RunnerStep

LEMMA PastNext ==
    ASSUME ShapeInv, PlacesInv, PastInv, [Next]_vars
    PROVE  PastInv'
<1>1. Onward
  BY NextOnward
<1> QED
  BY <1>1, PastExecute, PastCalls, PastEvents DEF Next, Work

-----------------------------------------------------------------------------
(* Answers come one at a time *)

\* Who is gone stays gone, what is answered stays answered.
LEMMA NeverBack ==
    ASSUME ShapeInv, PastInv, [Next]_vars
    PROVE  /\ gone \subseteq gone'
           /\ \A e \in Events : Tried(e) => Tried(e)'
           /\ sent' = sent \/ \E e \in Events : SendEvent(e)
<1> DEFINE Goal == /\ gone \subseteq gone'
                   /\ \A e \in Events : Tried(e) => Tried(e)'
                   /\ sent' = sent
<1>0. answers \in [Events -> Nat]
  BY DEF ShapeInv
<1>1. ASSUME NEW c \in infos, Execute(c) PROVE Goal
  <2>1. CASE ExecuteAnswer(c)
    <3>1. c.argument \in Events
      BY <2>1, FinishAnswers, JsAssumption DEF PastInv, FinishingPast
    <3> QED
      BY <1>0, <2>1, <3>1, FinishAnswers, FinishMarks DEF deliveryVars
  <2>2. CASE ~ExecuteAnswer(c)
    BY <1>1, <2>2, PlainExecution, FinishLooks, Subscribes, Unsubscribes DEF Execute, deliveryVars
  <2> QED
    BY <2>1, <2>2
<1>2. ASSUME NEW s \in Subscribers, EndReceive(s) PROVE Goal
  <2>1. CASE \E done \in BOOLEAN : Finish(running[s].event, done)
    BY <1>0, <1>2, <2>1, Ends, FinishMarks
  <2>2. CASE UNCHANGED <<answers, lost>>
    BY <1>2, <2>2, Ends
  <2> QED
    BY <1>2, <2>1, <2>2, Ends
<1>3. ASSUME NEW s \in Subscribers, TakeEvent(s) \/ OnReceiveEvent(s) \/ HandOver(s) \/ QueueWork(s) PROVE Goal
  BY <1>3, Takes, Receives, HandsOver, QueuesWork
<1>4. ASSUME NEW w \in loop, UvQueueWorkOnReceiveEvent(w) PROVE Goal
  BY <1>4 DEF UvQueueWorkOnReceiveEvent, tableVars, resultVars
<1>5. ASSUME NEW s \in Subscribers, FinishCommonEvent(s) \/ Collect(s) PROVE Goal
  BY <1>5, FinishQueues, Collects DEF deliveryVars
<1>6. ASSUME NEW c \in infos, Complete(c) PROVE Goal
  BY <1>6, Completes DEF deliveryVars
<1>7. CASE Calls
  BY <1>7, CallsQueue DEF deliveryVars
<1>8. CASE Collected
  BY <1>8, Finalizes
<1>9. ASSUME NEW e \in Events, SendEvent(e)
      PROVE  gone \subseteq gone' /\ \A f \in Events : Tried(f) => Tried(f)'
  BY <1>9, Sends
<1>10. CASE UNCHANGED vars
  BY <1>10 DEF vars, tableVars, eventVars, resultVars
<1> QED
  BY <1>1, <1>2, <1>3, <1>4, <1>5, <1>6, <1>7, <1>8, <1>9, <1>10 DEF Next, Work, RunnerStep

LEMMA TurnNext ==
    ASSUME ShapeInv, PastInv, TurnInv, [Next]_vars
    PROVE  TurnInv'
<1>0. ASSUME NEW e \in Events, ~Tried(e)' PROVE ~Tried(e)
  BY <1>0, NeverBack DEF ShapeInv
<1>1. CASE sent' = sent
  BY <1>0, <1>1, ShapeFields DEF TurnInv
<1>2. ASSUME NEW e \in Events, SendEvent(e) PROVE TurnInv'
  <2> SUFFICES ASSUME NEW f \in sent' \cap Ordered, NEW g \in sent' \cap Ordered, For[f] = For[g],
                      ~Tried(f)', ~Tried(g)'
               PROVE  f = g
    BY DEF TurnInv
  <2>1. f \in Events /\ g \in Events /\ ~Tried(f) /\ ~Tried(g)
    BY <1>0, JsAssumption
  <2>2. sent' = sent \cup {e} /\ (e \in Ordered => \A h \in sent \cap Ordered : For[h] = For[e] => Tried(h))
    BY <1>2, Sends
  <2> QED
    BY <2>1, <2>2 DEF TurnInv
<1> QED
  BY <1>1, <1>2, NeverBack

-----------------------------------------------------------------------------
(* The table and the service *)

LEMMA CallsInvKept ==
    ASSUME CallsInv, infos' \subseteq infos, gone \subseteq gone', UNCHANGED <<subscribed, refused>>,
           DOMAIN subscriberInstances' \subseteq DOMAIN subscriberInstances, collecting' = collecting
    PROVE  CallsInv'
BY DEF CallsInv, IsCall

\* A call that has to do with no subscription.
Harmless(c) == c.function # "subscribe" /\ c.function # "unsubscribe"

LEMMA CallsInvHarmless ==
    ASSUME CallsInv, gone \subseteq gone', UNCHANGED <<subscribed, refused, subscriberInstances, collecting>>,
           \A x \in infos' : x \in infos \/ (Harmless(x) /\ collecting = None)
                                \/ (Harmless(x) /\ \E c \in infos : x.subscriber = c.subscriber)
    PROVE  CallsInv'
<1>1. \A x, s : IsCall(x, "subscribe", s)' => IsCall(x, "subscribe", s)
  BY DEF IsCall, Harmless
<1>2. \A x, s : IsCall(x, "unsubscribe", s)' => IsCall(x, "unsubscribe", s)
  BY DEF IsCall, Harmless
<1>3. collecting # None => collecting \in gone' /\ \A x \in infos' : x.subscriber # collecting
  BY DEF CallsInv
<1> QED
  BY <1>1, <1>2, <1>3 DEF CallsInv

LEMMA CallsInvQueued ==
    ASSUME ShapeInv, CallsInv, RefInv, Calls
    PROVE  CallsInv'
<1>0. gone \subseteq gone' /\ UNCHANGED <<subscribed, refused, subscriberInstances, collecting>>
  BY CallsQueue
<1>1. CASE infos' = infos
  BY <1>0, <1>1, CallsInvHarmless
<1>2. ASSUME NEW c, Queued(c) PROVE CallsInv'
  <2>0. infos' = infos \cup {c} /\ collecting = None /\ c.at = "queued"
    BY <1>2 DEF Queued
  <2>1. CASE Harmless(c)
    BY <1>0, <2>0, <2>1, CallsInvHarmless
  <2>2. CASE c.function = "subscribe"
    <3>1. /\ c.subscriber \in Subscribers \ (DOMAIN subscriberInstances \cup gone)
          /\ \A d \in infos : ~(d.function = "subscribe" /\ d.subscriber = c.subscriber)
      BY <1>2, <2>2 DEF Queued, Ordinary, Getters, Setters, Publishers, RefInv
    <3>2. \A x, s : IsCall(x, "subscribe", s)' <=> IsCall(x, "subscribe", s) \/ (x = c /\ s = c.subscriber)
      BY <2>0, <2>2 DEF IsCall
    <3>3. \A x, s : IsCall(x, "unsubscribe", s)' <=> IsCall(x, "unsubscribe", s)
      BY <2>0, <2>2 DEF IsCall
    <3>4. \A x : ~IsCall(x, "subscribe", c.subscriber) /\ ~(c.subscriber \in Subscribers /\ IsCall(x, "unsubscribe", c.subscriber))
      BY <3>1 DEF IsCall, CallsInv
    <3> QED
      BY <1>0, <2>0, <3>1, <3>2, <3>3, <3>4 DEF CallsInv
  <2>3. CASE c.function = "unsubscribe"
    <3>1. c.subscriber \in DOMAIN subscriberInstances /\ c.subscriber \notin gone /\ c.subscriber \in gone'
      BY <1>2, <2>3 DEF Queued, Ordinary, Getters, Setters, Publishers
    <3>2. \A x, s : IsCall(x, "unsubscribe", s)' <=> IsCall(x, "unsubscribe", s) \/ (x = c /\ s = c.subscriber)
      BY <2>0, <2>3 DEF IsCall
    <3>3. \A x, s : IsCall(x, "subscribe", s)' <=> IsCall(x, "subscribe", s)
      BY <2>0, <2>3 DEF IsCall
    <3>4. c.subscriber \in Subscribers /\ \A x : ~IsCall(x, "unsubscribe", c.subscriber) /\ ~IsCall(x, "subscribe", c.subscriber)
      BY <3>1 DEF CallsInv, ShapeInv
    <3> QED
      BY <1>0, <2>0, <3>1, <3>2, <3>3, <3>4 DEF CallsInv
  <2> QED
    BY <2>1, <2>2, <2>3 DEF Harmless
<1> QED
  BY <1>1, <1>2, CallsQueue

LEMMA CallsInvExecute ==
    ASSUME ShapeInv, CallsInv, NEW c \in infos, Execute(c)
    PROVE  CallsInv'
<1>1. CASE ExecuteOther(c) \/ ExecuteGet(c) \/ ExecuteSet(c)
  <2>1. Harmless(c)
    BY <1>1, PlainExecution DEF Harmless, Ordinary, Getters, Setters, Publishers
  <2>2. \A x \in infos' : x \in infos \/ (Harmless(x) /\ \E y \in infos : x.subscriber = y.subscriber)
    BY <1>1, <2>1, PlainExecution DEF Moves, Harmless
  <2> QED
    BY <1>1, <2>2, PlainExecution, CallsInvHarmless
<1>2. CASE ExecuteFinish(c) \/ ExecuteAnswer(c)
  <2>1. Harmless(c)
    BY <1>2, FinishLooks, FinishAnswers DEF Harmless
  <2>2. \A x \in infos' : x \in infos \/ (Harmless(x) /\ \E y \in infos : x.subscriber = y.subscriber)
    BY <1>2, <2>1, FinishLooks, FinishAnswers DEF Moves, Harmless
  <2> QED
    BY <1>2, <2>2, FinishLooks, FinishAnswers, CallsInvHarmless
<1>3. CASE ExecuteSubscribe(c)
  <2>1. PICK d : /\ Moves(c, d) /\ d.at = "done" /\ subscribed \subseteq subscribed'
                 /\ subscribed' \subseteq subscribed \cup {c.subscriber} /\ refused \subseteq refused'
                 /\ IF d.errorCode = 0 THEN c.subscriber \in subscribed' ELSE c.subscriber \in refused'
    BY <1>3, Subscribes
  <2>2. c.at = "queued" /\ c.function = "subscribe" /\ UNCHANGED <<subscriberInstances, gone, collecting>>
    BY <1>3, Subscribes
  <2>3. IsCall(c, "subscribe", c.subscriber) /\ c.subscriber \in Subscribers
    BY <2>2 DEF IsCall, ShapeInv, CallOK, Publishers
  <2>4. \A x, s : IsCall(x, "unsubscribe", s)' => IsCall(x, "unsubscribe", s)
    BY <2>1, <2>2 DEF IsCall, Moves
  <2>5. \A x, s : IsCall(x, "subscribe", s)' => (x # c /\ IsCall(x, "subscribe", s)) \/ (x = d /\ s = c.subscriber)
    BY <2>1, <2>2 DEF IsCall, Moves
  <2>6. collecting # None => collecting \in gone' /\ \A x \in infos' : x.subscriber # collecting
    BY <2>1, <2>2 DEF CallsInv, Moves
  <2>7. c.subscriber \notin DOMAIN subscriberInstances
    BY <2>2, <2>3 DEF CallsInv
  <2>8. \A x, s : s \in Subscribers /\ IsCall(x, "subscribe", s) /\ s = c.subscriber => x = c
    BY <2>3 DEF CallsInv
  <2>9. \A x : ~IsCall(x, "unsubscribe", c.subscriber)
    BY <2>3 DEF CallsInv
  <2> QED
    BY <2>1, <2>2, <2>3, <2>4, <2>5, <2>6, <2>7, <2>8, <2>9 DEF CallsInv
<1>4. CASE ExecuteUnsubscribe(c)
  <2>1. PICK d : /\ Moves(c, d) /\ d.at = "done" /\ subscribed \ {c.subscriber} \subseteq subscribed'
                 /\ subscribed' \subseteq subscribed /\ refused \subseteq refused'
                 /\ IF d.errorCode = 0 THEN c.subscriber \notin subscribed' ELSE c.subscriber \in refused'
    BY <1>4, Unsubscribes DEF Unlistened
  <2>2. c.at = "queued" /\ c.function = "unsubscribe" /\ UNCHANGED <<subscriberInstances, gone, collecting>>
    BY <1>4, Unsubscribes
  <2>3. IsCall(c, "unsubscribe", c.subscriber) /\ c.subscriber \in Subscribers
    BY <2>2 DEF IsCall, ShapeInv, CallOK, Publishers
  <2>4. \A x, s : IsCall(x, "subscribe", s)' => IsCall(x, "subscribe", s)
    BY <2>1, <2>2 DEF IsCall, Moves
  <2>5. \A x, s : IsCall(x, "unsubscribe", s)' => (x # c /\ IsCall(x, "unsubscribe", s)) \/ (x = d /\ s = c.subscriber)
    BY <2>1, <2>2 DEF IsCall, Moves
  <2>6. collecting # None => collecting \in gone' /\ \A x \in infos' : x.subscriber # collecting
    BY <2>1, <2>2 DEF CallsInv, Moves
  <2>7. c.subscriber \in gone
    BY <2>3 DEF CallsInv
  <2>8. \A x, s : s \in Subscribers /\ IsCall(x, "unsubscribe", s) /\ s = c.subscriber => x = c
    BY <2>3 DEF CallsInv
  <2>9. \A x : ~IsCall(x, "subscribe", c.subscriber)
    BY <2>3 DEF CallsInv
  <2> QED
    BY <2>1, <2>2, <2>3, <2>4, <2>5, <2>6, <2>7, <2>8, <2>9 DEF CallsInv
<1> QED
  BY <1>1, <1>2, <1>3, <1>4 DEF Execute

LEMMA CallsInvComplete ==
    ASSUME ShapeInv, CallsInv, NEW c \in infos, Complete(c)
    PROVE  CallsInv'
<1>0. infos' = infos \ {c} /\ collecting = None /\ UNCHANGED <<subscribed, refused, gone, collecting>>
  BY Completes
<1>1. CASE c.function = "subscribe" /\ c.errorCode = 0
  <2>1. c.subscriber \in Subscribers
    BY <1>1 DEF ShapeInv, CallOK, Publishers
  <2>2. DOMAIN subscriberInstances' = DOMAIN subscriberInstances \cup {c.subscriber}
    BY <1>1, <2>1, Completes, EntryMade
  <2>3. \A x : ~IsCall(x, "subscribe", c.subscriber)'
    BY <1>0, <1>1, <2>1 DEF CallsInv, IsCall
  <2>4. \A x, f, s : IsCall(x, f, s)' => IsCall(x, f, s)
    BY <1>0 DEF IsCall
  <2> QED
    BY <1>0, <2>1, <2>2, <2>3, <2>4 DEF CallsInv
<1>2. CASE c.function = "unsubscribe"
  <2>1. subscriberInstances' = WithoutEntry(c.subscriber)
    BY <1>2, Completes
  <2>2. DOMAIN subscriberInstances' \subseteq DOMAIN subscriberInstances
    BY <2>1, EntryDropped
  <2> QED
    BY <1>0, <2>2, CallsInvKept
<1>3. CASE ~(c.function = "subscribe" /\ c.errorCode = 0) /\ c.function # "unsubscribe"
  <2>1. subscriberInstances' = subscriberInstances
    BY <1>3, Completes
  <2> QED
    BY <1>0, <2>1, CallsInvKept
<1> QED
  BY <1>1, <1>2, <1>3

LEMMA CallsInvCollects ==
    ASSUME ShapeInv, CallsInv, Collected \/ \E s \in Subscribers : Collect(s)
    PROVE  CallsInv'
<1>1. CASE Collected
  <2>1. /\ collecting \in Subscribers /\ collecting' = None /\ subscribed \ {collecting} \subseteq subscribed'
        /\ subscribed' \subseteq subscribed /\ refused \subseteq refused' /\ UNCHANGED <<infos, gone>>
    BY <1>1, Finalizes DEF Unlistened
  <2>2. DOMAIN subscriberInstances' \subseteq DOMAIN subscriberInstances
    BY <1>1, Finalizes, EntryDropped
  <2>3. \A x \in infos : x.subscriber # collecting
    BY <2>1, JsAssumption DEF CallsInv
  <2>4. \A x, f, s : IsCall(x, f, s)' <=> IsCall(x, f, s)
    BY <2>1 DEF IsCall
  <2>5. \A x, f, s : IsCall(x, f, s) => s # collecting
    BY <2>3 DEF IsCall
  <2> QED
    BY <2>1, <2>2, <2>4, <2>5 DEF CallsInv
<1>2. ASSUME NEW s \in Subscribers, Collect(s) PROVE CallsInv'
  <2>1. /\ collecting = None /\ gone' = gone \cup {s} /\ \A c \in infos : c.subscriber # s
        /\ collecting' \in {s, None} /\ UNCHANGED <<infos, subscribed, refused, subscriberInstances>>
    BY <1>2, Collects
  <2>2. \A x, f, q : IsCall(x, f, q)' <=> IsCall(x, f, q)
    BY <2>1 DEF IsCall
  <2> QED
    BY <2>1, <2>2 DEF CallsInv
<1> QED
  BY <1>1, <1>2

LEMMA CallsInvNext ==
    ASSUME ShapeInv, PastInv, CallsInv, RefInv, [Next]_vars
    PROVE  CallsInv'
<1>1. ASSUME NEW s \in Subscribers, FinishCommonEvent(s) PROVE CallsInv'
  <2>1. \A x \in infos' : x \in infos \/ (Harmless(x) /\ collecting = None)
    BY <1>1, FinishQueues DEF Harmless
  <2> QED
    BY <1>1, <2>1, FinishQueues, CallsInvHarmless
<1>2. ASSUME NEW s \in Subscribers, RunnerStep(s) PROVE CallsInv'
  <2>1. DOMAIN subscriberInstances' = DOMAIN subscriberInstances
    BY <1>2, Takes, Receives, HandsOver, QueuesWork, Ends DEF RunnerStep
  <2>2. UNCHANGED <<infos, gone, subscribed, refused, collecting>>
    BY <1>2, Takes, Receives, HandsOver, QueuesWork, Ends DEF RunnerStep
  <2> QED
    BY <2>1, <2>2, CallsInvKept
<1>3. ASSUME NEW w \in loop, UvQueueWorkOnReceiveEvent(w) PROVE CallsInv'
  BY <1>3, CallsInvKept DEF UvQueueWorkOnReceiveEvent, callVars, tableVars
<1>4. ASSUME NEW e \in Events, SendEvent(e) PROVE CallsInv'
  BY <1>4, Sends, CallsInvKept
<1>5. CASE UNCHANGED vars
  BY <1>5, CallsInvKept DEF vars, callVars, tableVars
<1> QED
  BY <1>1, <1>2, <1>3, <1>4, <1>5, CallsInvQueued, CallsInvExecute, CallsInvComplete, CallsInvCollects DEF Next, Work

\* An object's reference is kept once it has one.
LEMMA RefNext ==
    ASSUME ShapeInv, PastInv, CallsInv, RefInv, [Next]_vars
    PROVE  RefInv'
<1> DEFINE Whole == called \in Nat /\ others \in Nat /\ (\A c \in infos : c.id \in Nat)
           Kept == DOMAIN callbackRef = Subscribers
                   /\ \A s \in Subscribers : s \in subscribed \cup DOMAIN subscriberInstances => callbackRef[s] # None
<1>0. Whole /\ Kept /\ (Whole' /\ Kept' => RefInv')
  BY DEF RefInv
<1>1. ASSUME UNCHANGED callbackRef, subscribed' \subseteq subscribed,
             DOMAIN subscriberInstances' \subseteq DOMAIN subscriberInstances \cup subscribed
      PROVE  Kept'
  BY <1>0, <1>1
<1>2. ASSUME UNCHANGED <<called, others>>, infos' \subseteq infos PROVE Whole'
  BY <1>0, <1>2
<1>3. ASSUME UNCHANGED <<called, others>>, NEW c \in infos, NEW changes, Advance(c, changes), "id" \notin DOMAIN changes
      PROVE  Whole'
  <2>1. Updated(c, changes).id \in Nat
    BY <1>0, <1>3 DEF Updated, ShapeInv, CallOK, Fields
  <2> QED
    BY <1>0, <1>3, <2>1 DEF Advance
<1>4. ASSUME NEW f, NEW s, NEW argument, Queue(f, s, argument) PROVE Whole' /\ Kept'
  <2>1. called' \in Nat /\ others' \in Nat
    BY <1>0, <1>4 DEF Queue
  <2>2. ASSUME NEW about PROVE Info(called' + others', f, s, argument, about).id \in Nat
    <3>1. \A id : Info(id, f, s, argument, about).id = id
      BY DEF Info
    <3> QED
      BY <2>1, <3>1
  <2>3. Whole'
    BY <1>0, <1>4, <2>1, <2>2 DEF Queue
  <2> QED
    BY <1>1, <1>4, <2>3 DEF Queue
<1>5. ASSUME Calls PROVE Whole' /\ Kept'
  <2>1. (\E f, s, argument : Queue(f, s, argument)) \/ UNCHANGED <<callVars, callbackRef, subscribed, subscriberInstances>>
    BY <1>5 DEF Calls, CreateSubscriber, Subscribe, Unsubscribe, GetSubscribeInfo, IsOrderedCommonEvent,
       IsStickyCommonEvent, GetCode, SetCode, GetData, SetData, SetCodeAndData, AbortCommonEvent,
       ClearAbortCommonEvent, GetAbortCommonEvent, Publish, PublishAsUser, Call
  <2> QED
    BY <1>0, <1>1, <1>2, <1>4, <2>1 DEF callVars
<1>6. ASSUME NEW c \in infos, Execute(c) PROVE Whole' /\ Kept'
  <2>1. Whole'
    <3> DEFINE Moved == UNCHANGED <<called, others>> /\ \E changes : Advance(c, changes) /\ "id" \notin DOMAIN changes
    <3>2. ASSUME ExecuteOther(c) PROVE Moved
      BY <3>2 DEF ExecuteOther
    <3>3. ASSUME ExecuteGet(c) PROVE Moved
      BY <3>3 DEF ExecuteGet
    <3>4. ASSUME ExecuteSet(c) PROVE Moved
      BY <3>4 DEF ExecuteSet
    <3>5. ASSUME ExecuteFinish(c) PROVE Moved
      BY <3>5 DEF ExecuteFinish
    <3>6. ASSUME ExecuteAnswer(c) PROVE Moved
      BY <3>6 DEF ExecuteAnswer
    <3>7. ASSUME ExecuteSubscribe(c) PROVE Moved
      BY <3>7 DEF ExecuteSubscribe
    <3>8. ASSUME ExecuteUnsubscribe(c) PROVE Moved
      BY <3>8 DEF ExecuteUnsubscribe
    <3>1. Moved
      BY <1>6, <3>2, <3>3, <3>4, <3>5, <3>6, <3>7, <3>8 DEF Execute
    <3> QED
      BY <1>3, <3>1
  <2>2. CASE ExecuteSubscribe(c)
    <3>1. c.id \in Nat /\ c.id # None
      BY <1>0, JsAssumption
    <3>2. callbackRef' = [callbackRef EXCEPT ![c.subscriber] = c.id]
      BY <2>2 DEF ExecuteSubscribe
    <3>3. subscribed' \subseteq subscribed \cup {c.subscriber} /\ UNCHANGED subscriberInstances
      BY <2>2, Subscribes
    <3> QED
      BY <1>0, <2>1, <3>1, <3>2, <3>3
  <2>3. CASE ~ExecuteSubscribe(c)
    <3>1. UNCHANGED <<callbackRef, subscriberInstances>>
      BY <1>6, <2>3 DEF Execute, ExecuteOther, ExecuteGet, ExecuteSet, ExecuteFinish, ExecuteAnswer,
         ExecuteUnsubscribe, tableVars
    <3>2. subscribed' \subseteq subscribed
      BY <1>6, <2>3, PlainExecution, FinishLooks, FinishAnswers, Unsubscribes DEF Execute, Unlistened
    <3> QED
      BY <1>1, <2>1, <3>1, <3>2
  <2> QED
    BY <2>2, <2>3
<1>7. ASSUME NEW c \in infos, Complete(c) PROVE Whole' /\ Kept'
  <2>1. UNCHANGED <<called, others, callbackRef, subscribed>> /\ infos' \subseteq infos
    BY <1>7 DEF Complete
  <2>2. DOMAIN subscriberInstances' \subseteq DOMAIN subscriberInstances \cup subscribed
    <3>1. CASE c.function = "subscribe" /\ c.errorCode = 0
      <4>1. c.subscriber \in Subscribers
        BY <3>1 DEF ShapeInv, CallOK, Publishers
      <4>2. DOMAIN subscriberInstances' = DOMAIN subscriberInstances \cup {c.subscriber}
        BY <1>7, <3>1, <4>1, Completes, EntryMade
      <4>3. c.subscriber \in subscribed
        BY <1>7, <3>1, <4>1, Completes DEF CallsInv, IsCall
      <4> QED
        BY <4>2, <4>3
    <3>2. CASE c.function = "unsubscribe"
      BY <1>7, <3>2, Completes, EntryDropped
    <3>3. CASE ~(c.function = "subscribe" /\ c.errorCode = 0) /\ c.function # "unsubscribe"
      BY <1>7, <3>3, Completes
    <3> QED
      BY <3>1, <3>2, <3>3
  <2> QED
    BY <1>1, <1>2, <2>1, <2>2
<1>8. ASSUME Collected PROVE Whole' /\ Kept'
  <2>1. UNCHANGED <<callVars, callbackRef>> /\ subscribed' \subseteq subscribed
    BY <1>8, Finalizes DEF Collected, Unlistened
  <2>2. DOMAIN subscriberInstances' \subseteq DOMAIN subscriberInstances
    BY <1>8, Finalizes, EntryDropped
  <2> QED
    BY <1>1, <1>2, <2>1, <2>2 DEF callVars
<1>9. ASSUME NEW s \in Subscribers, Collect(s) PROVE Whole' /\ Kept'
  BY <1>1, <1>2, <1>9 DEF Collect, callVars
<1>10. ASSUME NEW s \in Subscribers, FinishCommonEvent(s) PROVE Whole' /\ Kept'
  <2>1. \A e : Info(0, "finish", s, None, e).id \in Nat
    BY DEF Info
  <2> QED
    BY <1>0, <1>1, <1>10, <2>1 DEF FinishCommonEvent, tableVars
<1>11. ASSUME NEW s \in Subscribers, RunnerStep(s) PROVE Whole' /\ Kept'
  <2>1. DOMAIN subscriberInstances' = DOMAIN subscriberInstances
    BY <1>11, Takes, Receives, HandsOver, QueuesWork, Ends DEF RunnerStep
  <2>2. UNCHANGED <<callVars, callbackRef, subscribed>>
    BY <1>11 DEF RunnerStep, TakeEvent, OnReceiveEvent, HandOver, QueueWork, EndReceive, tableVars
  <2> QED
    BY <1>1, <1>2, <2>1, <2>2 DEF callVars
<1>12. ASSUME NEW w \in loop, UvQueueWorkOnReceiveEvent(w) PROVE Whole' /\ Kept'
  BY <1>1, <1>2, <1>12 DEF UvQueueWorkOnReceiveEvent, callVars, tableVars
<1>13. ASSUME NEW e \in Events, SendEvent(e) PROVE Whole' /\ Kept'
  BY <1>1, <1>2, <1>13 DEF SendEvent, callVars, tableVars
<1>14. ASSUME UNCHANGED vars PROVE Whole' /\ Kept'
  BY <1>1, <1>2, <1>14 DEF vars, callVars, tableVars
<1> HIDE DEF Whole, Kept
<1> QED
  BY <1>0, <1>5, <1>6, <1>7, <1>8, <1>9, <1>10, <1>11, <1>12, <1>13, <1>14, <1>4 DEF Next, Work

LEMMA AgreeKept ==
    ASSUME AgreeInv, UNCHANGED <<subscribed, refused>>,
           DOMAIN subscriberInstances' = DOMAIN subscriberInstances,
           \A x \in infos : \E y \in infos' : y.function = x.function /\ y.subscriber = x.subscriber
    PROVE  AgreeInv'
<1> SUFFICES ASSUME NEW s \in Subscribers PROVE Settling(s)' \/ Agrees(s)'
  BY DEF AgreeInv
<1>1. \A x, f : IsCall(x, f, s) => \E y : IsCall(y, f, s)'
  BY DEF IsCall
<1> QED
  BY <1>1 DEF AgreeInv, Settling, Agrees

\* A subscriber that a step does not concern.
LEMMA AgreeElsewhere ==
    ASSUME AgreeInv, NEW s \in Subscribers, refused \subseteq refused',
           s \in subscribed' <=> s \in subscribed,
           s \in DOMAIN subscriberInstances' <=> s \in DOMAIN subscriberInstances,
           Settling(s) => Settling(s)'
    PROVE  Settling(s)' \/ Agrees(s)'
BY DEF AgreeInv, Agrees

LEMMA AgreeExecute ==
    ASSUME ShapeInv, CallsInv, AgreeInv, NEW c \in infos, Execute(c)
    PROVE  AgreeInv'
<1>1. ASSUME NEW d, Moves(c, d)
      PROVE  \A x \in infos : \E y \in infos' : y.function = x.function /\ y.subscriber = x.subscriber
  BY <1>1 DEF Moves
<1>2. CASE ExecuteOther(c) \/ ExecuteGet(c) \/ ExecuteSet(c)
  BY <1>1, <1>2, PlainExecution, AgreeKept
<1>3. CASE ExecuteFinish(c) \/ ExecuteAnswer(c)
  BY <1>1, <1>3, FinishLooks, FinishAnswers, AgreeKept
<1>4. CASE ExecuteSubscribe(c) \/ ExecuteUnsubscribe(c)
  <2>1. PICK d : /\ Moves(c, d) /\ refused \subseteq refused'
                 /\ subscribed' \in {subscribed, subscribed \cup {c.subscriber}, subscribed \ {c.subscriber}}
    BY <1>4, Subscribes, Unsubscribes DEF Unlistened
  <2>2. UNCHANGED subscriberInstances /\ c.function \in {"subscribe", "unsubscribe"}
    BY <1>4, Subscribes, Unsubscribes
  <2>3. ASSUME NEW s, s = c.subscriber PROVE Settling(s)'
    BY <2>1, <2>2, <2>3 DEF Settling, IsCall, Moves
  <2>4. ASSUME NEW s \in Subscribers, s # c.subscriber PROVE Settling(s)' \/ Agrees(s)'
    <3>1. Settling(s) => Settling(s)'
      BY <2>1, <2>2, <2>4 DEF Settling, IsCall, Moves
    <3>2. s \in subscribed' <=> s \in subscribed
      BY <2>1, <2>4
    <3> QED
      BY <2>1, <2>2, <3>1, <3>2, AgreeElsewhere
  <2> QED
    BY <2>3, <2>4 DEF AgreeInv
<1> QED
  BY <1>2, <1>3, <1>4 DEF Execute

LEMMA AgreeComplete ==
    ASSUME ShapeInv, CallsInv, AgreeInv, NEW c \in infos, Complete(c)
    PROVE  AgreeInv'
<1>0. infos' = infos \ {c} /\ c.at = "done" /\ UNCHANGED <<subscribed, refused>>
  BY Completes
<1>1. CASE c.function = "subscribe" \/ c.function = "unsubscribe"
  <2>1. c.subscriber \in Subscribers
    BY <1>1 DEF ShapeInv, CallOK, Publishers
  <2>2. ASSUME NEW s \in Subscribers, s = c.subscriber PROVE Agrees(s)'
    <3>1. CASE c.function = "subscribe" /\ c.errorCode = 0
      <4>1. s \in DOMAIN subscriberInstances'
        BY <2>2, <3>1, Completes, EntryMade
      <4>2. s \in subscribed
        BY <1>0, <2>2, <3>1 DEF CallsInv, IsCall
      <4> QED
        BY <1>0, <4>1, <4>2 DEF Agrees
    <3>2. CASE c.function = "subscribe" /\ c.errorCode # 0
      <4>1. subscriberInstances' = subscriberInstances
        BY <3>2, Completes
      <4>2. s \in refused /\ s \notin DOMAIN subscriberInstances
        BY <1>0, <2>2, <3>2 DEF CallsInv, IsCall
      <4> QED
        BY <1>0, <4>1, <4>2 DEF Agrees
    <3>3. CASE c.function = "unsubscribe"
      <4>1. s \notin DOMAIN subscriberInstances'
        BY <2>2, <3>3, Completes, EntryDropped
      <4>2. s \notin subscribed \/ s \in refused
        BY <1>0, <2>2, <3>3 DEF CallsInv, IsCall
      <4> QED
        BY <1>0, <4>1, <4>2 DEF Agrees
    <3> QED
      BY <1>1, <3>1, <3>2, <3>3
  <2>3. ASSUME NEW s \in Subscribers, s # c.subscriber PROVE Settling(s)' \/ Agrees(s)'
    <3>1. Settling(s) => Settling(s)'
      BY <1>0, <2>3 DEF Settling, IsCall
    <3>2. s \in DOMAIN subscriberInstances' <=> s \in DOMAIN subscriberInstances
      <4>1. CASE c.function = "subscribe" /\ c.errorCode = 0
        BY <2>1, <2>3, <4>1, Completes, EntryMade
      <4>2. CASE c.function = "subscribe" /\ c.errorCode # 0
        BY <4>2, Completes
      <4>3. CASE c.function = "unsubscribe"
        <5>1. subscriberInstances' = WithoutEntry(c.subscriber)
          BY <4>3, Completes
        <5> QED
          BY <2>3, <5>1, EntryDropped
      <4> QED
        BY <1>1, <4>1, <4>2, <4>3
    <3> QED
      BY <1>0, <3>1, <3>2, AgreeElsewhere
  <2> QED
    BY <2>2, <2>3 DEF AgreeInv
<1>2. CASE c.function # "subscribe" /\ c.function # "unsubscribe"
  <2>1. subscriberInstances' = subscriberInstances
    BY <1>2, Completes
  <2>2. \A s : Settling(s) => Settling(s)'
    BY <1>0, <1>2 DEF Settling, IsCall
  <2> QED
    BY <1>0, <2>1, <2>2, AgreeElsewhere DEF AgreeInv
<1> QED
  BY <1>1, <1>2

LEMMA AgreeCollects ==
    ASSUME ShapeInv, AgreeInv, Collected \/ \E s \in Subscribers : Collect(s)
    PROVE  AgreeInv'
<1>1. CASE Collected
  <2>1. PICK errorCode : Unlistened(collecting, errorCode)
    BY <1>1, Finalizes
  <2>2. /\ UNCHANGED infos /\ refused \subseteq refused'
        /\ DOMAIN subscriberInstances' = DOMAIN subscriberInstances \ {collecting}
    BY <1>1, <2>1, Finalizes, EntryDropped DEF Unlistened
  <2>4. ASSUME NEW s \in Subscribers, s # collecting PROVE Settling(s)' \/ Agrees(s)'
    <3>1. Settling(s) => Settling(s)'
      BY <2>2 DEF Settling, IsCall
    <3>2. s \in subscribed' <=> s \in subscribed
      BY <2>1, <2>4 DEF Unlistened
    <3> QED
      BY <2>2, <2>4, <3>1, <3>2, AgreeElsewhere
  <2>5. ASSUME NEW s \in Subscribers, s = collecting PROVE Agrees(s)'
    BY <2>1, <2>2, <2>5 DEF Unlistened, Agrees
  <2> QED
    BY <2>4, <2>5 DEF AgreeInv
<1>2. ASSUME NEW q \in Subscribers, Collect(q) PROVE AgreeInv'
  BY <1>2, Collects, AgreeKept
<1> QED
  BY <1>1, <1>2

LEMMA AgreeNext ==
    ASSUME ShapeInv, PastInv, CallsInv, AgreeInv, [Next]_vars
    PROVE  AgreeInv'
<1>1. CASE Calls
  <2>1. infos \subseteq infos'
    BY <1>1, CallsQueue DEF Queued
  <2> QED
    BY <1>1, <2>1, CallsQueue, AgreeKept
<1>2. ASSUME NEW s \in Subscribers, FinishCommonEvent(s) PROVE AgreeInv'
  <2>1. infos \subseteq infos'
    BY <1>2, FinishQueues
  <2> QED
    BY <1>2, <2>1, FinishQueues, AgreeKept
<1>3. ASSUME NEW s \in Subscribers, RunnerStep(s) PROVE AgreeInv'
  <2>1. DOMAIN subscriberInstances' = DOMAIN subscriberInstances
    BY <1>3, Takes, Receives, HandsOver, QueuesWork, Ends DEF RunnerStep
  <2>2. UNCHANGED <<infos, subscribed, refused>>
    BY <1>3, Takes, Receives, HandsOver, QueuesWork, Ends DEF RunnerStep
  <2> QED
    BY <2>1, <2>2, AgreeKept
<1>4. ASSUME NEW w \in loop, UvQueueWorkOnReceiveEvent(w) PROVE AgreeInv'
  BY <1>4, AgreeKept DEF UvQueueWorkOnReceiveEvent, callVars, tableVars
<1>5. ASSUME NEW e \in Events, SendEvent(e) PROVE AgreeInv'
  BY <1>5, Sends, AgreeKept
<1>6. CASE UNCHANGED vars
  BY <1>6, AgreeKept DEF vars, callVars, tableVars
<1> QED
  BY <1>1, <1>2, <1>3, <1>4, <1>5, <1>6, AgreeExecute, AgreeComplete, AgreeCollects DEF Next, Work

-----------------------------------------------------------------------------
(* Where the result of an event is *)

\* Only a callback in progress changes what is the subscriber's own.
LEMMA OwnStays ==
    ASSUME ShapeInv, [Next]_vars
    PROVE  UNCHANGED <<own, running>> \/ \E s \in Subscribers : RunnerStep(s)
<1>1. ASSUME NEW c \in infos, Execute(c) PROVE UNCHANGED <<own, running>>
  BY <1>1, PlainExecution, FinishLooks, FinishAnswers, Subscribes, Unsubscribes DEF Execute, deliveryVars
<1>2. ASSUME NEW s \in Subscribers, FinishCommonEvent(s) \/ Collect(s) PROVE UNCHANGED <<own, running>>
  BY <1>2, FinishQueues, Collects DEF deliveryVars
<1>3. ASSUME NEW c \in infos, Complete(c) PROVE UNCHANGED <<own, running>>
  BY <1>3, Completes DEF deliveryVars
<1>4. ASSUME NEW w \in loop, UvQueueWorkOnReceiveEvent(w) PROVE UNCHANGED <<own, running>>
  BY <1>4 DEF UvQueueWorkOnReceiveEvent
<1>5. CASE Calls
  BY <1>5, CallsQueue DEF deliveryVars
<1>6. CASE Collected
  BY <1>6, Finalizes
<1>7. ASSUME NEW e \in Events, SendEvent(e) PROVE UNCHANGED <<own, running>>
  BY <1>7, Sends
<1>8. CASE UNCHANGED vars
  BY <1>8 DEF vars, eventVars
<1> QED
  BY <1>1, <1>2, <1>3, <1>4, <1>5, <1>6, <1>7, <1>8 DEF Next, Work

\* An event its listener has to finish stays so until it is answered.
LEMMA ListenerStays ==
    ASSUME ShapeInv, [Next]_vars, NEW e \in Events \cap Ordered, AtListener(e)
    PROVE  AtListener(e)' \/ Tried(e)'
<1>1. CASE UNCHANGED <<own, running>>
  BY <1>1 DEF AtListener
<1>2. ASSUME NEW s \in Subscribers, RunnerStep(s) PROVE AtListener(e)' \/ Tried(e)'
  <2>1. CASE s # For[e]
    <3>1. For[e] \in Subscribers
      BY JsAssumption
    <3>2. running'[For[e]] = running[For[e]]
      BY <1>2, <2>1, <3>1, Takes, Receives, HandsOver, QueuesWork, Ends DEF RunnerStep, Proceeds
    <3>3. own'[For[e]] = own[For[e]]
      BY <1>2, <2>1, <3>1, Takes, Receives, HandsOver, QueuesWork, Ends, ShapeFields DEF RunnerStep
    <3> QED
      BY <3>2, <3>3 DEF AtListener
  <2>2. CASE s = For[e]
    <3>1. ~TakeEvent(s) /\ ~OnReceiveEvent(s) /\ ~HandOver(s)
      BY <2>2, Takes, Receives, HandsOver DEF AtListener, Idle
    <3>2. CASE QueueWork(s)
      BY <2>2, <3>2, QueuesWork DEF AtListener, Proceeds
    <3>3. CASE EndReceive(s)
      <4>1. running[s].event = e /\ own[s] = e /\ answers[e] \in Nat
        BY <2>2 DEF AtListener, ShapeInv
      <4>2. CASE ~Tried(e)
        BY <3>3, <4>1, <4>2, Ends, FinishMarks
      <4>3. CASE Tried(e)
        BY <3>3, <4>1, <4>3, Ends
      <4> QED
        BY <4>1, <4>2, <4>3
    <3> QED
      BY <1>2, <3>1, <3>2, <3>3 DEF RunnerStep
  <2> QED
    BY <2>1, <2>2
<1> QED
  BY <1>1, <1>2, OwnStays

\* The entry keeps the result until the event is answered or the subscriber gone.
LEMMA EntryStays ==
    ASSUME ShapeInv, PlacesInv, PastInv, CallsInv, TurnInv, [Next]_vars,
           NEW e \in sent \cap Ordered, Held(For[e], e)
    PROVE  Held(For[e], e)' \/ For[e] \in gone \/ Tried(e)
<1>0. For[e] \in Subscribers /\ e \in Events /\ e # None
  BY ShapeFields, JsAssumption
<1>1. CASE subscriberInstances' = subscriberInstances
  BY <1>1 DEF Held
<1>2. ASSUME NEW c \in infos, Complete(c) PROVE Held(For[e], e)' \/ For[e] \in gone
  <2>1. CASE c.function = "subscribe" /\ c.errorCode = 0
    <3>1. c.subscriber \in Subscribers
      BY <2>1 DEF ShapeInv, CallOK, Publishers
    <3>2. c.subscriber \notin DOMAIN subscriberInstances
      BY <2>1, <3>1 DEF CallsInv, IsCall
    <3>3. For[e] # c.subscriber
      BY <3>2 DEF Held
    <3>4. subscriberInstances' = WithEntry(c.subscriber, [callbacks |-> {c.id}, commonEventResult |-> None])
      BY <1>2, <2>1, Completes
    <3> QED
      BY <3>1, <3>3, <3>4, EntryMade
  <2>2. CASE c.function = "unsubscribe"
    <3>1. c.subscriber \in Subscribers
      BY <2>2 DEF ShapeInv, CallOK, Publishers
    <3>2. c.subscriber \in gone
      BY <2>2, <3>1 DEF CallsInv, IsCall
    <3>3. subscriberInstances' = WithoutEntry(c.subscriber)
      BY <1>2, <2>2, Completes
    <3> QED
      BY <3>2, <3>3, EntryDropped
  <2>3. CASE ~(c.function = "subscribe" /\ c.errorCode = 0) /\ c.function # "unsubscribe"
    BY <1>2, <2>3, Completes, HeldSame
  <2> QED
    BY <2>1, <2>2, <2>3
<1>3. CASE Collected
  <2>1. collecting \in gone
    BY <1>3, Finalizes, JsAssumption DEF CallsInv
  <2> QED
    BY <1>3, <2>1, Finalizes, EntryDropped
<1>4. ASSUME NEW s \in Subscribers, HandOver(s) PROVE Held(For[e], e)' \/ Tried(e)
  <2>1. CASE s \notin DOMAIN subscriberInstances
    BY <1>4, <2>1, HandsOver, HeldSame
  <2>2. CASE s # For[e]
    BY <1>4, <2>2, HandsOver, HeldSame
  <2>3. CASE s = For[e] /\ s \in DOMAIN subscriberInstances
    <3>1. PICK d : d = running[s].event
      OBVIOUS
    <3>2. running[s].at = "ordered" /\ own[s] = d /\ RunningOK(s, running[s]) /\ running[s] # Idle
      BY <1>4, <3>1, HandsOver, ShapeFields DEF PastInv, OwnPast, Idle
    <3>3. d \in sent \cap Ordered /\ For[d] = s /\ d \in Events
      BY <3>1, <3>2 DEF RunningOK, PlacesInv
    <3>4. Pending(d)
      BY <3>1, <3>2, <3>3 DEF Pending
    <3>5. ~Tried(d)
      BY <3>3, <3>4 DEF PastInv, AnsweredPast, Past, ShapeInv
    <3>6. CASE d = e
      BY <1>4, <2>3, <3>2, <3>6, HandsOver
    <3>7. CASE d # e
      BY <1>0, <2>3, <3>3, <3>5, <3>7 DEF TurnInv, ShapeInv
    <3> QED
      BY <3>6, <3>7
  <2> QED
    BY <2>1, <2>2, <2>3
<1>5. subscriberInstances' = subscriberInstances \/ Collected
      \/ (\E c \in infos : Complete(c)) \/ \E s \in Subscribers : HandOver(s)
  <2>1. ASSUME NEW c \in infos, Execute(c) PROVE subscriberInstances' = subscriberInstances
    BY <2>1, PlainExecution, FinishLooks, FinishAnswers, Subscribes, Unsubscribes DEF Execute
  <2>2. ASSUME NEW s \in Subscribers, FinishCommonEvent(s) \/ Collect(s) PROVE subscriberInstances' = subscriberInstances
    BY <2>2, FinishQueues, Collects
  <2>3. ASSUME NEW s \in Subscribers, RunnerStep(s), ~HandOver(s) PROVE subscriberInstances' = subscriberInstances
    BY <2>3, Takes, Receives, QueuesWork, Ends DEF RunnerStep
  <2>4. ASSUME NEW w \in loop, UvQueueWorkOnReceiveEvent(w) PROVE subscriberInstances' = subscriberInstances
    BY <2>4 DEF UvQueueWorkOnReceiveEvent, tableVars
  <2>5. CASE Calls
    BY <2>5, CallsQueue
  <2>6. ASSUME NEW f \in Events, SendEvent(f) PROVE subscriberInstances' = subscriberInstances
    BY <2>6, Sends
  <2>7. CASE UNCHANGED vars
    BY <2>7 DEF vars, tableVars
  <2> QED
    BY <2>1, <2>2, <2>3, <2>4, <2>5, <2>6, <2>7 DEF Next, Work
<1> QED
  BY <1>1, <1>2, <1>3, <1>4, <1>5

\* A pending event stays pending until it goes through, unless its subscriber is gone.
LEMMA PendingStays ==
    ASSUME ShapeInv, PlacesInv, PastInv, CallsInv, [Next]_vars, NEW e \in sent \cap Ordered, Pending(e)
    PROVE  Pending(e)' \/ For[e] \in gone \/ AtListener(e)' \/ Held(For[e], e)'
<1>0. For[e] \in Subscribers /\ e \in Events
  BY ShapeFields, JsAssumption
<1>1. CASE UNCHANGED <<arriving, running>>
  BY <1>1 DEF Pending, Arriving
<1>2. ASSUME NEW c \in infos, Execute(c) PROVE Pending(e)' \/ For[e] \in gone
  <2>1. CASE ExecuteUnsubscribe(c)
    <3>1. c.subscriber \in Subscribers /\ c.function = "unsubscribe"
      BY <2>1, Unsubscribes DEF ShapeInv, CallOK, Publishers
    <3>2. c.subscriber \in gone
      BY <3>1 DEF CallsInv, IsCall
    <3>3. For[e] # c.subscriber => arriving'[For[e]] = arriving[For[e]]
      BY <1>0, <2>1, Unsubscribes, ShapeFields DEF Unlistened
    <3>4. running' = running
      BY <2>1, Unsubscribes
    <3> QED
      BY <3>2, <3>3, <3>4 DEF Pending, Arriving
  <2>2. CASE ~ExecuteUnsubscribe(c)
    <3>1. UNCHANGED <<arriving, running>>
      BY <1>2, <2>2, PlainExecution, FinishLooks, FinishAnswers, Subscribes DEF Execute, deliveryVars
    <3> QED
      BY <3>1 DEF Pending, Arriving
  <2> QED
    BY <2>1, <2>2
<1>3. CASE Collected
  <2>1. collecting \in gone
    BY <1>3, Finalizes, JsAssumption DEF CallsInv
  <2>2. For[e] # collecting => arriving'[For[e]] = arriving[For[e]]
    BY <1>0, <1>3, Finalizes, ShapeFields DEF Unlistened
  <2>3. running' = running
    BY <1>3, Finalizes
  <2> QED
    BY <2>1, <2>2, <2>3 DEF Pending, Arriving
<1>4. ASSUME NEW s \in Subscribers, RunnerStep(s)
      PROVE  Pending(e)' \/ AtListener(e)' \/ Held(For[e], e)'
  <2>1. CASE s # For[e]
    <3>1. running'[For[e]] = running[For[e]] /\ arriving'[For[e]] = arriving[For[e]]
      BY <1>0, <1>4, <2>1, Takes, Receives, HandsOver, QueuesWork, Ends DEF RunnerStep, Proceeds
    <3> QED
      BY <3>1 DEF Pending, Arriving
  <2>2. CASE s = For[e] /\ Arriving(e)
    <3>1. PICK i \in 1..Len(arriving[s]) : arriving[s][i] = e
      BY <2>2 DEF Arriving
    <3>2. CASE TakeEvent(s)
      <4>1. CASE i = 1
        BY <2>2, <3>1, <3>2, <4>1, Takes DEF Pending
      <4>2. CASE i # 1
        <5>1. i - 1 \in 1..Len(arriving'[s]) /\ (i - 1) + 1 = i
          BY <3>1, <3>2, <4>2, Takes, ShapeFields
        <5>2. arriving'[s][i - 1] = e
          BY <3>1, <3>2, <5>1, Takes
        <5> QED
          BY <2>2, <5>1, <5>2 DEF Pending, Arriving
      <4> QED
        BY <4>1, <4>2
    <3>3. CASE ~TakeEvent(s)
      <4>1. arriving' = arriving
        BY <1>4, <3>3, Receives, HandsOver, QueuesWork, Ends DEF RunnerStep
      <4> QED
        BY <2>2, <4>1 DEF Pending, Arriving
    <3> QED
      BY <3>2, <3>3
  <2>3. CASE s = For[e] /\ running[s].at \in {"taken", "ordered"} /\ running[s].event = e
    <3>1. ~TakeEvent(s) /\ ~QueueWork(s) /\ ~EndReceive(s)
      BY <2>3, Takes, QueuesWork, Ends DEF Idle
    <3>2. CASE OnReceiveEvent(s)
      BY <2>3, <3>2, Receives DEF Pending, Proceeds
    <3>3. CASE HandOver(s)
      <4>1. own[s] = e /\ running'[s].at = "queue" /\ running'[s].event = e
        BY <2>3, <3>3, HandsOver DEF PastInv, OwnPast, Proceeds
      <4>2. CASE s \in DOMAIN subscriberInstances
        BY <2>3, <3>3, <4>1, <4>2, HandsOver
      <4>3. CASE s \notin DOMAIN subscriberInstances
        BY <2>3, <3>3, <4>1, <4>3, HandsOver DEF AtListener
      <4> QED
        BY <4>2, <4>3
    <3> QED
      BY <1>4, <3>1, <3>2, <3>3 DEF RunnerStep
  <2> QED
    BY <2>1, <2>2, <2>3 DEF Pending
<1>5. ASSUME NEW f \in Events, SendEvent(f) PROVE Pending(e)'
  <2>1. running' = running
    BY <1>5, Sends
  <2>2. ASSUME NEW i \in 1..Len(arriving[For[e]])
        PROVE  i \in 1..Len(arriving'[For[e]]) /\ arriving'[For[e]][i] = arriving[For[e]][i]
    <3>1. CASE For[e] = For[f]
      BY <1>5, <2>2, <3>1, Sends
    <3>2. CASE For[e] # For[f]
      BY <1>0, <1>5, <2>2, <3>2, Sends
    <3> QED
      BY <3>1, <3>2
  <2> QED
    BY <2>1, <2>2 DEF Pending, Arriving
<1>6. ASSUME NEW s \in Subscribers, FinishCommonEvent(s) \/ Collect(s) PROVE UNCHANGED <<arriving, running>>
  BY <1>6, FinishQueues, Collects DEF deliveryVars
<1>7. ASSUME NEW c \in infos, Complete(c) PROVE UNCHANGED <<arriving, running>>
  BY <1>7, Completes DEF deliveryVars
<1>8. ASSUME NEW w \in loop, UvQueueWorkOnReceiveEvent(w) PROVE UNCHANGED <<arriving, running>>
  BY <1>8 DEF UvQueueWorkOnReceiveEvent
<1>9. CASE Calls
  BY <1>1, <1>9, CallsQueue DEF deliveryVars
<1>10. CASE UNCHANGED vars
  BY <1>1, <1>10 DEF vars, eventVars
<1> QED
  BY <1>1, <1>2, <1>3, <1>4, <1>5, <1>6, <1>7, <1>8, <1>9, <1>10 DEF Next, Work

LEMMA ResultNext ==
    ASSUME ShapeInv, PlacesInv, PastInv, CallsInv, TurnInv, ResultInv, [Next]_vars
    PROVE  ResultInv'
<1> SUFFICES ASSUME NEW e \in sent' \cap Ordered
             PROVE  Tried(e)' \/ For[e] \in gone' \/ Pending(e)' \/ AtListener(e)' \/ Held(For[e], e)'
  BY DEF ResultInv
<1>1. CASE e \in sent
  <2>1. e \in Events
    BY <1>1, ShapeFields
  <2>2. Tried(e) \/ For[e] \in gone \/ Pending(e) \/ AtListener(e) \/ Held(For[e], e)
    BY <1>1 DEF ResultInv
  <2>3. (Tried(e) => Tried(e)') /\ gone \subseteq gone'
    BY <2>1, NeverBack
  <2> QED
    BY <1>1, <2>1, <2>2, <2>3, PendingStays, ListenerStays, EntryStays
<1>2. CASE e \notin sent
  BY <1>2, NeverBack, Sends, SendsOn
<1> QED
  BY <1>1, <1>2

LEMMA OwnKept ==
    ASSUME ShapeInv, OwnPast, HeldPast, OwnInv, own' = own,
           \A s \in Subscribers : \A e : Held(s, e)' => Held(s, e) \/ e = None,
           \A c \in infos' : c.at = "finishing" =>
               \/ c \in infos
               \/ c.subscriber \in Subscribers /\ Held(c.subscriber, c.argument) /\ c.argument # None
    PROVE  OwnInv'
<1> SUFFICES ASSUME NEW s \in Subscribers, NEW e, e = own[s], e # None
             PROVE  ~Held(s, e)' /\ \A c \in infos' : c.at = "finishing" => c.argument # e
  BY DEF OwnInv
<1>1. ~Held(s, e) /\ \A c \in infos : c.at = "finishing" => c.argument # e
  BY DEF OwnInv
<1>2. For[e] = s
  BY DEF OwnPast
<1>3. ASSUME NEW q \in Subscribers, Held(q, e) PROVE q = s
  BY <1>2, <1>3 DEF HeldPast
<1> QED
  BY <1>1, <1>3

LEMMA OwnExecute ==
    ASSUME ShapeInv, PastInv, OwnInv, NEW c \in infos, Execute(c)
    PROVE  OwnInv'
<1>0. OwnPast /\ HeldPast
  BY DEF PastInv
<1>1. CASE ExecuteFinish(c)
  <2>1. c.subscriber \in Subscribers
    BY <1>1, FinishLooks DEF ShapeInv, CallOK, Publishers
  <2>2. \A x \in infos' : x.at = "finishing" =>
            \/ x \in infos
            \/ x.subscriber \in Subscribers /\ Held(x.subscriber, x.argument) /\ x.argument # None
    BY <1>1, <2>1, FinishLooks DEF Moves
  <2>3. UNCHANGED <<own, subscriberInstances>>
    BY <1>1, FinishLooks DEF deliveryVars
  <2> QED
    BY <1>0, <2>2, <2>3, HeldSame, OwnKept
<1>2. CASE ~ExecuteFinish(c)
  <2>1. \A x \in infos' : x.at = "finishing" => x \in infos
    BY <1>2, PlainExecution, FinishAnswers, Subscribes, Unsubscribes DEF Execute, Moves
  <2>2. UNCHANGED <<own, subscriberInstances>>
    BY <1>2, PlainExecution, FinishAnswers, Subscribes, Unsubscribes DEF Execute, deliveryVars
  <2> QED
    BY <1>0, <2>1, <2>2, HeldSame, OwnKept
<1> QED
  BY <1>1, <1>2

LEMMA OwnRunner ==
    ASSUME ShapeInv, PlacesInv, PastInv, OwnInv, NEW s \in Subscribers, RunnerStep(s)
    PROVE  OwnInv'
<1>0. OwnPast /\ HeldPast /\ infos' = infos
  BY Takes, Receives, HandsOver, QueuesWork, Ends DEF PastInv, RunnerStep
<1>1. CASE TakeEvent(s) \/ QueueWork(s) \/ EndReceive(s)
  <2>1. UNCHANGED <<own, subscriberInstances>>
    BY <1>1, Takes, QueuesWork, Ends
  <2> QED
    BY <1>0, <2>1, HeldSame, OwnKept
<1>2. CASE OnReceiveEvent(s)
  <2> PICK e : e = running[s].event
    OBVIOUS
  <2>1. /\ own'[s] = e /\ \A q \in Subscribers \ {s} : own'[q] = own[q]
        /\ subscriberInstances' = subscriberInstances /\ running[s].at = "taken" /\ e \in Events
    BY <1>2, Receives, ShapeFields
  <2>2. RunningOK(s, running[s])
    BY ShapeFields
  <2>3. Pending(e) /\ For[e] = s
    BY <2>1, <2>2 DEF Pending, RunningOK, Idle
  <2>4. ~Held(s, e)
    BY <2>1, <2>3, JsAssumption DEF PastInv, HeldPast, Past
  <2>5. \A c \in infos : c.at = "finishing" => c.argument # e
    BY <2>3 DEF PastInv, FinishingPast, Past
  <2> SUFFICES ASSUME NEW q \in Subscribers, NEW f, f = own'[q], f # None
               PROVE  ~Held(q, f)' /\ \A c \in infos' : c.at = "finishing" => c.argument # f
    BY DEF OwnInv
  <2>6. ~Held(q, f) /\ \A c \in infos : c.at = "finishing" => c.argument # f
    BY <2>1, <2>4, <2>5 DEF OwnInv
  <2> QED
    BY <1>0, <2>1, <2>6, HeldSame
<1>3. CASE HandOver(s)
  <2>1. CASE s \in DOMAIN subscriberInstances
    <3> SUFFICES ASSUME NEW q \in Subscribers, NEW f, f = own'[q], f # None
                 PROVE  ~Held(q, f)' /\ \A c \in infos' : c.at = "finishing" => c.argument # f
      BY DEF OwnInv
    <3>1. q # s /\ f = own[q]
      BY <1>3, <2>1, HandsOver, ShapeFields
    <3>2. Held(q, f)' => Held(q, f)
      BY <1>3, <2>1, <3>1, HandsOver
    <3> QED
      BY <1>0, <3>1, <3>2 DEF OwnInv
  <2>2. CASE s \notin DOMAIN subscriberInstances
    <3>1. UNCHANGED <<own, subscriberInstances>>
      BY <1>3, <2>2, HandsOver
    <3> QED
      BY <1>0, <3>1, HeldSame, OwnKept
  <2> QED
    BY <2>1, <2>2
<1> QED
  BY <1>1, <1>2, <1>3 DEF RunnerStep

LEMMA OwnNext ==
    ASSUME ShapeInv, PlacesInv, PastInv, OwnInv, [Next]_vars
    PROVE  OwnInv'
<1>0. OwnPast /\ HeldPast
  BY DEF PastInv
<1>1. CASE Calls
  <2>1. \A c \in infos' : c.at = "finishing" => c \in infos
    BY <1>1, CallsQueue DEF Queued
  <2> QED
    BY <1>0, <1>1, <2>1, CallsQueue, HeldSame, OwnKept DEF deliveryVars
<1>2. CASE Collected
  <2>1. \A s, e : Held(s, e)' => Held(s, e)
    BY <1>2, Finalizes, EntryDropped
  <2>2. UNCHANGED <<infos, own>>
    BY <1>2, Finalizes
  <2> QED
    BY <1>0, <2>1, <2>2, OwnKept
<1>3. ASSUME NEW c \in infos, Complete(c) PROVE OwnInv'
  BY <1>0, <1>3, Completes, EntriesComplete, OwnKept DEF deliveryVars
<1>4. ASSUME NEW s \in Subscribers, FinishCommonEvent(s) PROVE OwnInv'
  <2>1. \A c \in infos' : c.at = "finishing" => c \in infos
    BY <1>4, FinishQueues
  <2> QED
    BY <1>0, <1>4, <2>1, FinishQueues, HeldSame, OwnKept DEF deliveryVars
<1>5. ASSUME NEW s \in Subscribers, Collect(s) PROVE OwnInv'
  BY <1>0, <1>5, Collects, HeldSame, OwnKept DEF deliveryVars
<1>6. ASSUME NEW w \in loop, UvQueueWorkOnReceiveEvent(w) PROVE OwnInv'
  <2>1. UNCHANGED <<infos, own, subscriberInstances>>
    BY <1>6 DEF UvQueueWorkOnReceiveEvent, callVars, tableVars
  <2> QED
    BY <1>0, <2>1, HeldSame, OwnKept
<1>7. ASSUME NEW e \in Events, SendEvent(e) PROVE OwnInv'
  <2>1. UNCHANGED <<infos, own, subscriberInstances>>
    BY <1>7, Sends
  <2> QED
    BY <1>0, <2>1, HeldSame, OwnKept
<1>8. CASE UNCHANGED vars
  BY <1>0, <1>8, HeldSame, OwnKept DEF vars, callVars, tableVars, eventVars
<1> QED
  BY <1>1, <1>2, <1>3, <1>4, <1>5, <1>6, <1>7, <1>8, OwnExecute, OwnRunner DEF Next, Work

-----------------------------------------------------------------------------
(* What becomes of a finish *)

LEMMA FinishKept ==
    ASSUME FinishInv, Onward, finishes' = finishes,
           \A x \in infos' : x.function = "finish" => x \in infos
    PROVE  FinishInv'
<1>1. \A x, e : IsFinish(x, e)' => IsFinish(x, e)
  BY DEF IsFinish
<1>2. \A e \in finishes : Past(e)'
  BY PastStays DEF FinishInv
<1> QED
  BY <1>1, <1>2 DEF FinishInv

LEMMA FinishMoved ==
    ASSUME FinishInv, Onward, finishes' = finishes, NEW c, NEW d, Moves(c, d)
    PROVE  FinishInv'
<1>1. \A x, e : IsFinish(x, e)' => (x # c /\ IsFinish(x, e)) \/ (x = d /\ IsFinish(c, e))
  BY DEF IsFinish, Moves
<1>2. \A e \in finishes : Past(e)'
  BY PastStays DEF FinishInv
<1>3. \A x \in infos' : x.function = "finish" => x.about \in finishes /\ For[x.about] = x.subscriber
  BY DEF FinishInv, Moves
<1>4. \A x, y, e : IsFinish(x, e)' /\ IsFinish(y, e)' => x = y
  BY <1>1 DEF FinishInv
<1> QED
  BY <1>2, <1>3, <1>4 DEF FinishInv

LEMMA FinishNext ==
    ASSUME ShapeInv, PastInv, FinishInv, Onward, [Next]_vars
    PROVE  FinishInv'
<1>1. ASSUME NEW c \in infos, Execute(c) PROVE FinishInv'
  <2>1. finishes' = finishes /\ \E d : Moves(c, d)
    BY <1>1, PlainExecution, FinishLooks, FinishAnswers, Subscribes, Unsubscribes DEF Execute
  <2> QED
    BY <2>1, FinishMoved
<1>2. ASSUME NEW s \in Subscribers, FinishCommonEvent(s) PROVE FinishInv'
  <2>1. PICK c : /\ infos' = infos \cup {c} /\ c.function = "finish" /\ c.subscriber = s
                 /\ c.about \in Ordered \ finishes /\ finishes' = finishes \cup {c.about}
                 /\ \E i \in 1..Len(seen[s]) : seen[s][i] = c.about
    BY <1>2, FinishQueues
  <2>2. PICK e : e = c.about
    OBVIOUS
  <2>3. Past(e) /\ For[e] = s /\ e \in Events
    BY <2>1, <2>2, JsAssumption DEF PastInv, SeenPast
  <2>4. IsFiniteSet(finishes')
    BY <2>1, FS_AddElement DEF FinishInv
  <2>5. \A f \in finishes' : f \in Events \cap Ordered /\ Past(f)'
    BY <2>1, <2>2, <2>3, PastStays DEF FinishInv
  <2>6. \A x, f : IsFinish(x, f)' <=> IsFinish(x, f) \/ (x = c /\ f = e)
    BY <2>1, <2>2 DEF IsFinish
  <2>7. \A x : ~IsFinish(x, e)
    BY <2>1, <2>2 DEF IsFinish, FinishInv
  <2>8. \A x, y, f : IsFinish(x, f)' /\ IsFinish(y, f)' => x = y
    BY <2>6, <2>7 DEF FinishInv
  <2>9. \A x \in infos' : x.function = "finish" => x.about \in finishes' /\ For[x.about] = x.subscriber
    BY <2>1, <2>2, <2>3 DEF FinishInv
  <2> QED
    BY <2>4, <2>5, <2>8, <2>9 DEF FinishInv
<1>3. CASE Calls
  <2>1. \A x \in infos' : x.function = "finish" => x \in infos
    BY <1>3, CallsQueue DEF Queued, Ordinary, Getters, Setters, Publishers
  <2> QED
    BY <1>3, <2>1, CallsQueue, FinishKept
<1>4. ASSUME NEW c \in infos, Complete(c) PROVE FinishInv'
  BY <1>4, Completes, FinishKept
<1>5. ASSUME NEW s \in Subscribers, RunnerStep(s) PROVE FinishInv'
  <2>1. UNCHANGED <<infos, finishes>>
    BY <1>5, Takes, Receives, HandsOver, QueuesWork, Ends DEF RunnerStep
  <2> QED
    BY <2>1, FinishKept
<1>6. ASSUME NEW w \in loop, UvQueueWorkOnReceiveEvent(w) PROVE FinishInv'
  BY <1>6, FinishKept DEF UvQueueWorkOnReceiveEvent, callVars
<1>7. ASSUME NEW e \in Events, SendEvent(e) PROVE FinishInv'
  BY <1>7, Sends, FinishKept
<1>8. CASE Collected
  BY <1>8, Finalizes, FinishKept
<1>9. ASSUME NEW s \in Subscribers, Collect(s) PROVE FinishInv'
  BY <1>9, Collects, FinishKept
<1>10. CASE UNCHANGED vars
  BY <1>10, FinishKept DEF vars, callVars
<1> QED
  BY <1>1, <1>2, <1>3, <1>4, <1>5, <1>6, <1>7, <1>8, <1>9, <1>10 DEF Next, Work

LEMMA SureStays ==
    ASSUME ShapeInv, PastInv, [Next]_vars, NEW e \in Events \cap Ordered, Sure(e)
    PROVE  Sure(e)'
<1>1. (Tried(e) => Tried(e)') /\ gone \subseteq gone'
  BY NeverBack
<1>2. AtListener(e) => AtListener(e)' \/ Tried(e)'
  BY ListenerStays
<1> QED
  BY <1>1, <1>2 DEF Sure

LEMMA SureKept ==
    ASSUME ShapeInv, PastInv, FinishInv, SureInv, [Next]_vars, settled' = settled,
           \A x \in infos' : x.function = "finish" => x \in infos \/ x.at = "queued"
    PROVE  SureInv'
<1>1. \A e \in Events \cap Ordered : Sure(e) => Sure(e)'
  BY SureStays
<1>2. \A x \in infos : x.function = "finish" => x.about \in Events \cap Ordered
  BY DEF FinishInv
<1>3. \A x \in settled : x.errorCode = 0 => Sure(x.about) /\ x.about \in Events \cap Ordered
  BY DEF SureInv
<1> QED
  BY <1>1, <1>2, <1>3 DEF SureInv

LEMMA SureExecute ==
    ASSUME ShapeInv, PastInv, ResultInv, FinishInv, SureInv, NEW c \in infos, Execute(c)
    PROVE  SureInv'
<1>0. \A e \in Events \cap Ordered : Sure(e) => Sure(e)'
  <2>1. [Next]_vars
    BY DEF Next, Work
  <2> QED
    BY <2>1, SureStays
<1>1. \A x \in infos : x.function = "finish" => x.about \in Events \cap Ordered
  BY DEF FinishInv
<1>2. \A x \in settled : x.errorCode = 0 =>
          x.about \in Events \cap Ordered /\ For[x.about] = x.subscriber /\ Sure(x.about)'
  BY <1>0 DEF SureInv
<1>3. \A x \in infos : x.function = "finish" =>
          /\ x.at = "finishing" => x.argument = x.about \/ Sure(x.about)'
          /\ x.at = "done" /\ x.errorCode = 0 => Sure(x.about)'
  BY <1>0, <1>1 DEF SureInv
<1>4. CASE ExecuteFinish(c)
  <2>1. PICK d : /\ Moves(c, d)
                 /\ \/ d.at = "done" /\ \A e \in Events : ~Held(c.subscriber, e)
                    \/ d.at = "done" /\ d.errorCode = 1
                    \/ d.at = "finishing" /\ d.argument # None /\ Held(c.subscriber, d.argument)
    BY <1>4, FinishLooks
  <2>2. c.function = "finish" /\ settled' = settled
    BY <1>4, FinishLooks
  <2> PICK e : e = c.about
    OBVIOUS
  <2>3. e \in Events \cap Ordered /\ For[e] = c.subscriber /\ Past(e)
    BY <2>2 DEF FinishInv
  <2>4. ~Held(c.subscriber, e) => Sure(e)
    BY <2>3 DEF ResultInv, Past, Sure
  <2>5. d.at = "finishing" => d.argument = e \/ ~Held(c.subscriber, e)
    BY <2>1 DEF Held
  <2>6. /\ d.at = "finishing" => d.argument = e \/ Sure(e)'
        /\ d.at = "done" /\ d.errorCode = 0 => Sure(e)'
    BY <1>0, <2>1, <2>3, <2>4, <2>5
  <2>7. d.about = e /\ infos' = (infos \ {c}) \cup {d}
    BY <2>1 DEF Moves
  <2> QED
    BY <1>2, <1>3, <2>2, <2>6, <2>7 DEF SureInv
<1>5. CASE ExecuteAnswer(c)
  <2>1. PICK d : Moves(c, d) /\ d.at = "done"
    BY <1>5, FinishAnswers
  <2>2. c.function = "finish" /\ c.at = "finishing" /\ settled' = settled /\ \E done \in BOOLEAN : Finish(c.argument, done)
    BY <1>5, FinishAnswers
  <2> PICK e : e = c.about
    OBVIOUS
  <2>3. e \in Events \cap Ordered
    BY <1>1, <2>2
  <2>4. CASE c.argument = e
    <3>1. Tried(e)'
      BY <2>2, <2>3, <2>4, FinishMarks
    <3> QED
      BY <1>2, <1>3, <2>1, <2>2, <3>1 DEF SureInv, Sure, Moves
  <2>5. CASE c.argument # e
    <3>1. Sure(e)'
      BY <1>3, <2>2, <2>5
    <3> QED
      BY <1>2, <1>3, <2>1, <2>2, <3>1 DEF SureInv, Moves
  <2> QED
    BY <2>4, <2>5
<1>6. CASE ~ExecuteFinish(c) /\ ~ExecuteAnswer(c)
  <2>1. c.function # "finish" /\ settled' = settled
    BY <1>6, PlainExecution, Subscribes, Unsubscribes DEF Execute, Ordinary, Getters, Setters, Publishers
  <2>2. \E d : Moves(c, d)
    BY <1>6, PlainExecution, Subscribes, Unsubscribes DEF Execute
  <2> QED
    BY <1>2, <1>3, <2>1, <2>2 DEF SureInv, Moves
<1> QED
  BY <1>4, <1>5, <1>6

LEMMA SureComplete ==
    ASSUME ShapeInv, PastInv, FinishInv, SureInv, NEW c \in infos, Complete(c)
    PROVE  SureInv'
<1>0. \A e \in Events \cap Ordered : Sure(e) => Sure(e)'
  <2>1. [Next]_vars
    BY DEF Next, Work
  <2> QED
    BY <2>1, SureStays
<1>1. \A x \in infos : x.function = "finish" =>
          /\ x.about \in Events \cap Ordered /\ For[x.about] = x.subscriber
          /\ x.at = "finishing" => x.argument = x.about \/ Sure(x.about)'
          /\ x.at = "done" /\ x.errorCode = 0 => Sure(x.about)'
  BY <1>0 DEF SureInv, FinishInv
<1>2. \A x \in settled : x.errorCode = 0 =>
          x.about \in Events \cap Ordered /\ For[x.about] = x.subscriber /\ Sure(x.about)'
  BY <1>0 DEF SureInv
<1>3. infos' = infos \ {c} /\ c.at = "done"
  BY Completes
<1>4. ASSUME NEW x \in settled'
      PROVE  \/ x \in settled
             \/ /\ c.function = "finish" /\ x.subscriber = c.subscriber
                /\ x.about = c.about /\ x.errorCode = c.errorCode
  <2> DEFINE told == [subscriber |-> c.subscriber, about |-> c.about, errorCode |-> c.errorCode]
  <2>1. told.subscriber = c.subscriber /\ told.about = c.about /\ told.errorCode = c.errorCode
    OBVIOUS
  <2>2. settled' = settled \/ (c.function = "finish" /\ settled' = settled \cup {told})
    BY DEF Complete
  <2> HIDE DEF told
  <2> QED
    BY <2>1, <2>2
<1>5. \A x \in settled' : x.errorCode = 0 =>
          x.about \in Events \cap Ordered /\ For[x.about] = x.subscriber /\ Sure(x.about)'
  BY <1>1, <1>2, <1>3, <1>4
<1> QED
  BY <1>1, <1>3, <1>5 DEF SureInv

LEMMA SureNext ==
    ASSUME ShapeInv, PastInv, ResultInv, FinishInv, SureInv, [Next]_vars
    PROVE  SureInv'
<1>1. CASE Calls
  <2>1. \A x \in infos' : x \in infos \/ x.at = "queued"
    BY <1>1, CallsQueue DEF Queued
  <2> QED
    BY <1>1, <2>1, CallsQueue, SureKept
<1>2. ASSUME NEW s \in Subscribers, FinishCommonEvent(s) PROVE SureInv'
  BY <1>2, FinishQueues, SureKept
<1>3. ASSUME NEW s \in Subscribers, RunnerStep(s) PROVE SureInv'
  <2>1. UNCHANGED <<infos, settled>>
    BY <1>3, Takes, Receives, HandsOver, QueuesWork, Ends DEF RunnerStep
  <2> QED
    BY <2>1, SureKept
<1>4. ASSUME NEW w \in loop, UvQueueWorkOnReceiveEvent(w) PROVE SureInv'
  BY <1>4, SureKept DEF UvQueueWorkOnReceiveEvent, callVars
<1>5. ASSUME NEW e \in Events, SendEvent(e) PROVE SureInv'
  BY <1>5, Sends, SureKept
<1>6. CASE Collected
  BY <1>6, Finalizes, SureKept
<1>7. ASSUME NEW s \in Subscribers, Collect(s) PROVE SureInv'
  BY <1>7, Collects, SureKept
<1>8. CASE UNCHANGED vars
  BY <1>8, SureKept DEF vars, callVars
<1> QED
  BY <1>1, <1>2, <1>3, <1>4, <1>5, <1>6, <1>7, <1>8, SureExecute, SureComplete DEF Next, Work

-----------------------------------------------------------------------------
(* How often an event is answered *)

LEMMA ExecutedKept ==
    ASSUME finishes \subseteq finishes',
           \A x \in infos' : x.function = "finish" =>
               \/ x \in infos \/ x.at = "done" \/ x.about \notin finishes
               \/ \E c \in infos : c.function = "finish" /\ c.about = x.about /\ c.at # "done",
           NEW f, Executed(f)
    PROVE  Executed(f)'
BY DEF Executed, IsFinish

\* What has been executed stays so.
LEMMA ExecutedStays ==
    ASSUME ShapeInv, FinishInv, [Next]_vars
    PROVE  finishes \subseteq finishes' /\ \A f : Executed(f) => Executed(f)'
<1>1. ASSUME NEW c \in infos, Execute(c) PROVE finishes \subseteq finishes' /\ \A f : Executed(f) => Executed(f)'
  <2>1. PICK d : Moves(c, d)
    BY <1>1, PlainExecution, FinishLooks, FinishAnswers, Subscribes, Unsubscribes DEF Execute
  <2>2. finishes' = finishes /\ c.at # "done"
    BY <1>1, PlainExecution, FinishLooks, FinishAnswers, Subscribes, Unsubscribes DEF Execute
  <2> QED
    BY <2>1, <2>2, ExecutedKept DEF Moves
<1>2. ASSUME NEW s \in Subscribers, FinishCommonEvent(s)
      PROVE  finishes \subseteq finishes' /\ \A f : Executed(f) => Executed(f)'
  BY <1>2, FinishQueues, ExecutedKept
<1>3. CASE Calls
  <2>1. \A x \in infos' : x.function = "finish" => x \in infos
    BY <1>3, CallsQueue DEF Queued, Ordinary, Getters, Setters, Publishers
  <2> QED
    BY <1>3, <2>1, CallsQueue, ExecutedKept
<1>4. ASSUME NEW c \in infos, Complete(c) PROVE finishes \subseteq finishes' /\ \A f : Executed(f) => Executed(f)'
  BY <1>4, Completes, ExecutedKept
<1>5. CASE UNCHANGED <<infos, finishes>>
  BY <1>5, ExecutedKept
<1>6. ASSUME NEW s \in Subscribers, RunnerStep(s) PROVE UNCHANGED <<infos, finishes>>
  BY <1>6, Takes, Receives, HandsOver, QueuesWork, Ends DEF RunnerStep
<1>7. ASSUME NEW w \in loop, UvQueueWorkOnReceiveEvent(w) PROVE UNCHANGED <<infos, finishes>>
  BY <1>7 DEF UvQueueWorkOnReceiveEvent, callVars
<1>8. ASSUME NEW e \in Events, SendEvent(e) PROVE UNCHANGED <<infos, finishes>>
  BY <1>8, Sends
<1>9. CASE Collected
  BY <1>5, <1>9, Finalizes
<1>10. ASSUME NEW s \in Subscribers, Collect(s) PROVE UNCHANGED <<infos, finishes>>
  BY <1>10, Collects
<1>11. CASE UNCHANGED vars
  BY <1>5, <1>11 DEF vars, callVars
<1> QED
  BY <1>1, <1>2, <1>3, <1>4, <1>5, <1>6, <1>7, <1>8, <1>9, <1>10, <1>11 DEF Next, Work

LEMMA LateIsFinite ==
    ASSUME FinishInv, NEW e
    PROVE  IsFiniteSet(LateFor(e)) /\ Cardinality(LateFor(e)) \in Nat
<1>1. LateFor(e) \subseteq finishes /\ IsFiniteSet(finishes)
  BY DEF LateFor, OthersFinished, FinishInv
<1> QED
  BY <1>1, FS_Subset, FS_CardinalityType

LEMMA LateStays ==
    ASSUME ShapeInv, FinishInv, FinishInv', [Next]_vars, NEW e
    PROVE  /\ LateFor(e) \subseteq LateFor(e)'
           /\ Cardinality(LateFor(e)) <= Cardinality(LateFor(e)')
           /\ Executed(e) => Executed(e)'
<1>1. LateFor(e) \subseteq LateFor(e)' /\ (Executed(e) => Executed(e)')
  BY ExecutedStays DEF LateFor, OthersFinished
<1>2. LateFor(e)' \subseteq finishes' /\ IsFiniteSet(finishes')
  BY DEF LateFor, OthersFinished, FinishInv
<1>3. IsFiniteSet(LateFor(e)')
  BY <1>2, FS_Subset
<1> QED
  BY <1>1, <1>3, FS_Subset

LEMMA AnswerKept ==
    ASSUME ShapeInv, FinishInv, FinishInv', AnswerInv, [Next]_vars, answers' = answers,
           \A e \in Events : Answerable(e)' => Answerable(e) \/ answers[e] = 0
    PROVE  AnswerInv'
<1> SUFFICES ASSUME NEW e \in Events
             PROVE  /\ answers'[e] <= Cardinality(LateFor(e)') + 1
                    /\ Answerable(e)' /\ ~Executed(e)' => answers'[e] <= Cardinality(LateFor(e)')
  BY DEF AnswerInv
<1>1. answers[e] \in Nat /\ Cardinality(LateFor(e)) \in Nat
  BY LateIsFinite DEF ShapeInv
<1>2. Cardinality(LateFor(e)') \in Nat
  <2>1. LateFor(e)' \subseteq finishes' /\ IsFiniteSet(finishes')
    BY DEF LateFor, OthersFinished, FinishInv
  <2> QED
    BY <2>1, FS_Subset, FS_CardinalityType
<1>3. Cardinality(LateFor(e)) <= Cardinality(LateFor(e)') /\ (Executed(e) => Executed(e)')
  BY LateStays
<1>4. /\ answers[e] <= Cardinality(LateFor(e)) + 1
      /\ Answerable(e) /\ ~Executed(e) => answers[e] <= Cardinality(LateFor(e))
  BY DEF AnswerInv
<1> QED
  BY <1>1, <1>2, <1>3, <1>4

LEMMA AnswerableSame ==
    ASSUME UNCHANGED subscriberInstances, \A x \in infos' : x.at = "finishing" => x \in infos
    PROVE  \A e : Answerable(e)' => Answerable(e)
BY HeldSame DEF Answerable

LEMMA AnswerFinish ==
    ASSUME ShapeInv, PastInv, FinishInv, FinishInv', AnswerInv, NEW c \in infos, ExecuteAnswer(c)
    PROVE  AnswerInv'
<1>0. [Next]_vars
  BY DEF Next, Work, Execute
<1> PICK a : a = c.argument
  OBVIOUS
<1> PICK e : e = c.about
  OBVIOUS
<1>1. PICK d : Moves(c, d) /\ d.at = "done"
  BY FinishAnswers
<1>2. c.function = "finish" /\ c.at = "finishing" /\ (\E done \in BOOLEAN : Finish(a, done))
      /\ UNCHANGED <<finishes, subscriberInstances>>
  BY FinishAnswers
<1>3. a \in Events /\ For[a] = c.subscriber
  BY <1>2, JsAssumption DEF PastInv, FinishingPast
<1>4. e \in finishes /\ For[e] = c.subscriber
  BY <1>2 DEF FinishInv
<1>5. /\ answers'[a] \in {answers[a], answers[a] + 1} /\ answers[a] \in Nat
      /\ \A f \in Events \ {a} : answers'[f] = answers[f] /\ answers[f] \in Nat
  BY <1>2, <1>3, FinishMarks DEF ShapeInv
<1>6. ~Executed(e)
  BY <1>2 DEF Executed, IsFinish
<1>7. Executed(e)'
  <2>1. \A x : IsFinish(x, e)' => x = d
    BY <1>1, <1>2 DEF IsFinish, Moves, FinishInv
  <2> QED
    BY <1>1, <1>2, <1>4, <2>1 DEF Executed
<1>8. \A f : Answerable(f)' => Answerable(f)
  <2>1. \A x \in infos' : x.at = "finishing" => x \in infos
    BY <1>1 DEF Moves
  <2> QED
    BY <1>2, <2>1, AnswerableSame
<1>9. Answerable(a)
  BY <1>2 DEF Answerable
<1> SUFFICES ASSUME NEW f \in Events
             PROVE  /\ answers'[f] <= Cardinality(LateFor(f)') + 1
                    /\ Answerable(f)' /\ ~Executed(f)' => answers'[f] <= Cardinality(LateFor(f)')
  BY DEF AnswerInv
<1>10. Cardinality(LateFor(f)) \in Nat
  BY LateIsFinite
<1>11. IsFiniteSet(LateFor(f)') /\ Cardinality(LateFor(f)') \in Nat
  <2>1. LateFor(f)' \subseteq finishes' /\ IsFiniteSet(finishes')
    BY DEF LateFor, OthersFinished, FinishInv
  <2> QED
    BY <2>1, FS_Subset, FS_CardinalityType
<1>12. /\ LateFor(f) \subseteq LateFor(f)' /\ Cardinality(LateFor(f)) <= Cardinality(LateFor(f)')
       /\ Executed(f) => Executed(f)'
  BY <1>0, LateStays
<1>13. /\ answers[f] <= Cardinality(LateFor(f)) + 1
       /\ Answerable(f) /\ ~Executed(f) => answers[f] <= Cardinality(LateFor(f))
  BY DEF AnswerInv
<1>14. CASE f # a
  BY <1>5, <1>8, <1>10, <1>11, <1>12, <1>13, <1>14
<1>15. CASE f = a /\ a = e
  BY <1>5, <1>6, <1>7, <1>9, <1>10, <1>11, <1>12, <1>13, <1>15
<1>16. CASE f = a /\ a # e
  <2>1. e \in LateFor(f)' /\ e \notin LateFor(f)
    BY <1>2, <1>3, <1>4, <1>6, <1>7, <1>16 DEF LateFor, OthersFinished
  <2>2. Cardinality(LateFor(f) \cup {e}) = Cardinality(LateFor(f)) + 1
    BY <2>1, LateIsFinite, FS_AddElement
  <2>3. LateFor(f) \cup {e} \subseteq LateFor(f)'
    BY <1>12, <2>1
  <2>4. Cardinality(LateFor(f) \cup {e}) <= Cardinality(LateFor(f)')
    BY <1>11, <2>3, FS_Subset
  <2>5. Cardinality(LateFor(f)) + 1 <= Cardinality(LateFor(f)')
    BY <2>2, <2>4
  <2> QED
    BY <1>5, <1>9, <1>10, <1>11, <1>12, <1>13, <1>16, <2>5
<1> QED
  BY <1>14, <1>15, <1>16

LEMMA AnswerEnds ==
    ASSUME ShapeInv, PastInv, OwnInv, FinishInv, FinishInv', AnswerInv, NEW s \in Subscribers, EndReceive(s)
    PROVE  AnswerInv'
<1>0. [Next]_vars
  BY DEF Next, Work, RunnerStep
<1> PICK e : e = running[s].event
  OBVIOUS
<1>1. e \in Events /\ UNCHANGED <<infos, subscriberInstances>>
  BY Ends
<1>2. \A f : Answerable(f)' => Answerable(f)
  BY <1>1, AnswerableSame
<1>3. CASE e \in Ordered /\ own[s] = e /\ ~Tried(e)
  <2>0. answers[e] = 0
    BY <1>1, <1>3 DEF ShapeInv
  <2>1. /\ answers'[e] \in {0, 1} /\ \A f \in Events \ {e} : answers'[f] = answers[f]
    BY <1>1, <1>3, <2>0, Ends, FinishMarks
  <2>2. For[e] = s /\ e # None
    BY <1>1, <1>3, JsAssumption DEF PastInv, OwnPast
  <2>3. ~Answerable(e)
    BY <1>3, <2>2 DEF OwnInv, Answerable
  <2> SUFFICES ASSUME NEW f \in Events
               PROVE  /\ answers'[f] <= Cardinality(LateFor(f)') + 1
                      /\ Answerable(f)' /\ ~Executed(f)' => answers'[f] <= Cardinality(LateFor(f)')
    BY DEF AnswerInv
  <2>4. Cardinality(LateFor(f)) \in Nat /\ answers[f] \in Nat
    BY LateIsFinite DEF ShapeInv
  <2>5. Cardinality(LateFor(f)') \in Nat
    <3>1. LateFor(f)' \subseteq finishes' /\ IsFiniteSet(finishes')
      BY DEF LateFor, OthersFinished, FinishInv
    <3> QED
      BY <3>1, FS_Subset, FS_CardinalityType
  <2>6. Cardinality(LateFor(f)) <= Cardinality(LateFor(f)') /\ (Executed(f) => Executed(f)')
    BY <1>0, LateStays
  <2>7. /\ answers[f] <= Cardinality(LateFor(f)) + 1
        /\ Answerable(f) /\ ~Executed(f) => answers[f] <= Cardinality(LateFor(f))
    BY DEF AnswerInv
  <2>8. CASE f = e
    BY <1>2, <2>1, <2>3, <2>5, <2>8
  <2>9. CASE f # e
    BY <1>2, <2>1, <2>4, <2>5, <2>6, <2>7, <2>9
  <2> QED
    BY <2>8, <2>9
<1>4. CASE ~(e \in Ordered /\ own[s] = e /\ ~Tried(e))
  <2>1. answers' = answers
    BY <1>1, <1>4, Ends
  <2> QED
    BY <1>0, <1>2, <2>1, AnswerKept
<1> QED
  BY <1>3, <1>4

LEMMA AnswerHandsOver ==
    ASSUME ShapeInv, PlacesInv, PastInv, FinishInv, FinishInv', AnswerInv, NEW s \in Subscribers, HandOver(s)
    PROVE  AnswerInv'
<1>0. [Next]_vars
  BY DEF Next, Work, RunnerStep
<1> PICK e : e = own[s]
  OBVIOUS
<1>1. UNCHANGED <<infos, answers, lost>> /\ running[s].at = "ordered"
  BY HandsOver
<1>2. running[s].event = e /\ RunningOK(s, running[s])
  BY <1>1, ShapeFields DEF PastInv, OwnPast
<1>3. e \in Events /\ For[e] = s
  BY <1>1, <1>2 DEF RunningOK, Idle
<1>4. Pending(e)
  BY <1>1, <1>2, <1>3 DEF Pending
<1>5. answers[e] = 0
  BY <1>3, <1>4, ShapeFields DEF PastInv, AnsweredPast, Past, ShapeInv
<1>6. \A q, f : Held(q, f)' => Held(q, f) \/ f = e
  <2>1. CASE s \in DOMAIN subscriberInstances
    BY <2>1, HandsOver
  <2>2. CASE s \notin DOMAIN subscriberInstances
    BY <2>2, HandsOver, HeldSame
  <2> QED
    BY <2>1, <2>2
<1>7. \A f \in Events : Answerable(f)' => Answerable(f) \/ answers[f] = 0
  BY <1>1, <1>5, <1>6 DEF Answerable
<1> QED
  BY <1>0, <1>1, <1>7, AnswerKept

LEMMA AnswerExecute ==
    ASSUME ShapeInv, PastInv, FinishInv, FinishInv', AnswerInv, NEW c \in infos, Execute(c)
    PROVE  AnswerInv'
<1>0. [Next]_vars
  BY DEF Next, Work
<1>1. CASE ExecuteFinish(c)
  <2>1. PICK d : /\ Moves(c, d)
                 /\ d.at = "finishing" => d.argument # None /\ Held(c.subscriber, d.argument)
    BY <1>1, FinishLooks
  <2>2. UNCHANGED <<answers, subscriberInstances>> /\ c.subscriber \in Subscribers
    BY <1>1, FinishLooks DEF ShapeInv, CallOK, Publishers
  <2>3. d.at = "finishing" => Held(For[d.argument], d.argument)
    BY <2>1, <2>2 DEF PastInv, HeldPast
  <2>4. \A x \in infos' : x \in infos \/ x = d
    BY <2>1 DEF Moves
  <2>5. \A f \in Events : Answerable(f)' => Answerable(f)
    BY <2>2, <2>3, <2>4, HeldSame DEF Answerable
  <2> QED
    BY <1>0, <2>2, <2>5, AnswerKept
<1>2. CASE ~ExecuteFinish(c) /\ ~ExecuteAnswer(c)
  <2>1. UNCHANGED <<answers, subscriberInstances>>
    BY <1>2, PlainExecution, Subscribes, Unsubscribes DEF Execute
  <2>2. \A x \in infos' : x.at = "finishing" => x \in infos
    BY <1>2, PlainExecution, Subscribes, Unsubscribes DEF Execute, Moves
  <2>3. \A f \in Events : Answerable(f)' => Answerable(f)
    BY <2>1, <2>2, AnswerableSame
  <2> QED
    BY <1>0, <2>1, <2>3, AnswerKept
<1> QED
  BY <1>1, <1>2, AnswerFinish

LEMMA AnswerDropped ==
    ASSUME \A s, e : Held(s, e)' => Held(s, e) \/ e = None, \A x \in infos' : x.at = "finishing" => x \in infos
    PROVE  \A e \in Events : Answerable(e)' => Answerable(e)
BY JsAssumption DEF Answerable

LEMMA AnswerNext ==
    ASSUME ShapeInv, PlacesInv, PastInv, OwnInv, FinishInv, FinishInv', AnswerInv, [Next]_vars
    PROVE  AnswerInv'
<1>1. CASE Calls
  <2>1. \A c \in infos' : c.at = "finishing" => c \in infos
    BY <1>1, CallsQueue DEF Queued
  <2> QED
    BY <1>1, <2>1, CallsQueue, AnswerableSame, AnswerKept
<1>2. CASE Collected
  <2>1. \A s, e : Held(s, e)' => Held(s, e)
    BY <1>2, Finalizes, EntryDropped
  <2>2. UNCHANGED <<infos, answers, lost>>
    BY <1>2, Finalizes
  <2> QED
    BY <2>1, <2>2, AnswerDropped, AnswerKept
<1>3. ASSUME NEW c \in infos, Complete(c) PROVE AnswerInv'
  <2>1. \A s, e : Held(s, e)' => Held(s, e) \/ e = None
    BY <1>3, EntriesComplete
  <2>2. answers' = answers /\ \A x \in infos' : x.at = "finishing" => x \in infos
    BY <1>3, Completes
  <2> QED
    BY <2>1, <2>2, AnswerDropped, AnswerKept
<1>4. ASSUME NEW s \in Subscribers, FinishCommonEvent(s) PROVE AnswerInv'
  <2>1. \A c \in infos' : c.at = "finishing" => c \in infos
    BY <1>4, FinishQueues
  <2>2. UNCHANGED <<answers, subscriberInstances>>
    BY <1>4, FinishQueues DEF deliveryVars
  <2> QED
    BY <2>1, <2>2, AnswerableSame, AnswerKept
<1>5. ASSUME NEW s \in Subscribers, Collect(s) PROVE AnswerInv'
  <2>1. UNCHANGED <<answers, infos, subscriberInstances>>
    BY <1>5, Collects
  <2> QED
    BY <2>1, AnswerableSame, AnswerKept
<1>6. ASSUME NEW w \in loop, UvQueueWorkOnReceiveEvent(w) PROVE AnswerInv'
  <2>1. UNCHANGED <<infos, answers, subscriberInstances>>
    BY <1>6 DEF UvQueueWorkOnReceiveEvent, callVars, tableVars, resultVars
  <2> QED
    BY <2>1, AnswerableSame, AnswerKept
<1>7. ASSUME NEW e \in Events, SendEvent(e) PROVE AnswerInv'
  <2>1. UNCHANGED <<infos, answers, subscriberInstances>>
    BY <1>7, Sends
  <2> QED
    BY <2>1, AnswerableSame, AnswerKept
<1>8. ASSUME NEW s \in Subscribers, TakeEvent(s) \/ OnReceiveEvent(s) \/ QueueWork(s) PROVE AnswerInv'
  <2>1. UNCHANGED <<infos, answers, subscriberInstances>>
    BY <1>8, Takes, Receives, QueuesWork
  <2> QED
    BY <2>1, AnswerableSame, AnswerKept
<1>9. CASE UNCHANGED vars
  <2>1. UNCHANGED <<infos, answers, subscriberInstances>>
    BY <1>9 DEF vars, callVars, tableVars, resultVars
  <2> QED
    BY <2>1, AnswerableSame, AnswerKept
<1> QED
  BY <1>1, <1>2, <1>3, <1>4, <1>5, <1>6, <1>7, <1>8, <1>9, AnswerExecute, AnswerHandsOver, AnswerEnds
  DEF Next, Work, RunnerStep

-----------------------------------------------------------------------------
(* The invariant and the theorems *)

JInv ==
    /\ ShapeInv /\ CallsInv /\ RefInv /\ AgreeInv /\ PlacesInv /\ PastInv /\ TurnInv
    /\ ResultInv /\ OwnInv /\ FinishInv /\ SureInv /\ AnswerInv

LEMMA JInvInit == Init => JInv
<1> SUFFICES ASSUME Init PROVE JInv
  OBVIOUS
<1>0. Len(<<>>) = 0
  OBVIOUS
<1>1. /\ infos = {} /\ settled = {} /\ finishes = {} /\ subscribed = {} /\ DOMAIN subscriberInstances = {}
      /\ sent = {} /\ loop = {} /\ gone = {} /\ collecting = None
      /\ \A s \in Subscribers : /\ arriving[s] = <<>> /\ running[s] = Idle /\ own[s] = None
                                /\ seen[s] = <<>>
      /\ \A e \in Events : answers[e] = 0 /\ e \notin lost
      /\ called = 0 /\ others = 0 /\ DOMAIN callbackRef = Subscribers
  BY DEF Init
<1>2. ShapeInv
  BY ShapeInit
<1>3. CallsInv /\ RefInv /\ AgreeInv
  BY <1>1 DEF CallsInv, RefInv, AgreeInv, Agrees, IsCall
<1>4. PlacesInv
  BY <1>0, <1>1 DEF PlacesInv
<1>5. PastInv
  <2>1. OwnPast
    BY <1>1 DEF OwnPast, Idle
  <2>2. HeldPast /\ FinishingPast /\ LoopPast /\ AnsweredPast
    BY <1>1 DEF HeldPast, Held, FinishingPast, LoopPast, AnsweredPast
  <2>3. SeenPast
    BY <1>0, <1>1 DEF SeenPast
  <2> QED
    BY <2>1, <2>2, <2>3 DEF PastInv
<1>6. TurnInv /\ ResultInv /\ OwnInv /\ SureInv
  BY <1>1 DEF TurnInv, ResultInv, OwnInv, SureInv
<1>7. FinishInv
  BY <1>1, FS_EmptySet DEF FinishInv, IsFinish
<1>8. AnswerInv
  <2>1. \A e : LateFor(e) = {}
    BY <1>1 DEF LateFor, OthersFinished
  <2>2. \A e : Cardinality(LateFor(e)) = 0
    BY <2>1, FS_EmptySet
  <2> QED
    BY <1>1, <2>2 DEF AnswerInv
<1> QED
  BY <1>2, <1>3, <1>4, <1>5, <1>6, <1>7, <1>8 DEF JInv

LEMMA JInvNext == JInv /\ [Next]_vars => JInv'
<1> SUFFICES ASSUME JInv, [Next]_vars PROVE JInv'
  OBVIOUS
<1>0. /\ ShapeInv /\ CallsInv /\ RefInv /\ AgreeInv /\ PlacesInv /\ PastInv /\ TurnInv
      /\ ResultInv /\ OwnInv /\ FinishInv /\ SureInv /\ AnswerInv
  BY DEF JInv
<1>1. Onward /\ PlacesInv'
  BY <1>0, NextOnward
<1>2. ShapeInv'
  BY <1>0, ShapeNext
<1>3. PastInv' /\ TurnInv'
  BY <1>0, PastNext, TurnNext
<1>4. CallsInv' /\ RefInv' /\ AgreeInv'
  BY <1>0, CallsInvNext, RefNext, AgreeNext
<1>5. ResultInv' /\ OwnInv'
  BY <1>0, ResultNext, OwnNext
<1>6. FinishInv'
  BY <1>0, <1>1, FinishNext
<1>7. SureInv'
  BY <1>0, SureNext
<1>8. AnswerInv'
  BY <1>0, <1>6, AnswerNext
<1> QED
  BY <1>1, <1>2, <1>3, <1>4, <1>5, <1>6, <1>7, <1>8 DEF JInv

\* What follows rests on this: calls, the table, the places an event can be
\* in and the answers it gets stay as the parts of JInv describe them, for any
\* number of subscribers, calls and events.
THEOREM JsStaysInStep == Spec => []JInv
<1> QED
  BY JInvInit, JInvNext, PTL DEF Spec

\* Whenever no call of a subscriber is in progress: if it has an entry in
\* subscriberInstances, the service has a listener of it; and if the service
\* has one, it has an entry or a request about it, be it a call's or the
\* finalizer's, was reported as failed.
THEOREM EntriesAlwaysAgree == Spec => []EntriesAgree
<1>1. JInv => EntriesAgree
  BY DEF JInv, AgreeInv, Agrees, EntriesAgree, Settling, IsCall
<1> QED
  BY <1>1, JsStaysInStep, PTL

\* A call of finishCommonEvent that settles without an error has had the event
\* answered, or left it to the listener in whose hands the result still is,
\* unless the listener's own answer was lost or the subscriber has been
\* unsubscribed or collected.
THEOREM FinishedGetsAnswered == Spec => []FinishedIsAnswered
<1>1. ASSUME JInv PROVE FinishedIsAnswered
  <2> SUFFICES ASSUME NEW c \in settled, c.errorCode = 0
               PROVE  \/ answers[c.about] > 0 \/ c.about \in lost
                      \/ running[c.subscriber].at # "idle" /\ running[c.subscriber].event = c.about
                      \/ c.subscriber \in gone
    BY DEF FinishedIsAnswered
  <2>1. For[c.about] = c.subscriber /\ Sure(c.about)
    BY <1>1 DEF JInv, SureInv
  <2> QED
    BY <2>1 DEF Sure, AtListener
<1> QED
  BY <1>1, JsStaysInStep, PTL

\* An unordered event is never answered, and an ordered one once, but for one
\* more answer for each other event of its subscriber that was finished so
\* late that the finish found this one's result.
THEOREM AnswersAreCounted == Spec => []AnsweredOnce
<1>1. ASSUME JInv, NEW e \in Events
      PROVE  answers[e] <= IF e \in Ordered THEN 1 + Cardinality(OthersFinished(e)) ELSE 0
  <2>1. LateFor(e) \subseteq OthersFinished(e) /\ OthersFinished(e) \subseteq finishes /\ IsFiniteSet(finishes)
    BY <1>1 DEF LateFor, OthersFinished, JInv, FinishInv
  <2>2. IsFiniteSet(OthersFinished(e))
    BY <2>1, FS_Subset
  <2>3. /\ Cardinality(LateFor(e)) <= Cardinality(OthersFinished(e))
        /\ Cardinality(OthersFinished(e)) \in Nat /\ Cardinality(LateFor(e)) \in Nat
    BY <2>1, <2>2, FS_Subset, FS_CardinalityType
  <2>4. answers[e] \in Nat /\ answers[e] <= Cardinality(LateFor(e)) + 1
    BY <1>1 DEF JInv, AnswerInv, ShapeInv
  <2>5. answers[e] > 0 => e \in Ordered
    BY <1>1 DEF JInv, PastInv, AnsweredPast
  <2> QED
    BY <2>3, <2>4, <2>5
<1>2. JInv => AnsweredOnce
  BY <1>1 DEF AnsweredOnce
<1> QED
  BY <1>2, JsStaysInStep, PTL
=============================================================================
