------------------------ MODULE ClientListenersProofs ------------------------
(***************************************************************************)
(* Theorems about ClientListeners: what is registered is listed, who was   *)
(* told that it is subscribed is registered, at most one callback begins   *)
(* after Stop, and the service is answered once.  Each holds of the        *)
(* subscribers that satisfy its condition, whatever the others do.         *)
(***************************************************************************)
EXTENDS ClientListeners, SelectionProofs

-----------------------------------------------------------------------------
(* Which threads may call what *)

Managing(s) == {<<"subscribe", s>>, <<"unsubscribe", s>>}

\* The calls that a thread may make: those of its plan, or of the callbacks
\* that run on it.
MayCall(t, c) ==
    \/ t \in AppThreads /\ c \in Plan[t]
    \/ \E l \in Listeners : t = Runner(l) /\ c \in InCallback[l[1]]

Manages(t, s) == \E c \in Managing(s) : MayCall(t, c)

\* One thread subscribes and unsubscribes s.
SoleManager(s) == \A t, u \in Threads : Manages(t, s) /\ Manages(u, s) => t = u

\* Nobody publishes with s, which would enter it in the table unregistered.
NotPublished(s) == \A t \in Threads : ~MayCall(t, <<"publish", s>>)

\* The callbacks of s all run on one runner: its thread mode is HANDLER, or it
\* is subscribed only once.
OneRunner(s) == \A l, m \in Listeners : l[1] = s /\ m[1] = s => Runner(l) = Runner(m)

OneFinisher == \A t, u \in Finishers : t = u

-----------------------------------------------------------------------------
(* Types *)

Ops == {"subscribe", "unsubscribe", "publish", "finish"}
Reaching == {"proxy?", "connect", "recipient", "valid"}
Steps == Reaching \cup {"finished?", "finish", "listener", "table", "request", "stop"}

ApiCalls == [op : Ops, for : Subscribers \cup Deliveries \cup {None},
             listener : Listeners \cup {None}, at : Steps]
Tasks == [delivery : Deliveries, at : {"taken", "callback", "called", "finishing"}]

\* Which calls come to which steps, with what they are for.
CallOK(t, c) ==
    /\ c.op \in {"subscribe", "unsubscribe"} =>
           c.for \in Subscribers /\ MayCall(t, <<c.op, c.for>>)
    /\ c.op = "publish" => c.for \in Subscribers \cup {None} /\ MayCall(t, <<c.op, c.for>>)
    /\ c.op = "finish" => c.for \in Deliveries
    /\ c.at \in {"table", "stop"} => c.op = "unsubscribe"
    /\ c.at \in {"finished?", "finish"} => c.op = "finish"
    /\ c.at = "listener" => c.op \in {"subscribe", "publish"} /\ c.for # None
    /\ c.op \in {"subscribe", "unsubscribe"} /\ c.at \in {"request", "stop"} =>
           c.listener \in Listeners /\ c.listener[1] = c.for

DataOK ==
    /\ instance \in Nat \ {0} /\ registered \subseteq Listeners
    /\ DOMAIN eventListeners \subseteq Subscribers
    /\ \A s \in DOMAIN eventListeners : eventListeners[s] \in Listeners /\ eventListeners[s][1] = s
    /\ made \in [Subscribers -> Nat]
    /\ ready \subseteq Listeners
    /\ arriving \in [Listeners -> Seq(Events)]
    /\ tasks \in [Runners -> Seq(Deliveries)]
    /\ running \in [Runners -> {Idle} \cup Tasks]
    /\ result \in [Subscribers -> Deliveries \cup {None}]
    /\ finished \subseteq Deliveries /\ held \subseteq Deliveries /\ sent \subseteq Deliveries
    /\ answers \in [Deliveries -> Nat] /\ late \in [Listeners -> Nat]

TypeOK ==
    /\ DataOK
    /\ call \in [Threads -> {Idle} \cup ApiCalls]
    /\ \A t \in Threads : call[t].at # "idle" => CallOK(t, call[t])

\* A runner has and runs the tasks of its own listeners.
OwnTasks ==
    \A r \in Runners :
        /\ \A d \in ToSet(tasks[r]) : Runner(d[1]) = r
        /\ running[r].at # "idle" => Runner(running[r].delivery[1]) = r

-----------------------------------------------------------------------------
(* Late callbacks *)

\* A listener's object has been made.
Made(l) == l[2] <= made[l[1]]

\* The tasks in the queues are those of listeners that are ready.
TasksOfReady ==
    \A r \in Runners :
        /\ \A d \in ToSet(tasks[r]) : d[1] \in ready
        /\ running[r].at # "idle" => Made(running[r].delivery[1])

\* A late callback has used up the task that its runner had taken.
LateOnce ==
    /\ \A l \in ready : Made(l) /\ late[l] = 0
    /\ \A l \in Listeners : late[l] > 0 =>
           /\ Made(l) /\ late[l] = 1
           /\ ~(running[Runner(l)].at = "taken" /\ running[Runner(l)].delivery[1] = l)

-----------------------------------------------------------------------------
(* Registrations *)

\* The entry of s, its registration and the calls about it.
Listed(s) ==
    /\ \A l \in registered : l[1] = s => s \in DOMAIN eventListeners /\ eventListeners[s] = l
    /\ \A t \in Threads : call[t].at = "request" /\ call[t].op \in {"subscribe", "unsubscribe"}
                          /\ call[t].for = s =>
           s \in DOMAIN eventListeners /\ eventListeners[s] = call[t].listener
    /\ \A t \in Threads : call[t].at = "stop" /\ call[t].for = s =>
           /\ s \in DOMAIN eventListeners /\ eventListeners[s] = call[t].listener
           /\ call[t].listener \notin registered

\* A call about to register s, or to take its entry out of the table.
Pending(c, s) == c.for = s /\ \/ c.at = "request" /\ c.op = "subscribe"
                              \/ c.at = "stop"

Leaving(c, s) == c.at # "idle" /\ c.op = "unsubscribe" /\ c.for = s

\* As long as the service has not died and no call of s has failed: who was
\* told that it is subscribed is registered and is not leaving, and an entry
\* that is not registered is the business of the thread in charge of s.
Believed(s) ==
    up /\ instance = 1 /\ s \notin refused =>
        /\ s \in believed => s \in DOMAIN eventListeners /\ eventListeners[s] \in registered
        /\ \A t \in Threads : Leaving(call[t], s) => s \notin believed
        /\ s \in DOMAIN eventListeners =>
               \/ eventListeners[s] \in registered
               \/ \E t \in Threads : Manages(t, s) /\ Pending(call[t], s)

-----------------------------------------------------------------------------
(* Answers *)

\* A delivery is on its way to its callback.
Arriving(d) == d[2] \in ToSet(arriving[d[1]])
Queued(d) == d \in ToSet(tasks[Runner(d[1])])
Taken(d) == running[Runner(d[1])].at = "taken" /\ running[Runner(d[1])].delivery = d

Ahead(d) == Arriving(d) \/ Queued(d) \/ Taken(d)

\* It is so in one place.
OnePlace ==
    /\ \A l \in Listeners : IsInjective(arriving[l])
    /\ \A r \in Runners : IsInjective(tasks[r])
    /\ \A d \in Deliveries :
           /\ Ahead(d) => d \in sent
           /\ ~(Arriving(d) /\ Queued(d)) /\ ~(Arriving(d) /\ Taken(d)) /\ ~(Queued(d) /\ Taken(d))

\* Its callback has begun.
Past(d) == d \in sent /\ ~Ahead(d)

Finishing(c, d) == c.at # "idle" /\ c.op = "finish" /\ c.for = d

\* A result is the subscriber's or was given away, and belongs to a callback
\* that has begun; so does what is finished, or being finished.
Results ==
    /\ \A s \in Subscribers, d \in Deliveries : result[s] = d =>
           d[1][1] = s /\ Past(d) /\ d \notin held
    /\ \A d \in held \cup finished : Past(d)
    /\ \A t \in Threads, d \in Deliveries : Finishing(call[t], d) => Past(d)
    /\ \A r \in Runners : call[r].at # "idle" => running[r].at \in {"called", "finishing"}

\* Who finishes an event, and how far it is.
Answering(d) ==
    /\ \A t \in Threads : Finishing(call[t], d) =>
           /\ IF t \in Runners THEN t = Runner(d[1]) /\ d \notin held
                               ELSE t \in Finishers /\ d \in held
           /\ call[t].at = "finish" => d \notin finished /\ d[2] \in Ordered
           /\ call[t].at \notin {"finished?", "finish"} => d \in finished /\ answers[d] = 0
    /\ d \in finished => d[2] \in Ordered
    /\ answers[d] > 0 => d \in finished /\ answers[d] = 1

-----------------------------------------------------------------------------
(* Queues *)

LEMMA AppendFacts ==
    ASSUME NEW S, NEW s \in Seq(S), NEW x \in S
    PROVE  /\ Append(s, x) \in Seq(S)
           /\ ToSet(Append(s, x)) = ToSet(s) \cup {x}
           /\ IsInjective(s) /\ x \notin ToSet(s) => IsInjective(Append(s, x))
<1> DEFINE t == Append(s, x)
<1>1. /\ t \in Seq(S) /\ DOMAIN t = 1..Len(s) + 1 /\ DOMAIN s = 1..Len(s) /\ Len(s) \in Nat
      /\ \A i \in DOMAIN s : t[i] = s[i]
      /\ t[Len(s) + 1] = x
  OBVIOUS
<1> HIDE DEF t
<1>2. \A i \in DOMAIN t : i \in DOMAIN s \/ i = Len(s) + 1
  BY <1>1
<1>3. \A i \in DOMAIN s : i \in DOMAIN t
  BY <1>1
<1>4. ToSet(t) = ToSet(s) \cup {x}
  <2>1. ToSet(t) \subseteq ToSet(s) \cup {x}
    BY <1>1, <1>2 DEF ToSet
  <2>2. ToSet(s) \subseteq ToSet(t)
    BY <1>1, <1>3 DEF ToSet
  <2>3. x \in ToSet(t)
    BY <1>1 DEF ToSet
  <2> QED
    BY <2>1, <2>2, <2>3
<1>5. IsInjective(s) /\ x \notin ToSet(s) => IsInjective(t)
  BY <1>1, <1>2 DEF IsInjective, ToSet
<1> QED
  BY <1>1, <1>4, <1>5 DEF t

LEMMA TailFacts ==
    ASSUME NEW S, NEW s \in Seq(S), s # <<>>
    PROVE  /\ Head(s) \in S /\ Tail(s) \in Seq(S)
           /\ ToSet(s) = ToSet(Tail(s)) \cup {Head(s)}
           /\ IsInjective(s) => IsInjective(Tail(s)) /\ Head(s) \notin ToSet(Tail(s))
<1> DEFINE t == Tail(s)
<1>1. /\ t \in Seq(S) /\ DOMAIN t = 1..Len(s) - 1 /\ DOMAIN s = 1..Len(s) /\ Len(s) \in Nat \ {0}
      /\ \A i \in DOMAIN t : t[i] = s[i + 1]
      /\ Head(s) = s[1] /\ Head(s) \in S
  OBVIOUS
<1> HIDE DEF t
<1>2. \A i \in DOMAIN t : i + 1 \in DOMAIN s /\ i \in Int /\ i + 1 # 1
  BY <1>1
<1>3. \A i \in DOMAIN s : i = 1 \/ (i - 1 \in DOMAIN t /\ s[i] = t[i - 1])
  BY <1>1
<1>4. 1 \in DOMAIN s
  BY <1>1
<1>5. ToSet(s) = ToSet(t) \cup {Head(s)}
  <2>1. ToSet(s) \subseteq ToSet(t) \cup {Head(s)}
    BY <1>1, <1>3 DEF ToSet
  <2>2. ToSet(t) \subseteq ToSet(s)
    BY <1>1, <1>2 DEF ToSet
  <2>3. Head(s) \in ToSet(s)
    BY <1>1, <1>4 DEF ToSet
  <2> QED
    BY <2>1, <2>2, <2>3
<1>6. ASSUME IsInjective(s)
      PROVE  IsInjective(t) /\ Head(s) \notin ToSet(t)
  <2>1. \A i \in DOMAIN t : t[i] # Head(s)
    BY <1>1, <1>2, <1>4, <1>6 DEF IsInjective
  <2>2. \A i, j \in DOMAIN t : t[i] = t[j] => i = j
    BY <1>1, <1>2, <1>6 DEF IsInjective
  <2> QED
    BY <2>1, <2>2 DEF IsInjective, ToSet
<1> QED
  BY <1>1, <1>5, <1>6 DEF t

-----------------------------------------------------------------------------
(* Sets and functions of the model *)

LEMMA ListenerFacts ==
    /\ \A l \in Listeners : l[1] \in Subscribers /\ l[2] \in 1..MAX_LISTENERS /\ l = <<l[1], l[2]>>
                            /\ Runner(l) \in Runners
    /\ \A d \in Deliveries : d[1] \in Listeners /\ d[2] \in Events /\ d = <<d[1], d[2]>>
    /\ \A l \in Listeners, e \in Events : <<l, e>> \in Deliveries
    /\ Runners \subseteq Threads /\ AppThreads \subseteq Threads /\ Finishers \subseteq AppThreads
    /\ \A t \in Threads : t # None /\ (t \in Runners <=> t \notin AppThreads)
    /\ None \notin Subscribers /\ None \notin Deliveries
BY ClientAssumption DEF Listeners, Deliveries, Runners, Threads

\* A thread that is in a call, and what the call is about.
LEMMA InCall ==
    ASSUME TypeOK, NEW t \in Threads, call[t].at # "idle"
    PROVE  call[t] \in ApiCalls /\ CallOK(t, call[t])
BY DEF TypeOK, Idle

\* A call that only goes on to another step.
LEMMA GotoFacts ==
    ASSUME TypeOK, NEW t \in Threads, call[t].at # "idle", NEW at \in Steps, Goto(t, at)
    PROVE  /\ call' \in [Threads -> {Idle} \cup ApiCalls]
           /\ \A u \in Threads : u # t => call'[u] = call[u]
           /\ call'[t].op = call[t].op /\ call'[t].for = call[t].for
           /\ call'[t].listener = call[t].listener /\ call'[t].at = at
<1>1. call[t] \in ApiCalls /\ call \in [Threads -> {Idle} \cup ApiCalls]
  BY InCall DEF TypeOK
<1>2. [call[t] EXCEPT !.at = at] \in ApiCalls
  BY <1>1 DEF ApiCalls
<1> QED
  BY <1>1, <1>2 DEF Goto, ApiCalls

\* A call that takes a listener and goes to the request.
LEMMA TakesFacts ==
    ASSUME TypeOK, NEW t \in Threads, call[t].at # "idle", NEW l \in Listeners,
           call' = [call EXCEPT ![t].at = "request", ![t].listener = l]
    PROVE  /\ call' \in [Threads -> {Idle} \cup ApiCalls]
           /\ \A u \in Threads : u # t => call'[u] = call[u]
           /\ call'[t].op = call[t].op /\ call'[t].for = call[t].for
           /\ call'[t].listener = l /\ call'[t].at = "request"
<1>1. call[t] \in ApiCalls /\ call \in [Threads -> {Idle} \cup ApiCalls]
  BY InCall DEF TypeOK
<1>2. [call[t] EXCEPT !.at = "request", !.listener = l] \in ApiCalls
  BY <1>1 DEF ApiCalls, Steps, Reaching
<1> QED
  BY <1>1, <1>2 DEF ApiCalls

\* A call that returns.
LEMMA ReturnFacts ==
    ASSUME TypeOK, NEW t \in Threads, NEW answer, Return(t, answer)
    PROVE  /\ call' \in [Threads -> {Idle} \cup ApiCalls]
           /\ \A u \in Threads : u # t => call'[u] = call[u]
           /\ call'[t] = Idle /\ call'[t].at = "idle"
           /\ sent' = sent /\ late' = late
           /\ refused \subseteq refused'
BY DEF TypeOK, Return, Idle

\* A call that begins.
LEMMA StartFacts ==
    ASSUME TypeOK, NEW t \in Threads, NEW op \in Ops,
           NEW for \in Subscribers \cup Deliveries \cup {None}, Start(t, op, for)
    PROVE  /\ call' \in [Threads -> {Idle} \cup ApiCalls]
           /\ \A u \in Threads : u # t => call'[u] = call[u]
           /\ call[t].at = "idle"
           /\ call'[t].op = op /\ call'[t].for = for /\ call'[t].listener = None
           /\ call'[t].at = IF op = "finish" THEN "finished?" ELSE "proxy?"
           /\ sent' = sent /\ answers' = answers /\ late' = late /\ refused' = refused
<1>1. [op |-> op, for |-> for, listener |-> None,
       at |-> IF op = "finish" THEN "finished?" ELSE "proxy?"] \in ApiCalls
  BY DEF ApiCalls, Steps, Reaching
<1> QED
  BY <1>1 DEF TypeOK, Start, Doing

-----------------------------------------------------------------------------
(* Type correctness *)

LEMMA InitType == Init => TypeOK
BY ListenerFacts DEF Init, TypeOK, DataOK, Idle

\* One thread's call changes.
LEMMA OneCallType ==
    ASSUME TypeOK, NEW t \in Threads,
           call' \in [Threads -> {Idle} \cup ApiCalls],
           \A u \in Threads : u # t => call'[u] = call[u],
           call'[t].at # "idle" => CallOK(t, call'[t]),
           DataOK'
    PROVE  TypeOK'
<1>1. \A u \in Threads : call'[u].at # "idle" => CallOK(u, call'[u])
  BY DEF TypeOK
<1> QED
  BY <1>1 DEF TypeOK

\* A call goes on, of which nothing but the step has to be looked at.
LEMMA GotoType ==
    ASSUME TypeOK, NEW t \in Threads, call[t].at # "idle", NEW at \in Steps, Goto(t, at),
           at \in {"table", "stop"} => call[t].op = "unsubscribe",
           at \in {"finished?", "finish"} => call[t].op = "finish",
           at = "listener" => call[t].op \in {"subscribe", "publish"} /\ call[t].for # None,
           call[t].op \in {"subscribe", "unsubscribe"} /\ at \in {"request", "stop"} =>
               call[t].at = "request",
           DataOK'
    PROVE  TypeOK'
<1>1. CallOK(t, call[t])
  BY InCall
<1>2. CallOK(t, call'[t])
  BY <1>1, GotoFacts DEF CallOK
<1> QED
  BY <1>2, GotoFacts, OneCallType

LEMMA ReturnType ==
    ASSUME TypeOK, NEW t \in Threads, NEW answer, Return(t, answer), DataOK'
    PROVE  TypeOK'
BY ReturnFacts, OneCallType

LEMMA StartType ==
    ASSUME TypeOK, NEW t \in Threads, NEW op \in Ops,
           NEW for \in Subscribers \cup Deliveries \cup {None}, Start(t, op, for),
           op \in {"subscribe", "unsubscribe"} => for \in Subscribers /\ MayCall(t, <<op, for>>),
           op = "publish" => for \in Subscribers \cup {None} /\ MayCall(t, <<op, for>>),
           op = "finish" => for \in Deliveries,
           DataOK'
    PROVE  TypeOK'
<1>1. CallOK(t, call'[t])
  BY StartFacts DEF CallOK, Ops
<1> QED
  BY <1>1, StartFacts, OneCallType

\* A call of a thread's plan, or of a callback that runs on it.
LEMMA PlannedType ==
    ASSUME TypeOK, NEW t \in Threads, NEW c, MayCall(t, c), Start(t, c[1], c[2]), DataOK'
    PROVE  TypeOK' /\ c[1] \in {"subscribe", "unsubscribe", "publish"} /\ c[2] \in Subscribers \cup {None}
<1>1. c \in ({"subscribe", "unsubscribe"} \X Subscribers) \cup ({"publish"} \X (Subscribers \cup {None}))
  BY ClientAssumption DEF MayCall, Listeners
<1>2. c = <<c[1], c[2]>> /\ c[1] \in {"subscribe", "unsubscribe", "publish"}
      /\ c[2] \in Subscribers \cup {None}
      /\ (c[1] \in {"subscribe", "unsubscribe"} => c[2] \in Subscribers)
  BY <1>1
<1>3. MayCall(t, <<c[1], c[2]>>)
  BY <1>2
<1>4. c[1] \in Ops /\ c[2] \in Subscribers \cup Deliveries \cup {None}
  BY <1>2 DEF Ops
<1> QED
  BY <1>2, <1>3, <1>4, StartType

\* Steps that leave the data as it is.
dataVars == <<instance, registered, eventListeners, made, ready, arriving, tasks, running, result, finished,
              held, sent, answers, late>>

LEMMA SameData == ASSUME TypeOK, UNCHANGED dataVars PROVE DataOK'
BY DEF TypeOK, DataOK, dataVars

LEMMA TypeTestFinished == ASSUME TypeOK, NEW t \in Threads, TestFinished(t) PROVE TypeOK'
<1>1. CallOK(t, call[t]) /\ call[t].at = "finished?"
  BY InCall DEF TestFinished, Doing
<1>2. CASE Return(t, FALSE) /\ UNCHANGED answers
  <2>1. UNCHANGED dataVars
    BY <1>2, ReturnFacts DEF TestFinished, dataVars, serviceVars, tableVars, listenerVars, resultVars
  <2> QED
    BY <1>2, <2>1, SameData, ReturnType
<1>3. CASE Goto(t, "finish") /\ UNCHANGED ghostVars
  <2>1. UNCHANGED dataVars
    BY <1>3 DEF TestFinished, dataVars, serviceVars, tableVars, listenerVars, resultVars, ghostVars
  <2>2. call[t].op = "finish"
    BY <1>1 DEF CallOK
  <2> QED
    BY <1>1, <1>3, <2>1, <2>2, SameData, GotoType DEF Steps
<1> QED
  BY <1>2, <1>3 DEF TestFinished

LEMMA TypeSetFinished == ASSUME TypeOK, NEW t \in Threads, SetFinished(t) PROVE TypeOK'
<1>1. CallOK(t, call[t]) /\ call[t].at = "finish"
  BY InCall DEF SetFinished, Doing
<1>2. call[t].for \in Deliveries /\ call[t].op = "finish"
  BY <1>1 DEF CallOK
<1>3. DataOK'
  BY <1>2 DEF TypeOK, DataOK, SetFinished, serviceVars, tableVars, listenerVars, ghostVars
<1> QED
  BY <1>1, <1>3, GotoType DEF SetFinished, Steps, Reaching

LEMMA TypeReaching ==
    ASSUME TypeOK, NEW t \in Threads, TestProxy(t) \/ Connect(t) \/ AddDeathRecipient(t) \/ SetProxyValid(t)
    PROVE  TypeOK'
<1>1. CASE TestProxy(t)
  <2>1. DataOK' /\ call[t].at # "idle"
    BY <1>1, SameData DEF TestProxy, Doing, dataVars, serviceVars, tableVars, listenerVars, resultVars,
                          ghostVars
  <2>2. CASE Goto(t, "valid")
    BY <2>1, <2>2, GotoType DEF Steps, Reaching
  <2>3. CASE Goto(t, "connect")
    BY <2>1, <2>3, GotoType DEF Steps, Reaching
  <2> QED
    BY <1>1, <2>2, <2>3 DEF TestProxy
<1>2. CASE Connect(t)
  <2>1. DataOK' /\ call[t].at # "idle"
    BY <1>2, SameData DEF Connect, Return, Doing, dataVars, serviceVars, tableVars, listenerVars, resultVars,
                          ghostVars
  <2>2. CASE Goto(t, "valid")
    BY <2>1, <2>2, GotoType DEF Steps, Reaching
  <2>3. CASE Goto(t, "recipient")
    BY <2>1, <2>3, GotoType DEF Steps, Reaching
  <2>4. CASE Return(t, FALSE)
    BY <2>1, <2>4, ReturnType
  <2> QED
    BY <1>2, <2>2, <2>3, <2>4 DEF Connect
<1>3. CASE AddDeathRecipient(t)
  <2>1. DataOK' /\ call[t].at # "idle"
    BY <1>3, SameData DEF AddDeathRecipient, Doing, dataVars, serviceVars, tableVars, listenerVars,
                          resultVars, ghostVars
  <2> QED
    BY <1>3, <2>1, GotoType DEF AddDeathRecipient, Steps, Reaching
<1>4. CASE SetProxyValid(t)
  <2>1. DataOK' /\ call[t].at = "valid"
    BY <1>4, SameData DEF SetProxyValid, Doing, dataVars, serviceVars, tableVars, listenerVars,
                          resultVars, ghostVars
  <2>2. call[t] \in ApiCalls /\ CallOK(t, call[t])
    BY <2>1, InCall
  <2>3. AfterProxy(call[t]) \in Steps
        /\ (AfterProxy(call[t]) = "table" => call[t].op = "unsubscribe")
        /\ AfterProxy(call[t]) \notin {"finished?", "finish", "stop"}
        /\ (AfterProxy(call[t]) = "listener" => call[t].op \in {"subscribe", "publish"} /\ call[t].for # None)
        /\ (AfterProxy(call[t]) = "request" => call[t].op \notin {"subscribe", "unsubscribe"})
    BY <2>2, ListenerFacts DEF AfterProxy, Steps, ApiCalls, Ops, CallOK
  <2> QED
    BY <1>4, <2>1, <2>3, GotoType DEF SetProxyValid
<1> QED
  BY <1>1, <1>2, <1>3, <1>4

LEMMA TypeCreate ==
    ASSUME TypeOK, NEW t \in Threads, CreateCommonEventListener(t) PROVE TypeOK'
<1> DEFINE s == call[t].for
           l == <<s, made[s] + 1>>
<1>1. call[t] \in ApiCalls /\ CallOK(t, call[t]) /\ call[t].at = "listener"
  BY InCall DEF CreateCommonEventListener, Doing
<1>2. s \in Subscribers /\ call[t].op \in {"subscribe", "publish"}
  BY <1>1 DEF CallOK
<1>3. CASE s \in DOMAIN eventListeners
  <2>1. DataOK'
    BY <1>3, SameData DEF CreateCommonEventListener, Return, dataVars, serviceVars, tableVars, resultVars,
                          ghostVars
  <2>2. CASE call[t].op = "subscribe"
    BY <1>3, <2>1, <2>2, ReturnType DEF CreateCommonEventListener
  <2>3. CASE call[t].op = "publish"
    <3>1. Goto(t, "request")
      BY <1>3, <2>3 DEF CreateCommonEventListener
    <3> QED
      BY <1>1, <2>1, <2>3, <3>1, GotoType DEF Steps
  <2> QED
    BY <1>2, <2>2, <2>3
<1>4. CASE s \notin DOMAIN eventListeners /\ Cardinality(DOMAIN eventListeners) = SUBSCRIBER_MAX_SIZE
  <2>1. DataOK' /\ Return(t, FALSE)
    BY <1>4, SameData DEF CreateCommonEventListener, Return, dataVars, serviceVars, tableVars, resultVars,
                          ghostVars
  <2> QED
    BY <2>1, ReturnType
<1>5. CASE s \notin DOMAIN eventListeners /\ Cardinality(DOMAIN eventListeners) # SUBSCRIBER_MAX_SIZE
  <2>1. /\ l \in Listeners
        /\ made' = [made EXCEPT ![s] = @ + 1]
        /\ eventListeners' = [x \in DOMAIN eventListeners \cup {s} |->
                                 IF x = s THEN l ELSE eventListeners[x]]
        /\ ready' = ready \cup {l}
        /\ call' = [call EXCEPT ![t].at = "request", ![t].listener = l]
        /\ UNCHANGED <<instance, registered, arriving, tasks, running, result, finished, held, sent,
                       answers, late>>
    BY <1>5 DEF CreateCommonEventListener, serviceVars, resultVars, ghostVars
  <2>2. DataOK'
    <3>1. l \in Listeners /\ l[1] = s
      BY <2>1
    <3>2. made' \in [Subscribers -> Nat]
      BY <1>2, <2>1 DEF TypeOK, DataOK
    <3> HIDE DEF l
    <3>3. /\ DOMAIN eventListeners' \subseteq Subscribers
          /\ \A x \in DOMAIN eventListeners' : eventListeners'[x] \in Listeners /\ eventListeners'[x][1] = x
      BY <1>2, <2>1, <3>1 DEF TypeOK, DataOK
    <3>4. ready' \subseteq Listeners
      BY <2>1, <3>1 DEF TypeOK, DataOK
    <3> QED
      BY <2>1, <3>2, <3>3, <3>4 DEF TypeOK, DataOK
  <2> HIDE DEF l
  <2>3. /\ call' \in [Threads -> {Idle} \cup ApiCalls]
        /\ \A u \in Threads : u # t => call'[u] = call[u]
        /\ call'[t].op = call[t].op /\ call'[t].for = call[t].for
        /\ call'[t].listener = l /\ call'[t].at = "request"
    BY <1>1, <2>1, TakesFacts
  <2>4. l[1] = s
    BY DEF l
  <2>5. CallOK(t, call'[t])
    BY <1>1, <2>1, <2>3, <2>4 DEF CallOK
  <2> QED
    BY <2>2, <2>3, <2>5, OneCallType
<1> QED
  BY <1>3, <1>4, <1>5

LEMMA TypeFind == ASSUME TypeOK, NEW t \in Threads, FindListener(t) PROVE TypeOK'
<1> DEFINE s == call[t].for
           l == eventListeners[s]
<1>1. call[t] \in ApiCalls /\ CallOK(t, call[t]) /\ call[t].at = "table"
  BY InCall DEF FindListener, Doing
<1>2. DataOK'
  BY SameData DEF FindListener, Return, dataVars, serviceVars, listenerVars, resultVars, ghostVars
<1>3. CASE s \in DOMAIN eventListeners
  <2>1. l \in Listeners /\ l[1] = s
    BY <1>3 DEF TypeOK, DataOK
  <2>2. call' = [call EXCEPT ![t].at = "request", ![t].listener = l]
    BY <1>3 DEF FindListener
  <2> HIDE DEF l
  <2>3. /\ call' \in [Threads -> {Idle} \cup ApiCalls]
        /\ \A u \in Threads : u # t => call'[u] = call[u]
        /\ call'[t].op = call[t].op /\ call'[t].for = call[t].for
        /\ call'[t].listener = l /\ call'[t].at = "request"
    BY <1>1, <2>1, <2>2, TakesFacts
  <2>4. CallOK(t, call'[t])
    BY <1>1, <2>1, <2>3 DEF CallOK
  <2> QED
    BY <1>2, <2>3, <2>4, OneCallType
<1>4. CASE s \notin DOMAIN eventListeners
  BY <1>2, <1>4, ReturnType DEF FindListener
<1> QED
  BY <1>3, <1>4

\* A request that reaches the service.
LEMMA ReachesType ==
    ASSUME TypeOK, NEW t \in Threads, Reaches(t),
           UNCHANGED <<instance, eventListeners, made, listenerVars, resultVars, sent, late>>
    PROVE  DataOK'
<1>1. call[t] \in ApiCalls /\ CallOK(t, call[t]) /\ call[t].at = "request"
  BY InCall DEF Reaches, Doing
<1>2. registered' \subseteq Listeners
  BY <1>1 DEF Reaches, TypeOK, DataOK, CallOK
<1>3. answers' \in [Deliveries -> Nat]
  BY <1>1 DEF Reaches, TypeOK, DataOK, CallOK
<1>4. UNCHANGED <<instance, eventListeners, made, ready, arriving, tasks, running, result, finished,
                  held, sent, late>>
  BY DEF listenerVars, resultVars
<1> QED
  BY <1>2, <1>3, <1>4 DEF TypeOK, DataOK

LEMMA TypeRequest ==
    ASSUME TypeOK, NEW t \in Threads, RequestAccepted(t) \/ ReplyLost(t) \/ RequestFails(t) PROVE TypeOK'
<1>2. CASE RequestAccepted(t)
  <2>1. call[t] \in ApiCalls /\ CallOK(t, call[t]) /\ call[t].at = "request"
    BY <1>2, InCall DEF RequestAccepted, Reaches, Doing
  <2>2. Reaches(t) /\ UNCHANGED <<instance, eventListeners, made, listenerVars, resultVars, sent, late>>
    BY <1>2 DEF RequestAccepted, Return, tableVars
  <2>3. DataOK'
    BY <2>2, ReachesType
  <2>4. CASE call[t].op = "unsubscribe"
    BY <1>2, <2>1, <2>3, <2>4, GotoType DEF RequestAccepted, Steps
  <2>5. CASE call[t].op # "unsubscribe"
    BY <1>2, <2>3, <2>5, ReturnType DEF RequestAccepted
  <2> QED
    BY <2>4, <2>5
<1>4. CASE ReplyLost(t)
  <2>1. /\ Reaches(t) /\ Return(t, FALSE)
        /\ UNCHANGED <<instance, eventListeners, made, listenerVars, resultVars, sent, late>>
    BY <1>4 DEF ReplyLost, Return
  <2>2. DataOK'
    BY <2>1, ReachesType
  <2> QED
    BY <2>1, <2>2, ReturnType
<1>3. CASE RequestFails(t)
  <2>1. DataOK'
    BY <1>3, SameData DEF RequestFails, Fails, Return, dataVars, serviceVars, listenerVars, resultVars
  <2> QED
    BY <1>3, <2>1, ReturnType DEF RequestFails, Fails
<1> QED
  BY <1>2, <1>3, <1>4

\* The tasks that go with the handler are those of the listener.
LEMMA OrphanFacts ==
    ASSUME TypeOK, NEW l \in Listeners
    PROVE  /\ RemoveOrphans(l) \in [Runners -> Seq(Deliveries)]
           /\ \A r \in Runners : r # Runner(l) => RemoveOrphans(l)[r] = tasks[r]
           /\ ToSet(RemoveOrphans(l)[Runner(l)]) = {d \in ToSet(tasks[Runner(l)]) : d[1] # l}
           /\ IsInjective(tasks[Runner(l)]) => IsInjective(RemoveOrphans(l)[Runner(l)])
<1> DEFINE r == Runner(l)
           wanted == {d \in ToSet(tasks[r]) : d[1] # l}
           s == Selected(tasks[r], wanted)
<1>1. r \in Runners /\ tasks \in [Runners -> Seq(Deliveries)]
  BY ListenerFacts DEF TypeOK, DataOK
<1>2. RemoveOrphans(l) = [tasks EXCEPT ![r] = s]
  BY DEF RemoveOrphans
<1> HIDE DEF r, wanted
<1>3. /\ s \in Seq(Deliveries)
      /\ ToSet(s) = ToSet(tasks[r]) \cap wanted
      /\ IsInjective(tasks[r]) => IsInjective(s)
  BY <1>1, SelectedFacts
<1>4. ToSet(tasks[r]) \cap wanted = {d \in ToSet(tasks[r]) : d[1] # l}
  BY DEF wanted
<1> HIDE DEF s
<1>5. /\ RemoveOrphans(l) \in [Runners -> Seq(Deliveries)]
      /\ \A u \in Runners : u # r => RemoveOrphans(l)[u] = tasks[u]
      /\ RemoveOrphans(l)[r] = s
  BY <1>1, <1>2, <1>3
<1>6. ToSet(s) = {d \in ToSet(tasks[r]) : d[1] # l}
  BY <1>3, <1>4
<1> QED
  BY <1>3, <1>5, <1>6 DEF r

LEMMA TypeStop == ASSUME TypeOK, NEW t \in Threads, StopListener(t) PROVE TypeOK'
<1> DEFINE l == call[t].listener
<1>1. call[t] \in ApiCalls /\ CallOK(t, call[t]) /\ call[t].at = "stop"
  BY InCall DEF StopListener, Doing
<1>2. l \in Listeners
  BY <1>1 DEF CallOK
<1>3. /\ tasks' = RemoveOrphans(l) /\ ready' = ready \ {l}
      /\ eventListeners' = Restrict(eventListeners, DOMAIN eventListeners \ {call[t].for})
      /\ Return(t, TRUE)
      /\ UNCHANGED <<instance, registered, made, arriving, running, result, finished, held, sent,
                     answers, late>>
  BY DEF StopListener, Return, serviceVars, resultVars
<1>4. tasks' \in [Runners -> Seq(Deliveries)]
  BY <1>2, <1>3, OrphanFacts
<1>5. DataOK'
  BY <1>3, <1>4 DEF TypeOK, DataOK, Restrict
<1> QED
  BY <1>3, <1>5, ReturnType

LEMMA TypeApiStep == ASSUME TypeOK, NEW t \in Threads, ApiStep(t) PROVE TypeOK'
BY TypeTestFinished, TypeSetFinished, TypeReaching, TypeCreate, TypeFind, TypeRequest, TypeStop DEF ApiStep

\* Steps that no call takes, or that begin one.
LEMMA TypeEvents ==
    ASSUME TypeOK, NEW l \in Listeners, NEW e \in Events, SendEvent(l, e) \/ NotifyEvent(l)
    PROVE  TypeOK'
<1>1. UNCHANGED call
  BY DEF SendEvent, NotifyEvent, ghostVars
<1>2. CASE SendEvent(l, e)
  <2>1. arriving' \in [Listeners -> Seq(Events)]
    BY <1>2 DEF SendEvent, TypeOK, DataOK
  <2>2. sent' \subseteq Deliveries
    BY <1>2, ListenerFacts DEF SendEvent, TypeOK, DataOK
  <2>3. DataOK'
    BY <1>2, <2>1, <2>2 DEF SendEvent, TypeOK, DataOK, serviceVars, tableVars, resultVars
  <2> QED
    BY <1>1, <2>3 DEF TypeOK
<1>3. CASE NotifyEvent(l)
  <2>1. arriving[l] \in Seq(Events) /\ arriving[l] # <<>>
    BY <1>3 DEF NotifyEvent, TypeOK, DataOK
  <2>2. Head(arriving[l]) \in Events /\ Tail(arriving[l]) \in Seq(Events)
    BY <2>1
  <2>3. arriving' \in [Listeners -> Seq(Events)]
    BY <1>3, <2>2 DEF NotifyEvent, TypeOK, DataOK
  <2>4. <<l, Head(arriving[l])>> \in Deliveries /\ Runner(l) \in Runners
    BY <2>2, ListenerFacts
  <2>5. tasks' \in [Runners -> Seq(Deliveries)]
    BY <1>3, <2>4 DEF NotifyEvent, TypeOK, DataOK
  <2>6. DataOK'
    BY <1>3, <2>3, <2>5 DEF NotifyEvent, TypeOK, DataOK, serviceVars, tableVars, resultVars, ghostVars
  <2> QED
    BY <1>1, <2>6 DEF TypeOK
<1> QED
  BY <1>2, <1>3

\* What a runner that is not idle runs.
LEMMA RunningFacts ==
    ASSUME TypeOK, NEW r \in Runners, running[r].at # "idle"
    PROVE  /\ running[r] \in Tasks /\ running[r].delivery \in Deliveries
           /\ running[r].delivery[1] \in Listeners /\ running[r].delivery[1][1] \in Subscribers
BY ListenerFacts DEF TypeOK, DataOK, Tasks, Idle

LEMMA TaskGoesOn ==
    ASSUME TypeOK, NEW r \in Runners, running[r].at # "idle",
           NEW at \in {"taken", "callback", "called", "finishing"},
           running' = [running EXCEPT ![r].at = at]
    PROVE  /\ running' \in [Runners -> {Idle} \cup Tasks]
           /\ \A q \in Runners : q # r => running'[q] = running[q]
           /\ running'[r].at = at /\ running'[r].delivery = running[r].delivery
<1>1. running[r] \in Tasks /\ running \in [Runners -> {Idle} \cup Tasks]
  BY RunningFacts DEF TypeOK, DataOK
<1>2. [running[r] EXCEPT !.at = at] \in Tasks
  BY <1>1 DEF Tasks
<1> QED
  BY <1>1, <1>2 DEF Tasks

LEMMA TypeRunner ==
    ASSUME TypeOK, NEW r \in Runners, TakeTask(r) \/ EnterCallback(r) \/ LeaveOnReceiveEvent(r)
    PROVE  TypeOK'
<1>1. UNCHANGED call
  BY DEF TakeTask, EnterCallback, LeaveOnReceiveEvent
<1>2. CASE TakeTask(r)
  <2>1. tasks[r] \in Seq(Deliveries) /\ tasks[r] # <<>>
    BY <1>2 DEF TakeTask, TypeOK, DataOK
  <2>2. Head(tasks[r]) \in Deliveries /\ Tail(tasks[r]) \in Seq(Deliveries)
    BY <2>1
  <2>3. tasks' \in [Runners -> Seq(Deliveries)]
    BY <1>2, <2>2 DEF TakeTask, TypeOK, DataOK
  <2>4. [delivery |-> Head(tasks[r]), at |-> "taken"] \in Tasks
    BY <2>2 DEF Tasks
  <2>5. running' \in [Runners -> {Idle} \cup Tasks]
    BY <1>2, <2>4 DEF TakeTask, TypeOK, DataOK
  <2>6. DataOK'
    BY <1>2, <2>3, <2>5 DEF TakeTask, TypeOK, DataOK, serviceVars, tableVars, resultVars, ghostVars
  <2> QED
    BY <1>1, <2>6 DEF TypeOK
<1>3. CASE EnterCallback(r)
  <2>1. running[r].at # "idle"
    BY <1>3 DEF EnterCallback
  <2>2. running[r].delivery \in Deliveries /\ running[r].delivery[1] \in Listeners
    BY <2>1, RunningFacts
  <2>3. running' \in [Runners -> {Idle} \cup Tasks]
    BY <1>3, <2>1, TaskGoesOn DEF EnterCallback
  <2>4. result' \in [Subscribers -> Deliveries \cup {None}]
    BY <1>3, <2>2 DEF EnterCallback, TypeOK, DataOK
  <2>5. late' \in [Listeners -> Nat]
    BY <1>3, <2>2 DEF EnterCallback, TypeOK, DataOK
  <2>6. DataOK'
    BY <1>3, <2>3, <2>4, <2>5 DEF EnterCallback, TypeOK, DataOK, serviceVars, tableVars
  <2> QED
    BY <1>1, <2>6 DEF TypeOK
<1>4. CASE LeaveOnReceiveEvent(r)
  <2>1. running' \in [Runners -> {Idle} \cup Tasks]
    BY <1>4 DEF LeaveOnReceiveEvent, TypeOK, DataOK
  <2>2. DataOK'
    BY <1>4, <2>1 DEF LeaveOnReceiveEvent, TypeOK, DataOK, serviceVars, tableVars, resultVars, ghostVars
  <2> QED
    BY <1>1, <2>2 DEF TypeOK
<1> QED
  BY <1>2, <1>3, <1>4

LEMMA TypeCallback ==
    ASSUME TypeOK, OwnTasks, NEW r \in Runners,
           CallFromCallback(r) \/ GoAsyncCommonEvent(r) \/ EndCallback(r)
    PROVE  TypeOK'
<1> DEFINE s == running[r].delivery[1][1]
<1>1. running[r].at # "idle" /\ r \in Threads
  BY ListenerFacts DEF CallFromCallback, GoAsyncCommonEvent, EndCallback
<1>2. s \in Subscribers /\ running[r].delivery[1] \in Listeners
  BY <1>1, RunningFacts
<1>3. result[s] # None => result[s] \in Deliveries
  BY <1>2 DEF TypeOK, DataOK
<1>4. CASE GoAsyncCommonEvent(r)
  BY <1>2, <1>3, <1>4 DEF GoAsyncCommonEvent, TypeOK, DataOK, serviceVars, tableVars, listenerVars, ghostVars
<1>5. CASE EndCallback(r)
  <2>1. running' \in [Runners -> {Idle} \cup Tasks]
    BY <1>1, <1>5, TaskGoesOn DEF EndCallback
  <2>2. DataOK'
    BY <1>5, <2>1 DEF EndCallback, Start, TypeOK, DataOK, serviceVars, tableVars, resultVars, ghostVars
  <2>3. CASE result[s] # None /\ Start(r, "finish", result[s])
    BY <1>1, <1>3, <2>2, <2>3, StartType DEF Ops
  <2>4. CASE UNCHANGED call
    BY <2>2, <2>4 DEF TypeOK
  <2> QED
    BY <1>5, <2>3, <2>4 DEF EndCallback
<1>6. CASE CallFromCallback(r)
  <2>1. running' \in [Runners -> {Idle} \cup Tasks]
    BY <1>1, <1>6, TaskGoesOn DEF CallFromCallback
  <2>2. DataOK'
    BY <1>6, <2>1 DEF CallFromCallback, Start, TypeOK, DataOK, serviceVars, tableVars, resultVars
  <2>3. CASE result[s] # None /\ Start(r, "finish", result[s])
    BY <1>1, <1>3, <2>2, <2>3, StartType DEF Ops
  <2>4. ASSUME NEW c \in InCallback[s], Start(r, c[1], c[2])
        PROVE  TypeOK'
    <3>1. MayCall(r, c)
      BY <1>1, <1>2 DEF MayCall, OwnTasks
    <3> QED
      BY <1>1, <2>2, <2>4, <3>1, PlannedType
  <2> QED
    BY <1>6, <2>3, <2>4 DEF CallFromCallback
<1> QED
  BY <1>4, <1>5, <1>6

LEMMA TypeCallApi == ASSUME TypeOK, NEW t \in AppThreads, CallApi(t) PROVE TypeOK'
<1>1. DataOK' /\ t \in Threads
  BY SameData DEF CallApi, Start, dataVars, serviceVars, tableVars, listenerVars, resultVars, Threads
<1>2. ASSUME NEW c \in Plan[t], Start(t, c[1], c[2])
      PROVE  TypeOK'
  BY <1>1, <1>2, PlannedType DEF MayCall
<1>3. ASSUME NEW d \in held, Start(t, "finish", d)
      PROVE  TypeOK'
  <2>1. d \in Deliveries
    BY DEF TypeOK, DataOK
  <2> QED
    BY <1>1, <1>3, <2>1, StartType DEF Ops
<1> QED
  BY <1>2, <1>3 DEF CallApi

LEMMA TypeService ==
    ASSUME TypeOK, ServiceDies \/ ServiceRestarts \/ ResetCommonEventProxy PROVE TypeOK'
<1>1. DataOK' /\ UNCHANGED call
  BY DEF ServiceDies, ServiceRestarts, ResetCommonEventProxy, TypeOK, DataOK, serviceVars, tableVars,
         listenerVars, resultVars, ghostVars
<1> QED
  BY <1>1 DEF TypeOK

\* The steps, one by one.
LEMMA EveryStep ==
    ASSUME [Next]_vars
    PROVE  \/ \E t \in Threads : ApiStep(t)
           \/ \E r \in Runners : RunnerStep(r) \/ CallFromCallback(r) \/ GoAsyncCommonEvent(r)
           \/ \E l \in Listeners : NotifyEvent(l) \/ \E e \in Events : SendEvent(l, e)
           \/ \E t \in AppThreads : CallApi(t)
           \/ ServiceDies \/ ServiceRestarts \/ ResetCommonEventProxy
           \/ UNCHANGED vars
BY DEF Next, Work, ThreadStep

-----------------------------------------------------------------------------
(* The tasks of the runners *)

taskVars == <<ready, made, tasks, running, late>>

\* Most steps leave the tasks alone.
LEMMA TasksAlone ==
    /\ \A t \in Threads :
           (TestFinished(t) \/ SetFinished(t) \/ TestProxy(t) \/ Connect(t) \/ AddDeathRecipient(t)
            \/ SetProxyValid(t) \/ FindListener(t) \/ RequestAccepted(t) \/ ReplyLost(t) \/ RequestFails(t))
           => UNCHANGED taskVars
    /\ \A l \in Listeners, e \in Events : SendEvent(l, e) => UNCHANGED taskVars
    /\ \A r \in Runners : GoAsyncCommonEvent(r) => UNCHANGED taskVars
    /\ \A t \in AppThreads : CallApi(t) => UNCHANGED taskVars
    /\ ServiceDies \/ ServiceRestarts \/ ResetCommonEventProxy \/ UNCHANGED vars => UNCHANGED taskVars
<1>1. ASSUME NEW t \in Threads,
             \/ TestFinished(t) \/ SetFinished(t) \/ TestProxy(t) \/ Connect(t) \/ AddDeathRecipient(t)
             \/ SetProxyValid(t) \/ FindListener(t) \/ RequestAccepted(t) \/ ReplyLost(t) \/ RequestFails(t)
      PROVE  UNCHANGED taskVars
  <2>1. CASE TestFinished(t)
    BY <2>1 DEF TestFinished, Return, taskVars, tableVars, listenerVars, ghostVars
  <2>2. CASE SetFinished(t) \/ TestProxy(t) \/ AddDeathRecipient(t) \/ SetProxyValid(t)
    BY <2>2 DEF SetFinished, TestProxy, AddDeathRecipient, SetProxyValid, taskVars, tableVars,
                listenerVars, ghostVars
  <2>3. CASE Connect(t)
    BY <2>3 DEF Connect, Return, taskVars, tableVars, listenerVars, ghostVars
  <2>4. CASE FindListener(t)
    BY <2>4 DEF FindListener, Return, taskVars, listenerVars, ghostVars
  <2>5. CASE RequestAccepted(t)
    BY <2>5 DEF RequestAccepted, Return, taskVars, tableVars, listenerVars
  <2>6. CASE RequestFails(t)
    BY <2>6 DEF RequestFails, Fails, Return, taskVars, listenerVars
  <2>7. CASE ReplyLost(t)
    BY <2>7 DEF ReplyLost, Return, taskVars, listenerVars
  <2> QED
    BY <1>1, <2>1, <2>2, <2>3, <2>4, <2>5, <2>6, <2>7
<1>2. ASSUME NEW l \in Listeners, NEW e \in Events, SendEvent(l, e)
      PROVE  UNCHANGED taskVars
  BY <1>2 DEF SendEvent, taskVars, tableVars
<1>3. ASSUME NEW r \in Runners, GoAsyncCommonEvent(r)
      PROVE  UNCHANGED taskVars
  BY <1>3 DEF GoAsyncCommonEvent, taskVars, tableVars, listenerVars, ghostVars
<1>4. ASSUME NEW t \in AppThreads, CallApi(t)
      PROVE  UNCHANGED taskVars
  BY <1>4 DEF CallApi, Start, taskVars, tableVars, listenerVars
<1>5. ServiceDies \/ ServiceRestarts \/ ResetCommonEventProxy \/ UNCHANGED vars => UNCHANGED taskVars
  BY DEF ServiceDies, ServiceRestarts, ResetCommonEventProxy, vars, taskVars, tableVars, listenerVars, ghostVars
<1> QED
  BY <1>1, <1>2, <1>3, <1>4, <1>5

TasksOK == TypeOK /\ OwnTasks /\ TasksOfReady /\ LateOnce

LEMMA SameTasks == ASSUME TasksOK, UNCHANGED taskVars PROVE OwnTasks' /\ TasksOfReady' /\ LateOnce'
BY DEF TasksOK, OwnTasks, TasksOfReady, LateOnce, Made, taskVars

\* The listener that is made is new.
LEMMA TasksCreate ==
    ASSUME TasksOK, NEW t \in Threads, CreateCommonEventListener(t)
    PROVE  OwnTasks' /\ TasksOfReady' /\ LateOnce'
<1> DEFINE s == call[t].for
           l == <<s, made[s] + 1>>
<1>1. call[t] \in ApiCalls /\ CallOK(t, call[t]) /\ call[t].at = "listener"
  BY InCall DEF CreateCommonEventListener, Doing, TasksOK
<1>2. s \in Subscribers /\ made \in [Subscribers -> Nat]
  BY <1>1 DEF CallOK, TasksOK, TypeOK, DataOK
<1>3. UNCHANGED <<tasks, running, late>>
  BY DEF CreateCommonEventListener, Return, ghostVars
<1>4. OwnTasks'
  BY <1>3 DEF OwnTasks, TasksOK
<1>5. CASE UNCHANGED <<ready, made>>
  BY <1>3, <1>5, SameTasks DEF taskVars
<1>6. CASE l \in Listeners /\ made' = [made EXCEPT ![s] = @ + 1] /\ ready' = ready \cup {l}
  <2>1. PICK k \in Listeners : k = l
    BY <1>6
  <2>2. k[1] = s /\ k[2] = made[s] + 1 /\ ready' = ready \cup {k}
    BY <1>6, <2>1
  <2> HIDE DEF l
  <2>3. ~Made(k) /\ Made(k)'
    BY <1>2, <1>6, <2>2 DEF Made
  <2>4. \A m \in Listeners : Made(m) => Made(m)'
    BY <1>2, <1>6 DEF Made, Listeners
  <2>5. late[k] = 0
    BY <2>3 DEF TasksOK, LateOnce, TypeOK, DataOK
  <2>6. \A r \in Runners : running[r].at # "idle" => running[r].delivery[1] \in Listeners
    BY RunningFacts DEF TasksOK
  <2>7. \A m \in Listeners : late'[m] > 0 => Made(m)' /\ late'[m] = 1
             /\ ~(running'[Runner(m)].at = "taken" /\ running'[Runner(m)].delivery[1] = m)
    BY <1>3, <2>4 DEF TasksOK, LateOnce
  <2>8. \A m \in ready' : Made(m)' /\ late'[m] = 0
    BY <1>3, <2>2, <2>3, <2>4, <2>5 DEF TasksOK, LateOnce, TypeOK, DataOK
  <2>9. \A r \in Runners : running[r].at # "idle" =>
            \A m \in Listeners : m = running[r].delivery[1] => Made(m)'
    BY <2>4, <2>6 DEF TasksOK, TasksOfReady
  <2>10. TasksOfReady'
    BY <1>3, <2>2, <2>6, <2>9 DEF TasksOfReady, TasksOK, Made
  <2> QED
    BY <1>4, <2>7, <2>8, <2>10 DEF LateOnce
<1> QED
  BY <1>5, <1>6 DEF CreateCommonEventListener, tableVars

LEMMA TasksStop ==
    ASSUME TasksOK, NEW t \in Threads, StopListener(t)
    PROVE  OwnTasks' /\ TasksOfReady' /\ LateOnce'
<1> DEFINE l == call[t].listener
<1>1. l \in Listeners
  BY InCall DEF StopListener, Doing, TasksOK, CallOK
<1>2. tasks' = RemoveOrphans(l) /\ ready' = ready \ {l} /\ UNCHANGED <<made, running, late>>
  BY DEF StopListener, Return
<1>3. /\ \A r \in Runners : r # Runner(l) => tasks'[r] = tasks[r]
      /\ ToSet(tasks'[Runner(l)]) = {d \in ToSet(tasks[Runner(l)]) : d[1] # l}
  BY <1>1, <1>2, OrphanFacts DEF TasksOK
<1>4. \A r \in Runners : \A d \in ToSet(tasks'[r]) : d \in ToSet(tasks[r]) /\ d[1] # l
  <2> SUFFICES ASSUME NEW r \in Runners, NEW d \in ToSet(tasks'[r])
               PROVE  d \in ToSet(tasks[r]) /\ d[1] # l
    OBVIOUS
  <2>1. CASE r = Runner(l)
    BY <1>3, <2>1
  <2>2. CASE r # Runner(l)
    BY <1>3, <2>2 DEF TasksOK, OwnTasks
  <2> QED
    BY <2>1, <2>2
<1> HIDE DEF l
<1>5. OwnTasks'
  BY <1>2, <1>4 DEF TasksOK, OwnTasks
<1>6. TasksOfReady'
  BY <1>2, <1>4 DEF TasksOK, TasksOfReady, Made
<1>7. LateOnce'
  BY <1>2 DEF TasksOK, LateOnce, Made
<1> QED
  BY <1>5, <1>6, <1>7

\* A task for a listener that is ready.
LEMMA TasksNotify ==
    ASSUME TasksOK, NEW l \in Listeners, NotifyEvent(l)
    PROVE  OwnTasks' /\ TasksOfReady' /\ LateOnce'
<1> DEFINE r == Runner(l)
           d == <<l, Head(arriving[l])>>
<1>1. UNCHANGED <<ready, made, running, late>>
  BY DEF NotifyEvent, tableVars, ghostVars
<1>2. arriving[l] \in Seq(Events) /\ arriving[l] # <<>> /\ r \in Runners
      /\ tasks \in [Runners -> Seq(Deliveries)]
  BY ListenerFacts DEF NotifyEvent, TasksOK, TypeOK, DataOK
<1>3. d \in Deliveries
  BY <1>2, ListenerFacts
<1>4. CASE l \notin ready
  BY <1>1, <1>4, SameTasks DEF NotifyEvent, taskVars
<1>5. CASE l \in ready
  <2>1. tasks' = [tasks EXCEPT ![r] = Append(@, d)]
    BY <1>5 DEF NotifyEvent
  <2>2. d[1] = l
    OBVIOUS
  <2> HIDE DEF d
  <2>3. ToSet(tasks'[r]) = ToSet(tasks[r]) \cup {d} /\ \A q \in Runners : q # r => tasks'[q] = tasks[q]
    <3>1. tasks'[r] = Append(tasks[r], d) /\ tasks[r] \in Seq(Deliveries)
      BY <1>2, <2>1
    <3> QED
      BY <1>2, <1>3, <2>1, <3>1, AppendFacts
  <2>4. OwnTasks'
    BY <1>1, <2>2, <2>3 DEF TasksOK, OwnTasks
  <2>5. TasksOfReady'
    BY <1>1, <1>5, <2>2, <2>3 DEF TasksOK, TasksOfReady, Made
  <2>6. LateOnce'
    BY <1>1 DEF TasksOK, LateOnce, Made
  <2> QED
    BY <2>4, <2>5, <2>6
<1> QED
  BY <1>4, <1>5

LEMMA TasksRunner ==
    ASSUME TasksOK, NEW r \in Runners, RunnerStep(r) \/ CallFromCallback(r)
    PROVE  OwnTasks' /\ TasksOfReady' /\ LateOnce'
<1>1. CASE TakeTask(r)
  <2> DEFINE d == Head(tasks[r])
  <2>1. tasks \in [Runners -> Seq(Deliveries)] /\ running \in [Runners -> {Idle} \cup Tasks] /\ tasks[r] # <<>>
    BY <1>1 DEF TakeTask, TasksOK, TypeOK, DataOK
  <2>2. UNCHANGED <<ready, made, late>> /\ tasks' = [tasks EXCEPT ![r] = Tail(@)]
        /\ running' = [running EXCEPT ![r] = [delivery |-> d, at |-> "taken"]]
    BY <1>1 DEF TakeTask, tableVars, ghostVars
  <2>3. ToSet(tasks[r]) = ToSet(Tail(tasks[r])) \cup {d}
    BY <2>1, TailFacts
  <2>4. Runner(d[1]) = r /\ d[1] \in ready
    BY <2>3 DEF TasksOK, OwnTasks, TasksOfReady
  <2> HIDE DEF d
  <2>5. \A q \in Runners : ToSet(tasks'[q]) \subseteq ToSet(tasks[q])
    BY <2>1, <2>2, <2>3
  <2>6. running'[r].delivery = d /\ \A q \in Runners : q # r => running'[q] = running[q]
    BY <2>1, <2>2
  <2>7. OwnTasks'
    BY <2>4, <2>5, <2>6 DEF TasksOK, OwnTasks
  <2>8. TasksOfReady'
    <3>1. ready' = ready /\ \A l : Made(l)' <=> Made(l)
      BY <2>2 DEF Made
    <3>2. Made(running'[r].delivery[1])
      BY <2>4, <2>6 DEF TasksOK, LateOnce
    <3>3. ASSUME NEW q \in Runners
          PROVE  /\ \A x \in ToSet(tasks'[q]) : x[1] \in ready
                 /\ running'[q].at # "idle" => Made(running'[q].delivery[1])
      <4>1. \A x \in ToSet(tasks'[q]) : x[1] \in ready
        BY <2>5 DEF TasksOK, TasksOfReady
      <4>2. CASE q = r
        BY <3>2, <4>1, <4>2
      <4>3. CASE q # r
        BY <2>6, <4>1, <4>3 DEF TasksOK, TasksOfReady
      <4> QED
        BY <4>2, <4>3
    <3> QED
      BY <3>1, <3>3 DEF TasksOfReady
  <2>9. late[d[1]] = 0
    BY <2>4 DEF TasksOK, LateOnce
  <2>10. LateOnce'
    BY <2>2, <2>6, <2>9, ListenerFacts DEF TasksOK, LateOnce, Made
  <2> QED
    BY <2>7, <2>8, <2>10
<1>2. CASE EnterCallback(r)
  <2> DEFINE d == running[r].delivery
             l == d[1]
  <2>1. running[r].at = "taken" /\ running' = [running EXCEPT ![r].at = "callback"]
        /\ UNCHANGED <<ready, made, tasks>>
        /\ late' = IF l \in ready THEN late ELSE [late EXCEPT ![l] = @ + 1]
    BY <1>2 DEF EnterCallback, tableVars
  <2>2. l \in Listeners /\ Runner(l) = r /\ Made(l) /\ late \in [Listeners -> Nat]
    BY <2>1, RunningFacts DEF TasksOK, OwnTasks, TasksOfReady, TypeOK, DataOK
  <2>3. late[l] = 0
    BY <2>1, <2>2 DEF TasksOK, LateOnce, TypeOK, DataOK
  <2>4. /\ \A q \in Runners : q # r => running'[q] = running[q]
        /\ running'[r].at = "callback" /\ running'[r].delivery = d
    BY <2>1, TaskGoesOn DEF TasksOK
  <2> HIDE DEF d
  <2>5. OwnTasks'
    BY <2>1, <2>2, <2>4 DEF TasksOK, OwnTasks
  <2>6. TasksOfReady'
    BY <2>1, <2>2, <2>4 DEF TasksOK, TasksOfReady, Made
  <2>7. \A k \in Listeners : late'[k] = late[k] \/ (k = l /\ late'[k] = 1)
    BY <2>1, <2>2, <2>3
  <2>8. \A k \in ready : late'[k] = late[k]
    <3> HIDE DEF l
    <3> QED
      BY <2>1, <2>2
  <2> HIDE DEF l
  <2>9. \A k \in Listeners : running'[Runner(k)].at = "taken" => running'[Runner(k)] = running[Runner(k)]
    BY <2>4, ListenerFacts
  <2>10. running'[Runner(l)].at # "taken"
    BY <2>2, <2>4
  <2>11. LateOnce'
    <3>1. \A k \in ready' : Made(k)' /\ late'[k] = 0
      BY <2>1, <2>8 DEF TasksOK, LateOnce, Made
    <3>2. \A k \in Listeners : late'[k] > 0 =>
             Made(k)' /\ late'[k] = 1 /\ ~(running'[Runner(k)].at = "taken" /\ running'[Runner(k)].delivery[1] = k)
      BY <2>1, <2>2, <2>7, <2>9, <2>10 DEF TasksOK, LateOnce, Made
    <3> QED
      BY <3>1, <3>2 DEF LateOnce
  <2> QED
    BY <2>5, <2>6, <2>11
<1>3. CASE EndCallback(r) \/ CallFromCallback(r)
  <2>1. UNCHANGED <<ready, made, tasks, late>> /\ running[r].at # "idle"
    BY <1>3 DEF EndCallback, CallFromCallback, Start, tableVars, ghostVars
  <2>2. PICK at \in {"called", "finishing"} : running' = [running EXCEPT ![r].at = at]
    BY <1>3 DEF EndCallback, CallFromCallback
  <2>3. /\ \A q \in Runners : q # r => running'[q] = running[q]
        /\ running'[r].at = at /\ running'[r].delivery = running[r].delivery
    BY <2>1, <2>2, TaskGoesOn DEF TasksOK
  <2>4. OwnTasks' /\ TasksOfReady'
    BY <2>1, <2>3 DEF TasksOK, OwnTasks, TasksOfReady, Made
  <2>5. LateOnce'
    BY <2>1, <2>2, <2>3, ListenerFacts DEF TasksOK, LateOnce, Made
  <2> QED
    BY <2>4, <2>5
<1>4. CASE LeaveOnReceiveEvent(r)
  <2>1. UNCHANGED <<ready, made, tasks, late>> /\ running' = [running EXCEPT ![r] = Idle]
    BY <1>4 DEF LeaveOnReceiveEvent, tableVars, ghostVars
  <2>2. \A q \in Runners : running'[q] = running[q] \/ running'[q].at = "idle"
    BY <2>1 DEF TasksOK, TypeOK, DataOK, Idle
  <2>3. OwnTasks' /\ TasksOfReady'
    BY <2>1, <2>2 DEF TasksOK, OwnTasks, TasksOfReady, Made
  <2>4. LateOnce'
    BY <2>1, <2>2, ListenerFacts DEF TasksOK, LateOnce, Made
  <2> QED
    BY <2>3, <2>4
<1> QED
  BY <1>1, <1>2, <1>3, <1>4 DEF RunnerStep

LEMMA NextTasks ==
    ASSUME TasksOK, [Next]_vars PROVE TasksOK'
<1>1. CASE \E t \in Threads : ApiStep(t)
  <2>1. PICK t \in Threads : ApiStep(t)
    BY <1>1
  <2>2. TypeOK'
    BY <2>1, TypeApiStep DEF TasksOK
  <2>3. CASE CreateCommonEventListener(t)
    BY <2>2, <2>3, TasksCreate DEF TasksOK
  <2>4. CASE StopListener(t)
    BY <2>2, <2>4, TasksStop DEF TasksOK
  <2>5. CASE UNCHANGED taskVars
    BY <2>2, <2>5, SameTasks DEF TasksOK
  <2>6. CASE \/ TestFinished(t) \/ SetFinished(t) \/ TestProxy(t) \/ Connect(t)
             \/ AddDeathRecipient(t) \/ SetProxyValid(t) \/ FindListener(t)
             \/ RequestAccepted(t) \/ ReplyLost(t) \/ RequestFails(t)
    <3>1. UNCHANGED taskVars
      BY <2>6, TasksAlone
    <3> QED
      BY <2>5, <3>1
  <2> QED
    BY <2>1, <2>3, <2>4, <2>6, Zenon DEF ApiStep
<1>2. CASE \E r \in Runners : RunnerStep(r) \/ CallFromCallback(r)
  <2>1. TypeOK'
    BY <1>2, TypeRunner, TypeCallback DEF TasksOK, RunnerStep
  <2> QED
    BY <1>2, <2>1, TasksRunner DEF TasksOK
<1>3. CASE \E r \in Runners : GoAsyncCommonEvent(r)
  <2>1. TypeOK' /\ UNCHANGED taskVars
    BY <1>3, TypeCallback, TasksAlone DEF TasksOK
  <2> QED
    BY <2>1, SameTasks DEF TasksOK
<1>4. CASE \E l \in Listeners : NotifyEvent(l) \/ \E e \in Events : SendEvent(l, e)
  <2>1. PICK l \in Listeners : NotifyEvent(l) \/ \E e \in Events : SendEvent(l, e)
    BY <1>4
  <2>2. CASE NotifyEvent(l)
    <3>1. TypeOK'
      <4>1. l \in Listeners /\ arriving[l] \in Seq(Events) /\ arriving[l] # <<>>
        BY <2>2 DEF NotifyEvent, TasksOK, TypeOK, DataOK
      <4>2. PICK e \in Events : e = Head(arriving[l])
        BY <4>1
      <4> QED
        BY <2>2, <4>2, TypeEvents DEF TasksOK
    <3> QED
      BY <2>2, <3>1, TasksNotify DEF TasksOK
  <2>3. ASSUME NEW e \in Events, SendEvent(l, e)
        PROVE  TasksOK'
    BY <2>3, TypeEvents, TasksAlone, SameTasks DEF TasksOK
  <2> QED
    BY <2>1, <2>2, <2>3
<1>5. CASE \E t \in AppThreads : CallApi(t)
  <2>1. TypeOK' /\ UNCHANGED taskVars
    BY <1>5, TypeCallApi, TasksAlone DEF TasksOK
  <2> QED
    BY <2>1, SameTasks DEF TasksOK
<1>6. CASE ServiceDies \/ ServiceRestarts \/ ResetCommonEventProxy \/ UNCHANGED vars
  <2>1. UNCHANGED taskVars
    BY <1>6, TasksAlone
  <2>2. TypeOK'
    <3>1. CASE UNCHANGED vars
      BY <3>1 DEF TasksOK, TypeOK, DataOK, vars, serviceVars, tableVars, listenerVars, resultVars, ghostVars
    <3> QED
      BY <1>6, <3>1, TypeService DEF TasksOK
  <2> QED
    BY <2>1, <2>2, SameTasks DEF TasksOK
<1> QED
  BY <1>1, <1>2, <1>3, <1>4, <1>5, <1>6, EveryStep

LEMMA InitTasks == Init => TasksOK
<1> SUFFICES ASSUME Init PROVE TasksOK
  OBVIOUS
<1>1. TypeOK
  BY InitType
<1>2. OwnTasks /\ TasksOfReady
  BY DEF Init, OwnTasks, TasksOfReady, ToSet, Idle
<1>3. LateOnce
  BY DEF Init, LateOnce
<1> QED
  BY <1>1, <1>2, <1>3 DEF TasksOK

\* Every variable has its type, and every call is where such a call can be
\* with what it is for.
THEOREM TypeCorrect == Spec => []TypeOK
<1>1. TasksOK => TypeOK
  BY DEF TasksOK
<1> QED
  BY <1>1, InitTasks, NextTasks, PTL DEF Spec

\* After UnSubscribeCommonEvent has stopped a listener at most one callback
\* begins, the one whose task its runner had taken: however often its
\* subscriber is subscribed and whoever unsubscribes it.
THEOREM OneLateCallback == Spec => []AtMostOneLateCallback
<1>1. ASSUME TasksOK, NEW l \in Listeners
      PROVE  late[l] <= 1
  <2>1. late[l] \in Nat /\ (late[l] > 0 => late[l] = 1)
    BY <1>1 DEF TasksOK, LateOnce, TypeOK, DataOK
  <2> QED
    BY <2>1
<1>2. TasksOK => AtMostOneLateCallback
  BY <1>1 DEF AtMostOneLateCallback
<1> QED
  BY <1>2, InitTasks, NextTasks, PTL DEF Spec

-----------------------------------------------------------------------------
(* Registrations and entries of the table *)

\* No call comes to where it is about the registration of a listener.
NoNewRequest ==
    \A t \in Threads : \/ call'[t] = call[t]
                       \/ call'[t].at \notin {"request", "stop"}
                       \/ call'[t].at = "request" /\ call'[t].op \notin {"subscribe", "unsubscribe"}

\* Most steps are not about registrations.
LEMMA RegistrationsAlone ==
    ASSUME TypeOK,
           NEW t \in Threads,
           \/ TestFinished(t) \/ SetFinished(t) \/ TestProxy(t) \/ Connect(t) \/ AddDeathRecipient(t)
           \/ SetProxyValid(t) \/ RequestFails(t)
    PROVE  UNCHANGED <<registered, eventListeners>> /\ NoNewRequest
<1>1. call[t].at # "idle"
  BY DEF TestFinished, SetFinished, TestProxy, Connect, AddDeathRecipient, SetProxyValid,
         RequestFails, Fails, Doing
<1>2. UNCHANGED <<registered, eventListeners>>
  BY DEF TestFinished, SetFinished, TestProxy, Connect, AddDeathRecipient, SetProxyValid,
         RequestFails, Fails, serviceVars, tableVars
<1>3. CASE RequestFails(t)
  <2>1. Return(t, FALSE)
    BY <1>3 DEF RequestFails, Fails
  <2> QED
    BY <1>2, <2>1, ReturnFacts DEF NoNewRequest
<1>4. CASE TestFinished(t) \/ Connect(t)
  <2>1. CASE Return(t, FALSE)
    BY <1>2, <2>1, ReturnFacts DEF NoNewRequest
  <2>2. ASSUME NEW at \in {"finish", "valid", "recipient"}, Goto(t, at)
        PROVE  NoNewRequest
    BY <1>1, <2>2, GotoFacts DEF NoNewRequest, Steps, Reaching
  <2> QED
    BY <1>2, <1>4, <2>1, <2>2 DEF TestFinished, Connect
<1>5. CASE SetFinished(t) \/ TestProxy(t) \/ AddDeathRecipient(t)
  <2>1. ASSUME NEW at \in {"proxy?", "valid", "connect"}, Goto(t, at)
        PROVE  NoNewRequest
    BY <1>1, <2>1, GotoFacts DEF NoNewRequest, Steps, Reaching
  <2> QED
    BY <1>2, <1>5, <2>1 DEF SetFinished, TestProxy, AddDeathRecipient
<1>6. CASE SetProxyValid(t)
  <2>1. call[t] \in ApiCalls /\ CallOK(t, call[t]) /\ Goto(t, AfterProxy(call[t]))
    BY <1>1, <1>6, InCall DEF SetProxyValid
  <2>2. AfterProxy(call[t]) \in {"table", "listener", "request"}
        /\ (AfterProxy(call[t]) = "request" => call[t].op \notin {"subscribe", "unsubscribe"})
    BY <2>1, ListenerFacts DEF AfterProxy, ApiCalls, Ops, CallOK
  <2> QED
    BY <1>1, <1>2, <2>1, <2>2, GotoFacts DEF NoNewRequest, Steps
<1> QED
  BY <1>3, <1>4, <1>5, <1>6

\* A call that begins.
LEMMA StartQuiet ==
    ASSUME TypeOK, NEW t \in Threads, NEW op, NEW for, Start(t, op, for)
    PROVE  NoNewRequest
BY DEF Start, Doing, NoNewRequest, TypeOK

LEMMA StepsQuiet ==
    /\ \A t \in AppThreads : TypeOK /\ CallApi(t) => UNCHANGED <<registered, eventListeners>> /\ NoNewRequest
    /\ \A r \in Runners : TypeOK /\ (RunnerStep(r) \/ CallFromCallback(r) \/ GoAsyncCommonEvent(r)) =>
           UNCHANGED <<registered, eventListeners>> /\ NoNewRequest
    /\ \A l \in Listeners :
           NotifyEvent(l) \/ (\E e \in Events : SendEvent(l, e)) =>
           UNCHANGED <<registered, eventListeners>> /\ NoNewRequest
    /\ ServiceRestarts \/ ResetCommonEventProxy \/ UNCHANGED vars =>
           UNCHANGED <<registered, eventListeners>> /\ NoNewRequest
    /\ ServiceDies => registered' = {} /\ UNCHANGED eventListeners /\ NoNewRequest
<1>1. ASSUME NEW t \in AppThreads, TypeOK, CallApi(t)
      PROVE  UNCHANGED <<registered, eventListeners>> /\ NoNewRequest
  <2>1. t \in Threads
    BY DEF Threads
  <2>2. UNCHANGED <<registered, eventListeners>>
    BY <1>1 DEF CallApi, serviceVars, tableVars
  <2> QED
    BY <1>1, <2>1, <2>2, StartQuiet DEF CallApi
<1>2. ASSUME NEW r \in Runners, TypeOK, RunnerStep(r) \/ CallFromCallback(r) \/ GoAsyncCommonEvent(r)
      PROVE  UNCHANGED <<registered, eventListeners>> /\ NoNewRequest
  <2>1. r \in Threads
    BY ListenerFacts
  <2>2. UNCHANGED <<registered, eventListeners>>
    BY <1>2 DEF RunnerStep, TakeTask, EnterCallback, EndCallback, LeaveOnReceiveEvent, CallFromCallback,
                GoAsyncCommonEvent, serviceVars, tableVars
  <2>3. CASE UNCHANGED call
    BY <2>2, <2>3 DEF NoNewRequest
  <2>4. CASE \E op, for : Start(r, op, for)
    BY <1>2, <2>1, <2>2, <2>4, StartQuiet
  <2>5. CASE EndCallback(r)
    BY <2>3, <2>4, <2>5 DEF EndCallback
  <2>6. CASE CallFromCallback(r)
    BY <2>4, <2>6 DEF CallFromCallback
  <2>7. CASE TakeTask(r) \/ EnterCallback(r) \/ LeaveOnReceiveEvent(r) \/ GoAsyncCommonEvent(r)
    BY <2>3, <2>7 DEF TakeTask, EnterCallback, LeaveOnReceiveEvent, GoAsyncCommonEvent
  <2> QED
    BY <1>2, <2>5, <2>6, <2>7 DEF RunnerStep
<1>3. ASSUME NEW l \in Listeners, NotifyEvent(l) \/ (\E e \in Events : SendEvent(l, e))
      PROVE  UNCHANGED <<registered, eventListeners>> /\ NoNewRequest
  BY <1>3 DEF NotifyEvent, SendEvent, serviceVars, tableVars, NoNewRequest
<1>4. ServiceRestarts \/ ResetCommonEventProxy \/ UNCHANGED vars =>
          UNCHANGED <<registered, eventListeners>> /\ NoNewRequest
  BY DEF ServiceRestarts, ResetCommonEventProxy, vars, serviceVars, tableVars, NoNewRequest
<1>5. ServiceDies => registered' = {} /\ UNCHANGED eventListeners /\ NoNewRequest
  BY DEF ServiceDies, tableVars, NoNewRequest
<1> QED
  BY <1>1, <1>2, <1>3, <1>4, <1>5

\* Two threads in calls that subscribe or unsubscribe s are one.
LEMMA OneManager ==
    ASSUME TypeOK, NEW s \in Subscribers, SoleManager(s), NEW t \in Threads, NEW u \in Threads,
           call[t].at # "idle", call[t].op \in {"subscribe", "unsubscribe"}, call[t].for = s,
           call[u].at # "idle", call[u].op \in {"subscribe", "unsubscribe"}, call[u].for = s
    PROVE  t = u
<1>1. MayCall(t, <<call[t].op, s>>) /\ MayCall(u, <<call[u].op, s>>)
  BY DEF TypeOK, CallOK
<1>2. Manages(t, s) /\ Manages(u, s)
  BY <1>1 DEF Manages, Managing
<1> QED
  BY <1>2 DEF SoleManager

\* At the request and at Stop.
LEMMA AtRequest ==
    ASSUME TypeOK, NEW t \in Threads, call[t].at \in {"request", "stop"},
           call[t].op \in {"subscribe", "unsubscribe"}
    PROVE  call[t].for \in Subscribers /\ call[t].listener \in Listeners
           /\ call[t].listener[1] = call[t].for /\ call[t].at # "idle"
BY InCall DEF CallOK

LEMMA AtStop ==
    ASSUME TypeOK, NEW t \in Threads, call[t].at = "stop"
    PROVE  call[t].op = "unsubscribe" /\ call[t].at # "idle"
BY InCall DEF CallOK

LEMMA ListedQuiet ==
    ASSUME NEW s \in Subscribers, Listed(s), TypeOK', NoNewRequest, UNCHANGED eventListeners,
           registered' = registered \/ registered' = {}
    PROVE  Listed(s)'
<1>1. \A t \in Threads : call'[t].at = "stop" => call'[t] = call[t]
  BY DEF NoNewRequest
<1>2. \A t \in Threads : call'[t].at = "request" /\ call'[t].op \in {"subscribe", "unsubscribe"} =>
          call'[t] = call[t]
  BY DEF NoNewRequest
<1> QED
  BY <1>1, <1>2 DEF Listed

LEMMA ListedCreate ==
    ASSUME TypeOK, NEW s \in Subscribers, Listed(s), NEW t \in Threads, CreateCommonEventListener(t)
    PROVE  Listed(s)'
<1> DEFINE for == call[t].for
           made1 == <<for, made[for] + 1>>
<1>1. call[t] \in ApiCalls /\ CallOK(t, call[t]) /\ call[t].at = "listener"
      /\ UNCHANGED registered
  BY InCall DEF CreateCommonEventListener, Doing, serviceVars
<1>2. CASE for \in DOMAIN eventListeners
  <2>1. UNCHANGED eventListeners
    BY <1>2 DEF CreateCommonEventListener, tableVars
  <2>2. CASE Return(t, TRUE)
    BY <1>1, <2>1, <2>2, ReturnFacts DEF Listed
  <2>3. CASE call[t].op # "subscribe" /\ Goto(t, "request")
    <3>1. call[t].op = "publish"
      BY <1>1, <2>3 DEF CallOK
    <3>2. \A u \in Threads : u # t => call'[u] = call[u]
      BY <1>1, <2>3, GotoFacts DEF Steps
    <3>3. call'[t].op = "publish" /\ call'[t].at = "request"
      BY <1>1, <2>3, <3>1, GotoFacts DEF Steps
    <3> QED
      BY <1>1, <2>1, <3>2, <3>3 DEF Listed
  <2> QED
    BY <1>2, <2>2, <2>3 DEF CreateCommonEventListener
<1>3. CASE for \notin DOMAIN eventListeners /\ Return(t, FALSE) /\ UNCHANGED eventListeners
  BY <1>1, <1>3, ReturnFacts DEF Listed
<1>4. CASE /\ for \notin DOMAIN eventListeners
           /\ made1 \in Listeners
           /\ call' = [call EXCEPT ![t].at = "request", ![t].listener = made1]
           /\ eventListeners' = [x \in DOMAIN eventListeners \cup {for} |->
                                    IF x = for THEN made1 ELSE eventListeners[x]]
  <2>1. PICK l \in Listeners : l = made1
    BY <1>4
  <2> HIDE DEF made1
  <2>2. /\ \A u \in Threads : u # t => call'[u] = call[u]
        /\ call'[t].op = call[t].op /\ call'[t].for = for
        /\ call'[t].listener = l /\ call'[t].at = "request"
    BY <1>1, <1>4, <2>1, TakesFacts
  <2>3. for \in DOMAIN eventListeners' /\ eventListeners'[for] = l
        /\ \A x \in DOMAIN eventListeners : x \in DOMAIN eventListeners' /\ eventListeners'[x] = eventListeners[x]
    BY <1>4, <2>1
  <2> HIDE DEF for
  <2>4. \A m \in registered' : m[1] = s => s \in DOMAIN eventListeners' /\ eventListeners'[s] = m
    BY <1>1, <2>3 DEF Listed
  <2>5. \A u \in Threads : call'[u].at = "request" /\ call'[u].op \in {"subscribe", "unsubscribe"}
                           /\ call'[u].for = s =>
            s \in DOMAIN eventListeners' /\ eventListeners'[s] = call'[u].listener
    BY <2>2, <2>3 DEF Listed
  <2>6. \A u \in Threads : call'[u].at = "stop" /\ call'[u].for = s =>
            /\ s \in DOMAIN eventListeners' /\ eventListeners'[s] = call'[u].listener
            /\ call'[u].listener \notin registered'
    BY <1>1, <2>2, <2>3 DEF Listed
  <2> QED
    BY <2>4, <2>5, <2>6 DEF Listed
<1> QED
  BY <1>2, <1>3, <1>4 DEF CreateCommonEventListener, tableVars

LEMMA ListedFind ==
    ASSUME TypeOK, NEW s \in Subscribers, Listed(s), NEW t \in Threads, FindListener(t)
    PROVE  Listed(s)'
<1>1. call[t] \in ApiCalls /\ CallOK(t, call[t]) /\ call[t].at = "table"
      /\ UNCHANGED <<registered, eventListeners>>
  BY InCall DEF FindListener, Doing, serviceVars
<1>2. CASE Return(t, TRUE)
  BY <1>1, <1>2, ReturnFacts DEF Listed
<1>3. CASE /\ call[t].for \in DOMAIN eventListeners
           /\ call' = [call EXCEPT ![t].at = "request", ![t].listener = eventListeners[call[t].for]]
  <2>1. PICK l \in Listeners : l = eventListeners[call[t].for]
    BY <1>3 DEF TypeOK, DataOK
  <2>2. /\ \A u \in Threads : u # t => call'[u] = call[u]
        /\ call'[t].op = call[t].op /\ call'[t].for = call[t].for
        /\ call'[t].listener = l /\ call'[t].at = "request"
    BY <1>1, <1>3, <2>1, TakesFacts
  <2>3. \A u \in Threads : call'[u].at = "request" /\ call'[u].op \in {"subscribe", "unsubscribe"}
                           /\ call'[u].for = s =>
            s \in DOMAIN eventListeners /\ eventListeners[s] = call'[u].listener
    <3>1. call[t].for = s => s \in DOMAIN eventListeners /\ eventListeners[s] = call'[t].listener
      BY <1>3, <2>1, <2>2
    <3>2. ASSUME NEW u \in Threads, u # t, call'[u].at = "request",
                 call'[u].op \in {"subscribe", "unsubscribe"}, call'[u].for = s
          PROVE  s \in DOMAIN eventListeners /\ eventListeners[s] = call'[u].listener
      <4>1. call'[u] = call[u]
        BY <2>2, <3>2
      <4> QED
        BY <3>2, <4>1 DEF Listed
    <3> QED
      BY <2>2, <3>1, <3>2
  <2>4. \A u \in Threads : call'[u].at = "stop" => call'[u] = call[u]
    BY <2>2
  <2> QED
    BY <1>1, <2>3, <2>4 DEF Listed
<1> QED
  BY <1>2, <1>3 DEF FindListener

LEMMA ListedRequest ==
    ASSUME TypeOK, NEW s \in Subscribers, SoleManager(s), Listed(s), NEW t \in Threads,
           RequestAccepted(t) \/ ReplyLost(t)
    PROVE  Listed(s)'
<1>1. call[t] \in ApiCalls /\ CallOK(t, call[t]) /\ call[t].at = "request" /\ UNCHANGED eventListeners
  BY InCall DEF RequestAccepted, ReplyLost, Reaches, Doing, tableVars
<1>2. CASE call[t].op \in {"publish", "finish"}
  <2>1. (\E answer : Return(t, answer)) /\ UNCHANGED registered
    BY <1>2 DEF RequestAccepted, ReplyLost, Reaches
  <2> QED
    BY <1>1, <2>1, ReturnFacts DEF Listed
<1>3. CASE call[t].op = "subscribe"
  <2>1. (\E answer : Return(t, answer)) /\ registered' = registered \cup {call[t].listener}
    BY <1>3 DEF RequestAccepted, ReplyLost, Reaches
  <2>2. call[t].listener[1] = call[t].for
    BY <1>1, <1>3, AtRequest
  <2>3. \A u \in Threads : call[u].at = "stop" /\ call[u].for = s => call[u].listener # call[t].listener
    <3> SUFFICES ASSUME NEW u \in Threads, call[u].at = "stop", call[u].for = s,
                        call[u].listener = call[t].listener
                 PROVE  FALSE
      OBVIOUS
    <3>1. call[u].op = "unsubscribe" /\ call[u].at # "idle" /\ call[u].listener[1] = s
      BY AtStop, AtRequest
    <3> QED
      BY <1>1, <1>3, <2>2, <3>1, OneManager
  <2> QED
    <3>1. /\ \A u \in Threads : u # t => call'[u] = call[u]
          /\ call'[t].at = "idle"
      BY <2>1, ReturnFacts
    <3>2. \A l \in registered' : l[1] = s => s \in DOMAIN eventListeners /\ eventListeners[s] = l
      BY <1>1, <1>3, <2>1, <2>2 DEF Listed
    <3>3. \A u \in Threads : call'[u].at = "request" /\ call'[u].op \in {"subscribe", "unsubscribe"}
                             /\ call'[u].for = s =>
              s \in DOMAIN eventListeners /\ eventListeners[s] = call'[u].listener
      BY <3>1 DEF Listed
    <3>4. \A u \in Threads : call'[u].at = "stop" /\ call'[u].for = s =>
              /\ s \in DOMAIN eventListeners /\ eventListeners[s] = call'[u].listener
              /\ call'[u].listener \notin registered'
      BY <2>1, <2>3, <3>1 DEF Listed
    <3> QED
      BY <1>1, <3>2, <3>3, <3>4 DEF Listed
<1>5. CASE call[t].op = "unsubscribe" /\ ReplyLost(t)
  <2>1. Return(t, FALSE) /\ registered' = registered \ {call[t].listener}
    BY <1>5 DEF ReplyLost, Reaches
  <2>2. (\A u \in Threads : u # t => call'[u] = call[u]) /\ call'[t].at = "idle"
    BY <2>1, ReturnFacts
  <2> QED
    BY <1>1, <2>1, <2>2 DEF Listed
<1>4. CASE call[t].op = "unsubscribe" /\ RequestAccepted(t)
  <2>1. Goto(t, "stop") /\ registered' = registered \ {call[t].listener}
    BY <1>4 DEF RequestAccepted, Reaches
  <2>2. /\ \A u \in Threads : u # t => call'[u] = call[u]
        /\ call'[t].op = call[t].op /\ call'[t].for = call[t].for
        /\ call'[t].listener = call[t].listener /\ call'[t].at = "stop"
    BY <1>1, <2>1, GotoFacts DEF Steps
  <2> QED
    BY <1>1, <1>4, <2>1, <2>2 DEF Listed
<1> QED
  BY <1>1, <1>2, <1>3, <1>4, <1>5 DEF ApiCalls, Ops

LEMMA ListedStop ==
    ASSUME TypeOK, NEW s \in Subscribers, SoleManager(s), Listed(s), NEW t \in Threads, StopListener(t)
    PROVE  Listed(s)'
<1>1. call[t].at = "stop" /\ call[t].op = "unsubscribe" /\ call[t].at # "idle"
      /\ Return(t, TRUE) /\ UNCHANGED registered
      /\ eventListeners' = Restrict(eventListeners, DOMAIN eventListeners \ {call[t].for})
  BY AtStop DEF StopListener, Doing, serviceVars
<1>2. \A x \in DOMAIN eventListeners : x # call[t].for =>
          x \in DOMAIN eventListeners' /\ eventListeners'[x] = eventListeners[x]
  BY <1>1 DEF Restrict
<1>3. CASE call[t].for # s
  BY <1>1, <1>2, <1>3, ReturnFacts DEF Listed
<1>4. CASE call[t].for = s
  <2>1. \A l \in registered : l[1] # s
    BY <1>1, <1>4 DEF Listed
  <2>2. \A u \in Threads : u # t /\ call[u].for = s => call[u].at # "stop"
    BY <1>1, <1>4, AtStop, OneManager
  <2>3. \A u \in Threads : u # t /\ call[u].for = s /\ call[u].at = "request" =>
            call[u].op \notin {"subscribe", "unsubscribe"}
    BY <1>1, <1>4, OneManager
  <2> QED
    BY <1>1, <2>1, <2>2, <2>3, ReturnFacts DEF Listed
<1> QED
  BY <1>3, <1>4

LEMMA NextListed ==
    ASSUME TypeOK, TypeOK', NEW s \in Subscribers, SoleManager(s), Listed(s), [Next]_vars
    PROVE  Listed(s)'
<1>1. CASE \E t \in Threads : ApiStep(t)
  <2>1. PICK t \in Threads : ApiStep(t)
    BY <1>1
  <2>2. CASE \/ TestFinished(t) \/ SetFinished(t) \/ TestProxy(t) \/ Connect(t) \/ AddDeathRecipient(t)
             \/ SetProxyValid(t) \/ RequestFails(t)
    BY <2>2, RegistrationsAlone, ListedQuiet
  <2>3. CASE CreateCommonEventListener(t) \/ FindListener(t)
    BY <2>3, ListedCreate, ListedFind
  <2>4. CASE RequestAccepted(t) \/ ReplyLost(t) \/ StopListener(t)
    BY <2>4, ListedRequest, ListedStop
  <2> QED
    BY <2>1, <2>2, <2>3, <2>4, Zenon DEF ApiStep
<1>2. CASE ~ \E t \in Threads : ApiStep(t)
  BY <1>2, EveryStep, StepsQuiet, ListedQuiet
<1> QED
  BY <1>1, <1>2

LEMMA ListedAtFirst == ASSUME NEW s \in Subscribers PROVE Init => Listed(s)
BY DEF Init, Listed, Idle

\* What the service may still send to for a subscriber that one thread
\* subscribes and unsubscribes is in the table, whatever the other threads and
\* the callbacks do, and through failed requests and deaths of the service.
THEOREM ListedOfSoleManager ==
    ASSUME NEW s \in Subscribers, SoleManager(s)
    PROVE  Spec => [](\A l \in registered : l[1] = s => l \in Range(eventListeners))
<1>1. Listed(s) => \A l \in registered : l[1] = s => l \in Range(eventListeners)
  BY DEF Listed, Range
<1>2. TypeOK /\ TypeOK' /\ Listed(s) /\ [Next]_vars => Listed(s)'
  BY NextListed
<1>3. Spec => []TypeOK
  BY TypeCorrect
<1> QED
  BY <1>1, <1>2, <1>3, ListedAtFirst, PTL DEF Spec

\* So no registration is left behind, when every subscriber has one such thread.
THEOREM NoneLeftBehind ==
    ASSUME \A s \in Subscribers : SoleManager(s)
    PROVE  Spec => []RegisteredIsListed
<1> DEFINE All == \A s \in Subscribers : Listed(s)
<1>1. TypeOK /\ TypeOK' /\ All /\ [Next]_vars => All'
  BY NextListed
<1>2. TypeOK /\ All => RegisteredIsListed
  <2> SUFFICES ASSUME TypeOK, All, NEW l \in registered PROVE l \in Range(eventListeners)
    BY DEF RegisteredIsListed
  <2>1. l[1] \in Subscribers
    BY ListenerFacts DEF TypeOK, DataOK
  <2> QED
    BY <2>1 DEF Listed, Range
<1>3. Init => All
  BY ListedAtFirst
<1>4. Spec => []TypeOK
  BY TypeCorrect
<1> QED
  BY <1>1, <1>2, <1>3, <1>4, PTL DEF Spec

-----------------------------------------------------------------------------
(* Who was told that it is subscribed *)

\* A step that registers nothing, tells nobody that it is subscribed, and
\* leaves the call that waits for s where it is.
LEMMA BelievedQuiet ==
    ASSUME NEW s \in Subscribers, Believed(s), UNCHANGED <<registered, eventListeners>>,
           up' /\ instance' = 1 /\ s \notin refused' =>
               /\ up /\ instance = 1 /\ s \notin refused
               /\ s \in believed' => s \in believed
               /\ \A t \in Threads : Pending(call[t], s) => Pending(call'[t], s)
               /\ \A t \in Threads : Leaving(call'[t], s) => Leaving(call[t], s) \/ s \notin believed'
    PROVE  Believed(s)'
<1> SUFFICES ASSUME up' /\ instance' = 1 /\ s \notin refused'
             PROVE  /\ s \in believed' => s \in DOMAIN eventListeners /\ eventListeners[s] \in registered
                    /\ \A t \in Threads : Leaving(call'[t], s) => s \notin believed'
                    /\ s \in DOMAIN eventListeners =>
                           \/ eventListeners[s] \in registered
                           \/ \E t \in Threads : Manages(t, s) /\ Pending(call'[t], s)
  BY DEF Believed
<1> QED
  BY DEF Believed

LEMMA BelievedGoto ==
    ASSUME TypeOK, NEW s \in Subscribers, Believed(s), NEW t \in Threads, NEW at \in Steps, Goto(t, at),
           call[t].at \notin {"idle", "request", "stop"},
           UNCHANGED <<registered, eventListeners, up, instance, believed, refused>>
    PROVE  Believed(s)'
<1>1. \A u \in Threads : u # t => call'[u] = call[u]
  BY GotoFacts
<1>2. call'[t].op = call[t].op /\ call'[t].for = call[t].for
  BY GotoFacts
<1>3. ~Pending(call[t], s) /\ (Leaving(call'[t], s) => Leaving(call[t], s))
  BY <1>2 DEF Pending, Leaving
<1> QED
  BY <1>1, <1>3, BelievedQuiet

\* A call that fails.
LEMMA BelievedFails ==
    ASSUME TypeOK, NEW s \in Subscribers, Believed(s), NEW t \in Threads, Return(t, FALSE),
           call[t].at # "idle", UNCHANGED <<registered, eventListeners, up, instance>>
    PROVE  Believed(s)'
<1>1. believed' = believed /\ refused' = IF call[t].op # "finish" THEN refused \cup {call[t].for} ELSE refused
  BY DEF Return
<1>2. \A u \in Threads : u # t => call'[u] = call[u]
  BY ReturnFacts
<1>3. ~Leaving(call'[t], s)
  BY ReturnFacts DEF Leaving
<1>4. s \notin refused' => ~Pending(call[t], s)
  BY <1>1, AtStop DEF Pending
<1> QED
  BY <1>1, <1>2, <1>3, <1>4, BelievedQuiet

LEMMA BelievedStart ==
    ASSUME TypeOK, NEW s \in Subscribers, Believed(s), NEW t \in Threads, NEW op \in Ops,
           NEW for \in Subscribers \cup Deliveries \cup {None}, Start(t, op, for),
           UNCHANGED <<registered, eventListeners, up, instance>>
    PROVE  Believed(s)'
<1>1. /\ \A u \in Threads : u # t => call'[u] = call[u]
      /\ call[t].at = "idle" /\ call'[t].op = op /\ call'[t].for = for /\ refused' = refused
  BY StartFacts
<1>2. believed' = IF op = "unsubscribe" THEN believed \ {for} ELSE believed
  BY DEF Start
<1>3. \A u \in Threads : Pending(call[u], s) => Pending(call'[u], s)
  BY <1>1 DEF Pending
<1>4. \A u \in Threads : Leaving(call'[u], s) => Leaving(call[u], s) \/ s \notin believed'
  <2>1. Leaving(call'[t], s) => s \notin believed'
    BY <1>1, <1>2 DEF Leaving
  <2> QED
    BY <1>1, <2>1
<1>5. s \in believed' => s \in believed
  BY <1>2
<1> QED
  BY <1>1, <1>3, <1>4, <1>5, BelievedQuiet

LEMMA BelievedReaching ==
    ASSUME TypeOK, NEW s \in Subscribers, Believed(s), NEW t \in Threads,
           \/ TestFinished(t) \/ SetFinished(t) \/ TestProxy(t) \/ Connect(t) \/ AddDeathRecipient(t)
           \/ SetProxyValid(t) \/ RequestFails(t)
    PROVE  Believed(s)'
<1>1. call[t].at # "idle" /\ UNCHANGED <<registered, eventListeners, up, instance>>
  BY DEF TestFinished, SetFinished, TestProxy, Connect, AddDeathRecipient, SetProxyValid,
         RequestFails, Fails, Doing, serviceVars, tableVars
<1>2. CASE Return(t, FALSE)
  BY <1>1, <1>2, BelievedFails
<1>3. CASE TestFinished(t) \/ SetFinished(t)
  <2>1. ASSUME NEW at \in {"finish", "proxy?"}, Goto(t, at), UNCHANGED ghostVars
        PROVE  Believed(s)'
    BY <1>1, <1>3, <2>1, BelievedGoto DEF TestFinished, SetFinished, Doing, ghostVars, Steps, Reaching
  <2> QED
    BY <1>2, <1>3, <2>1 DEF TestFinished, SetFinished
<1>4. CASE TestProxy(t) \/ Connect(t) \/ AddDeathRecipient(t)
  <2>1. ASSUME NEW at \in {"valid", "connect", "recipient"}, Goto(t, at), UNCHANGED ghostVars
        PROVE  Believed(s)'
    <3>1. call[t].at \in Reaching
      BY <1>4 DEF TestProxy, Connect, AddDeathRecipient, Doing, Reaching
    <3> QED
      BY <1>1, <2>1, <3>1, BelievedGoto DEF ghostVars, Steps, Reaching
  <2> QED
    BY <1>2, <1>4, <2>1 DEF TestProxy, Connect, AddDeathRecipient
<1>5. CASE SetProxyValid(t)
  <2>1. Goto(t, AfterProxy(call[t])) /\ UNCHANGED ghostVars /\ call[t].at = "valid"
        /\ AfterProxy(call[t]) \in Steps
    BY <1>5 DEF SetProxyValid, AfterProxy, Steps, Doing
  <2> QED
    BY <1>1, <2>1, BelievedGoto DEF ghostVars
<1>6. CASE RequestFails(t)
  BY <1>2, <1>6 DEF RequestFails, Fails
<1> QED
  BY <1>3, <1>4, <1>5, <1>6

LEMMA BelievedCreate ==
    ASSUME TypeOK, NEW s \in Subscribers, SoleManager(s), NotPublished(s), Listed(s), Believed(s),
           NEW t \in Threads, CreateCommonEventListener(t)
    PROVE  Believed(s)'
<1> DEFINE for == call[t].for
           made1 == <<for, made[for] + 1>>
<1>1. call[t] \in ApiCalls /\ CallOK(t, call[t]) /\ call[t].at = "listener"
      /\ UNCHANGED <<registered, up, instance>>
  BY InCall DEF CreateCommonEventListener, Doing, serviceVars
<1>2. call[t].op \in {"subscribe", "publish"} /\ for \in Subscribers /\ MayCall(t, <<call[t].op, for>>)
  BY <1>1 DEF CallOK
<1>3. for = s => call[t].op = "subscribe" /\ Manages(t, s)
  BY <1>2 DEF NotPublished, Manages, Managing
<1>4. CASE for \in DOMAIN eventListeners
  <2>1. UNCHANGED eventListeners
    BY <1>4 DEF CreateCommonEventListener, tableVars
  <2>2. CASE call[t].op = "publish"
    <3>1. Goto(t, "request") /\ UNCHANGED ghostVars
      BY <1>4, <2>2 DEF CreateCommonEventListener
    <3> QED
      BY <1>1, <2>1, <3>1, BelievedGoto DEF ghostVars, Steps
  <2>3. CASE call[t].op = "subscribe"
    <3>1. Return(t, TRUE) /\ believed' = believed \cup {for} /\ refused' = refused
      BY <1>4, <2>3 DEF CreateCommonEventListener, Return
    <3>2. (\A u \in Threads : u # t => call'[u] = call[u]) /\ call'[t].at = "idle"
      BY <3>1, ReturnFacts
    <3>3. ~Pending(call[t], s) /\ ~Leaving(call'[t], s)
      BY <1>1, <3>2 DEF Pending, Leaving
    <3>4. CASE for # s
      BY <1>1, <2>1, <3>1, <3>2, <3>3, <3>4, BelievedQuiet
    <3>5. CASE for = s
      <4>1. \A u \in Threads : ~(Manages(u, s) /\ Pending(call[u], s))
        <5> SUFFICES ASSUME NEW u \in Threads, Manages(u, s), Pending(call[u], s) PROVE FALSE
          OBVIOUS
        <5>1. u = t
          BY <1>3, <3>5 DEF SoleManager
        <5> QED
          BY <3>3, <5>1
      <4>2. \A u \in Threads : ~Leaving(call'[u], s)
        <5> SUFFICES ASSUME NEW u \in Threads, Leaving(call'[u], s) PROVE FALSE
          OBVIOUS
        <5>1. u # t /\ Leaving(call[u], s)
          BY <3>2, <3>3
        <5> QED
          BY <1>1, <2>3, <3>5, <5>1, OneManager DEF Leaving
      <4> QED
        BY <1>1, <1>4, <2>1, <3>1, <3>5, <4>1, <4>2 DEF Believed
    <3> QED
      BY <3>4, <3>5
  <2> QED
    BY <1>2, <2>2, <2>3
<1>5. CASE for \notin DOMAIN eventListeners /\ Return(t, FALSE) /\ UNCHANGED eventListeners
  BY <1>1, <1>5, BelievedFails
<1>6. CASE /\ for \notin DOMAIN eventListeners
           /\ made1 \in Listeners
           /\ call' = [call EXCEPT ![t].at = "request", ![t].listener = made1]
           /\ eventListeners' = [x \in DOMAIN eventListeners \cup {for} |->
                                    IF x = for THEN made1 ELSE eventListeners[x]]
           /\ UNCHANGED ghostVars
  <2>1. PICK l \in Listeners : l = made1
    BY <1>6
  <2> HIDE DEF made1
  <2>2. /\ \A u \in Threads : u # t => call'[u] = call[u]
        /\ call'[t].op = call[t].op /\ call'[t].for = for
        /\ call'[t].listener = l /\ call'[t].at = "request"
    BY <1>1, <1>6, <2>1, TakesFacts
  <2>3. \A x \in Subscribers : x # for =>
            /\ x \in DOMAIN eventListeners' <=> x \in DOMAIN eventListeners
            /\ x \in DOMAIN eventListeners => eventListeners'[x] = eventListeners[x]
    BY <1>6
  <2>4. believed' = believed /\ refused' = refused
    BY <1>6 DEF ghostVars
  <2>5. ~Pending(call[t], s) /\ ~Leaving(call'[t], s)
    BY <1>1, <1>2, <2>2 DEF Pending, Leaving
  <2>6. \A u \in Threads : Leaving(call'[u], s) => Leaving(call[u], s)
    BY <2>2, <2>5
  <2>7. \A u \in Threads : Pending(call[u], s) => Pending(call'[u], s)
    BY <2>2, <2>5
  <2>8. CASE for # s
    <3> HIDE DEF for
    <3> QED
      BY <1>1, <2>3, <2>4, <2>6, <2>7, <2>8 DEF Believed
  <2>9. CASE for = s
    <3>1. Manages(t, s) /\ Pending(call'[t], s)
      BY <1>3, <2>2, <2>9 DEF Pending
    <3>2. s \notin DOMAIN eventListeners
      BY <1>6, <2>9
    <3> HIDE DEF for
    <3> QED
      BY <1>1, <2>4, <2>6, <3>1, <3>2 DEF Believed
  <2> QED
    BY <2>8, <2>9
<1> QED
  BY <1>4, <1>5, <1>6 DEF CreateCommonEventListener, tableVars

LEMMA BelievedFind ==
    ASSUME TypeOK, NEW s \in Subscribers, Believed(s), NEW t \in Threads, FindListener(t)
    PROVE  Believed(s)'
<1>1. call[t] \in ApiCalls /\ CallOK(t, call[t]) /\ call[t].at = "table"
      /\ UNCHANGED <<registered, eventListeners, up, instance>>
  BY InCall DEF FindListener, Doing, serviceVars
<1>2. call[t].op = "unsubscribe" /\ ~Pending(call[t], s)
  BY <1>1 DEF CallOK, Pending
<1>3. CASE Return(t, TRUE)
  <2>1. (\A u \in Threads : u # t => call'[u] = call[u]) /\ ~Leaving(call'[t], s)
    BY <1>3, ReturnFacts DEF Leaving
  <2>2. believed' = believed /\ refused' = refused
    BY <1>2, <1>3 DEF Return
  <2> QED
    BY <1>1, <1>2, <2>1, <2>2, BelievedQuiet
<1>4. CASE /\ call[t].for \in DOMAIN eventListeners
           /\ call' = [call EXCEPT ![t].at = "request", ![t].listener = eventListeners[call[t].for]]
           /\ UNCHANGED ghostVars
  <2>1. PICK l \in Listeners : l = eventListeners[call[t].for]
    BY <1>4 DEF TypeOK, DataOK
  <2>2. /\ \A u \in Threads : u # t => call'[u] = call[u]
        /\ call'[t].op = call[t].op /\ call'[t].for = call[t].for
    BY <1>1, <1>4, <2>1, TakesFacts
  <2>3. Leaving(call'[t], s) => Leaving(call[t], s)
    BY <1>1, <2>2 DEF Leaving
  <2>4. believed' = believed /\ refused' = refused
    BY <1>4 DEF ghostVars
  <2> QED
    BY <1>1, <1>2, <2>2, <2>3, <2>4, BelievedQuiet
<1> QED
  BY <1>3, <1>4 DEF FindListener

LEMMA BelievedRequest ==
    ASSUME TypeOK, NEW s \in Subscribers, SoleManager(s), Listed(s), Believed(s),
           NEW t \in Threads, RequestAccepted(t)
    PROVE  Believed(s)'
<1>1. call[t] \in ApiCalls /\ CallOK(t, call[t]) /\ call[t].at = "request"
      /\ UNCHANGED <<eventListeners, up, instance>>
  BY InCall DEF RequestAccepted, Reaches, Doing, tableVars
<1>2. CASE call[t].op \in {"publish", "finish"}
  <2>1. Return(t, TRUE) /\ UNCHANGED registered
    BY <1>2 DEF RequestAccepted, Reaches
  <2>2. believed' = believed /\ refused' = refused
    BY <1>2, <2>1 DEF Return
  <2>3. ~Pending(call[t], s) /\ ~Leaving(call'[t], s)
    BY <1>1, <1>2, <2>1, ReturnFacts DEF Pending, Leaving
  <2> QED
    BY <1>1, <2>1, <2>2, <2>3, ReturnFacts, BelievedQuiet
<1>3. CASE call[t].op = "subscribe"
  <2>1. Return(t, TRUE) /\ registered' = registered \cup {call[t].listener}
    BY <1>3 DEF RequestAccepted, Reaches
  <2>2. believed' = believed \cup {call[t].for} /\ refused' = refused
    BY <1>3, <2>1 DEF Return
  <2>3. (\A u \in Threads : u # t => call'[u] = call[u]) /\ ~Leaving(call'[t], s)
    BY <2>1, ReturnFacts DEF Leaving
  <2>4. CASE call[t].for # s
    <3>1. ~Pending(call[t], s)
      BY <2>4 DEF Pending
    <3> QED
      BY <1>1, <2>1, <2>2, <2>3, <2>4, <3>1 DEF Believed
  <2>5. CASE call[t].for = s
    <3>1. s \in DOMAIN eventListeners /\ eventListeners[s] \in registered'
      BY <1>1, <1>3, <2>1, <2>5 DEF Listed
    <3>2. \A u \in Threads : ~Leaving(call'[u], s)
      <4> SUFFICES ASSUME NEW u \in Threads, Leaving(call'[u], s) PROVE FALSE
        OBVIOUS
      <4>1. u # t /\ Leaving(call[u], s)
        BY <2>3
      <4> QED
        BY <1>1, <1>3, <2>5, <4>1, OneManager DEF Leaving
    <3> QED
      BY <1>1, <3>1, <3>2 DEF Believed
  <2> QED
    BY <2>4, <2>5
<1>4. CASE call[t].op = "unsubscribe"
  <2>1. Goto(t, "stop") /\ registered' = registered \ {call[t].listener}
        /\ UNCHANGED <<believed, refused>>
    BY <1>4 DEF RequestAccepted, Reaches
  <2>2. /\ \A u \in Threads : u # t => call'[u] = call[u]
        /\ call'[t].op = call[t].op /\ call'[t].for = call[t].for /\ call'[t].at = "stop"
    BY <1>1, <2>1, GotoFacts DEF Steps
  <2>3. ~Pending(call[t], s) /\ (Leaving(call'[t], s) => Leaving(call[t], s))
    BY <1>1, <1>4, <2>2 DEF Pending, Leaving
  <2>4. CASE call[t].for # s
    <3>1. \A x \in DOMAIN eventListeners : eventListeners[x][1] = x
      BY DEF TypeOK, DataOK
    <3>2. call[t].listener[1] # s
      BY <1>1, <1>4, <2>4, AtRequest
    <3>3. s \in DOMAIN eventListeners /\ eventListeners[s] \in registered => eventListeners[s] \in registered'
      BY <2>1, <3>1, <3>2
    <3>4. \A u \in Threads : Leaving(call'[u], s) => Leaving(call[u], s)
      BY <2>2, <2>3
    <3>5. \A u \in Threads : Pending(call[u], s) => Pending(call'[u], s)
      BY <2>2, <2>3
    <3> QED
      BY <1>1, <2>1, <3>3, <3>4, <3>5 DEF Believed
  <2>5. CASE call[t].for = s
    <3>1. up /\ instance = 1 /\ s \notin refused => s \notin believed
      BY <1>1, <1>4, <2>5 DEF Believed, Leaving
    <3>2. Manages(t, s) /\ Pending(call'[t], s)
      BY <1>1, <1>4, <2>2, <2>5 DEF CallOK, Manages, Managing, Pending
    <3> QED
      BY <1>1, <2>1, <3>1, <3>2 DEF Believed
  <2> QED
    BY <2>4, <2>5
<1> QED
  BY <1>1, <1>2, <1>3, <1>4 DEF ApiCalls, Ops

\* The caller is told that the call has failed although it was carried out.
LEMMA BelievedReplyLost ==
    ASSUME TypeOK, NEW s \in Subscribers, Believed(s), NEW t \in Threads, ReplyLost(t)
    PROVE  Believed(s)'
<1>1. /\ call[t] \in ApiCalls /\ CallOK(t, call[t]) /\ call[t].at = "request" /\ call[t].at # "idle"
      /\ Return(t, FALSE) /\ UNCHANGED <<eventListeners, up, instance>>
  BY InCall DEF ReplyLost, Reaches, Doing
<1>2. CASE call[t].op \in {"publish", "finish"}
  <2>1. UNCHANGED registered
    BY <1>2 DEF ReplyLost, Reaches
  <2> QED
    BY <1>1, <2>1, BelievedFails
<1>3. CASE call[t].op \in {"subscribe", "unsubscribe"}
  <2>1. believed' = believed /\ refused' = refused \cup {call[t].for}
    BY <1>1, <1>3 DEF Return
  <2>2. (\A u \in Threads : u # t => call'[u] = call[u]) /\ call'[t].at = "idle"
    BY <1>1, ReturnFacts
  <2>3. CASE call[t].for = s
    BY <2>1, <2>3 DEF Believed
  <2>4. CASE call[t].for # s
    <3>1. \A x \in DOMAIN eventListeners : eventListeners[x][1] = x
      BY DEF TypeOK, DataOK
    <3>2. call[t].listener[1] # s
      BY <1>1, <1>3, <2>4, AtRequest
    <3>3. registered' \in {registered \cup {call[t].listener}, registered \ {call[t].listener}}
      BY <1>3 DEF ReplyLost, Reaches
    <3>4. s \in DOMAIN eventListeners => (eventListeners[s] \in registered <=> eventListeners[s] \in registered')
      BY <3>1, <3>2, <3>3
    <3>5. \A u \in Threads : Leaving(call'[u], s) => Leaving(call[u], s)
      BY <2>2 DEF Leaving
    <3>6. \A u \in Threads : Pending(call[u], s) => Pending(call'[u], s)
      BY <2>2, <2>4 DEF Pending
    <3> QED
      BY <1>1, <2>1, <3>4, <3>5, <3>6 DEF Believed
  <2> QED
    BY <2>3, <2>4
<1> QED
  BY <1>1, <1>2, <1>3 DEF ApiCalls, Ops

LEMMA BelievedStop ==
    ASSUME TypeOK, NEW s \in Subscribers, Believed(s), NEW t \in Threads, StopListener(t)
    PROVE  Believed(s)'
<1>1. call[t].at = "stop" /\ call[t].op = "unsubscribe" /\ call[t].at # "idle"
      /\ Return(t, TRUE) /\ UNCHANGED <<registered, up, instance>>
      /\ eventListeners' = Restrict(eventListeners, DOMAIN eventListeners \ {call[t].for})
  BY AtStop DEF StopListener, Doing, serviceVars
<1>2. believed' = believed /\ refused' = refused
  BY <1>1 DEF Return
<1>3. (\A u \in Threads : u # t => call'[u] = call[u]) /\ ~Leaving(call'[t], s)
  BY <1>1, ReturnFacts DEF Leaving
<1>4. \A u \in Threads : Leaving(call'[u], s) => Leaving(call[u], s)
  BY <1>3
<1>5. CASE call[t].for # s
  <2>1. ~Pending(call[t], s)
    BY <1>5 DEF Pending
  <2>2. \A u \in Threads : Pending(call[u], s) => Pending(call'[u], s)
    BY <1>3, <2>1
  <2>3. /\ s \in DOMAIN eventListeners' <=> s \in DOMAIN eventListeners
        /\ s \in DOMAIN eventListeners => eventListeners'[s] = eventListeners[s]
    BY <1>1, <1>5 DEF Restrict
  <2> QED
    BY <1>1, <1>2, <1>4, <2>2, <2>3 DEF Believed
<1>6. CASE call[t].for = s
  <2>1. up /\ instance = 1 /\ s \notin refused => s \notin believed
    BY <1>1, <1>6 DEF Believed, Leaving
  <2>2. s \notin DOMAIN eventListeners'
    BY <1>1, <1>6 DEF Restrict
  <2> QED
    BY <1>1, <1>2, <2>1, <2>2 DEF Believed
<1> QED
  BY <1>5, <1>6

\* The calls that begin are the application's, or finish a result.
LEMMA PlannedCall ==
    ASSUME NEW t \in Threads, NEW c, MayCall(t, c)
    PROVE  /\ c[1] \in {"subscribe", "unsubscribe", "publish"} /\ c[2] \in Subscribers \cup {None}
           /\ c[1] = "subscribe" => c[2] \in Subscribers
<1>1. c \in ({"subscribe", "unsubscribe"} \X Subscribers) \cup ({"publish"} \X (Subscribers \cup {None}))
  BY ClientAssumption DEF MayCall, Listeners
<1> QED
  BY <1>1

\* A call of t begins; one that finishes a result finishes one of these.
Begins(t, results) ==
    \E op \in Ops, for \in Subscribers \cup Deliveries \cup {None} :
        Start(t, op, for) /\ (op = "finish" => for \in results)

GivenTo(t) == IF t \in Finishers THEN held ELSE {}
ResultOf(r) == {result[running[r].delivery[1][1]]} \ {None}

LEMMA CallApiBegins ==
    ASSUME TypeOK, NEW t \in AppThreads, CallApi(t) PROVE Begins(t, GivenTo(t))
<1>1. ASSUME NEW c \in Plan[t], Start(t, c[1], c[2])
      PROVE  Begins(t, GivenTo(t))
  <2>1. MayCall(t, c) /\ t \in Threads
    BY DEF MayCall, Threads
  <2> QED
    BY <1>1, <2>1, PlannedCall DEF Begins, Ops
<1>2. ASSUME t \in Finishers, NEW d \in held, Start(t, "finish", d)
      PROVE  Begins(t, GivenTo(t))
  <2>1. d \in Deliveries
    BY DEF TypeOK, DataOK
  <2> QED
    BY <1>2, <2>1 DEF Begins, Ops, GivenTo
<1> QED
  BY <1>1, <1>2 DEF CallApi

LEMMA CallbackBegins ==
    ASSUME TypeOK, OwnTasks, NEW r \in Runners, CallFromCallback(r) \/ EndCallback(r)
    PROVE  Begins(r, ResultOf(r)) \/ UNCHANGED <<call, ghostVars>>
<1> DEFINE s == running[r].delivery[1][1]
<1>1. running[r].at # "idle" /\ r \in Threads
  BY ListenerFacts DEF CallFromCallback, EndCallback
<1>2. s \in Subscribers /\ running[r].delivery[1] \in Listeners
  BY <1>1, RunningFacts
<1>3. result[s] # None => result[s] \in Deliveries
  BY <1>2 DEF TypeOK, DataOK
<1>4. CASE result[s] # None /\ Start(r, "finish", result[s])
  BY <1>3, <1>4 DEF Begins, Ops, ResultOf
<1>5. ASSUME NEW c \in InCallback[s], Start(r, c[1], c[2])
      PROVE  Begins(r, ResultOf(r))
  <2>1. MayCall(r, c)
    BY <1>1, <1>2 DEF MayCall, OwnTasks
  <2> QED
    BY <1>1, <1>5, <2>1, PlannedCall DEF Begins, Ops
<1> QED
  BY <1>4, <1>5 DEF CallFromCallback, EndCallback

\* Steps that no call takes.
LEMMA BelievedElsewhere ==
    ASSUME NEW s \in Subscribers, Believed(s), UNCHANGED <<registered, eventListeners, up, instance>>,
           UNCHANGED <<call, believed, refused>>
    PROVE  Believed(s)'
BY BelievedQuiet

LEMMA NextBelieved ==
    ASSUME TasksOK, NEW s \in Subscribers, SoleManager(s), NotPublished(s), Listed(s), Believed(s),
           [Next]_vars
    PROVE  Believed(s)'
<1>1. TypeOK /\ OwnTasks
  BY DEF TasksOK
<1>2. CASE \E t \in Threads : ApiStep(t)
  <2>1. PICK t \in Threads : ApiStep(t)
    BY <1>2
  <2>2. CASE \/ TestFinished(t) \/ SetFinished(t) \/ TestProxy(t) \/ Connect(t) \/ AddDeathRecipient(t)
             \/ SetProxyValid(t) \/ RequestFails(t)
    BY <1>1, <2>2, BelievedReaching
  <2>3. CASE CreateCommonEventListener(t) \/ FindListener(t)
    BY <1>1, <2>3, BelievedCreate, BelievedFind
  <2>4. CASE RequestAccepted(t) \/ ReplyLost(t) \/ StopListener(t)
    BY <1>1, <2>4, BelievedRequest, BelievedReplyLost, BelievedStop
  <2> QED
    BY <2>1, <2>2, <2>3, <2>4, Zenon DEF ApiStep
<1>3. CASE \E r \in Runners : RunnerStep(r) \/ CallFromCallback(r) \/ GoAsyncCommonEvent(r)
  <2>1. PICK r \in Runners : RunnerStep(r) \/ CallFromCallback(r) \/ GoAsyncCommonEvent(r)
    BY <1>3
  <2>2. CASE TakeTask(r) \/ EnterCallback(r) \/ LeaveOnReceiveEvent(r) \/ GoAsyncCommonEvent(r)
    BY <2>2, BelievedElsewhere DEF TakeTask, EnterCallback, LeaveOnReceiveEvent, GoAsyncCommonEvent,
                                   serviceVars, tableVars, ghostVars
  <2>3. CASE CallFromCallback(r) \/ EndCallback(r)
    <3>1. UNCHANGED <<registered, eventListeners, up, instance>> /\ r \in Threads
      BY <2>3, ListenerFacts DEF CallFromCallback, EndCallback, serviceVars, tableVars
    <3>2. CASE Begins(r, ResultOf(r))
      BY <1>1, <3>1, <3>2, BelievedStart DEF Begins
    <3>3. CASE UNCHANGED <<call, ghostVars>>
      BY <3>1, <3>3, BelievedElsewhere DEF ghostVars
    <3> QED
      BY <1>1, <2>3, <3>2, <3>3, CallbackBegins
  <2> QED
    BY <2>1, <2>2, <2>3 DEF RunnerStep
<1>4. CASE \E l \in Listeners : NotifyEvent(l) \/ \E e \in Events : SendEvent(l, e)
  BY <1>4, BelievedElsewhere DEF NotifyEvent, SendEvent, serviceVars, tableVars, ghostVars
<1>5. CASE \E t \in AppThreads : CallApi(t)
  <2>1. PICK t \in AppThreads : CallApi(t)
    BY <1>5
  <2>2. UNCHANGED <<registered, eventListeners, up, instance>> /\ t \in Threads
        /\ Begins(t, GivenTo(t))
    BY <1>1, <2>1, CallApiBegins, ListenerFacts DEF CallApi, serviceVars, tableVars
  <2> QED
    BY <1>1, <2>2, BelievedStart DEF Begins
<1>6. CASE ServiceDies \/ ServiceRestarts
  <2>1. ~(up' /\ instance' = 1)
    BY <1>1, <1>6 DEF ServiceDies, ServiceRestarts, TypeOK, DataOK
  <2> QED
    BY <2>1 DEF Believed
<1>7. CASE ResetCommonEventProxy \/ UNCHANGED vars
  BY <1>7, BelievedElsewhere DEF ResetCommonEventProxy, vars, serviceVars, tableVars, ghostVars
<1> QED
  BY <1>2, <1>3, <1>4, <1>5, <1>6, <1>7, EveryStep

LEMMA BelievedAtFirst == ASSUME NEW s \in Subscribers PROVE Init => Believed(s)
BY DEF Init, Believed, Leaving, Idle

\* Who never subscribes is never told that it is subscribed.
NeverSubscribes(s) == \A t \in Threads : ~MayCall(t, <<"subscribe", s>>)

LEMMA NeverTold ==
    ASSUME TasksOK, NEW s, NeverSubscribes(s), s \notin believed, [Next]_vars
    PROVE  s \notin believed'
<1>1. TypeOK
  BY DEF TasksOK
<1>2. ASSUME NEW t \in Threads, NEW answer, Return(t, answer), call[t].at # "idle"
      PROVE  s \notin believed'
  <2>1. call[t].op = "subscribe" => call[t].for # s
    BY <1>1, <1>2, InCall DEF CallOK, NeverSubscribes
  <2> QED
    BY <1>2, <2>1 DEF Return
<1>3. ASSUME NEW t \in Threads, ApiStep(t)
      PROVE  s \notin believed'
  <2>1. call[t].at # "idle"
    BY <1>3 DEF ApiStep, TestFinished, SetFinished, TestProxy, Connect, AddDeathRecipient, SetProxyValid,
                CreateCommonEventListener, FindListener, RequestAccepted, Reaches, ReplyLost, RequestFails, Fails,
                StopListener, Doing
  <2>2. (\E answer \in BOOLEAN : Return(t, answer)) \/ UNCHANGED believed
    BY <1>3 DEF ApiStep, TestFinished, SetFinished, TestProxy, Connect, AddDeathRecipient, SetProxyValid,
                CreateCommonEventListener, FindListener, RequestAccepted, Reaches, ReplyLost, RequestFails, Fails,
                StopListener, ghostVars
  <2> QED
    BY <1>2, <2>1, <2>2
<1>4. ASSUME NEW t, NEW results, Begins(t, results)
      PROVE  s \notin believed'
  BY <1>4 DEF Begins, Start
<1>5. ASSUME NEW r \in Runners, RunnerStep(r) \/ CallFromCallback(r) \/ GoAsyncCommonEvent(r)
      PROVE  s \notin believed'
  <2>1. CASE CallFromCallback(r) \/ EndCallback(r)
    BY <1>4, <2>1, CallbackBegins DEF TasksOK, ghostVars
  <2>2. CASE TakeTask(r) \/ EnterCallback(r) \/ LeaveOnReceiveEvent(r) \/ GoAsyncCommonEvent(r)
    BY <2>2 DEF TakeTask, EnterCallback, LeaveOnReceiveEvent, GoAsyncCommonEvent, ghostVars
  <2> QED
    BY <1>5, <2>1, <2>2 DEF RunnerStep
<1>6. ASSUME NEW t \in AppThreads, CallApi(t)
      PROVE  s \notin believed'
  BY <1>1, <1>4, <1>6, CallApiBegins
<1>7. CASE \/ \E l \in Listeners : NotifyEvent(l) \/ \E e \in Events : SendEvent(l, e)
           \/ ServiceDies \/ ServiceRestarts \/ ResetCommonEventProxy \/ UNCHANGED vars
  BY <1>7 DEF NotifyEvent, SendEvent, ServiceDies, ServiceRestarts, ResetCommonEventProxy, vars, ghostVars
<1> QED
  BY <1>3, <1>5, <1>6, <1>7, EveryStep

\* A subscriber that one thread subscribes and unsubscribes and nobody
\* publishes with is known to the service when it was told that it is
\* subscribed and no call of it has failed, unless the service has died since.
THEOREM ToldIsRegistered ==
    ASSUME NEW s \in Subscribers, SoleManager(s), NotPublished(s)
    PROVE  Spec => [](s \in believed \ refused /\ instance = 1 /\ up =>
                          s \in DOMAIN eventListeners /\ eventListeners[s] \in registered)
<1> DEFINE Promise == s \in believed \ refused /\ instance = 1 /\ up =>
                          s \in DOMAIN eventListeners /\ eventListeners[s] \in registered
           I == TasksOK /\ Listed(s) /\ Believed(s)
<1>1. Init => I
  BY InitTasks, ListedAtFirst, BelievedAtFirst
<1>2. I /\ [Next]_vars => I'
  <2> SUFFICES ASSUME I, [Next]_vars PROVE I'
    OBVIOUS
  <2>1. TasksOK'
    BY NextTasks
  <2>2. Listed(s)'
    BY <2>1, NextListed DEF TasksOK
  <2>3. Believed(s)'
    BY NextBelieved
  <2> QED
    BY <2>1, <2>2, <2>3
<1>3. I => Promise
  BY DEF Believed
<1> QED
  BY <1>1, <1>2, <1>3, PTL DEF Spec

\* So it is of all, when each is subscribed by one thread and published with
\* by none, or never subscribed.
THEOREM AllToldAreRegistered ==
    ASSUME \A s \in Subscribers : (SoleManager(s) /\ NotPublished(s)) \/ NeverSubscribes(s)
    PROVE  Spec => []SubscribedIsRegistered
<1> DEFINE I == /\ TasksOK
                /\ \A s \in Subscribers : SoleManager(s) => Listed(s)
                /\ \A s \in Subscribers : SoleManager(s) /\ NotPublished(s) => Believed(s)
                /\ \A s : NeverSubscribes(s) => s \notin believed
<1>1. Init => I
  <2>1. Init => believed = {}
    BY DEF Init
  <2> QED
    BY <2>1, InitTasks, ListedAtFirst, BelievedAtFirst
<1>2. I /\ [Next]_vars => I'
  <2> SUFFICES ASSUME I, [Next]_vars PROVE I'
    OBVIOUS
  <2>1. TasksOK'
    BY NextTasks
  <2>2. ASSUME NEW s \in Subscribers, SoleManager(s)
        PROVE  Listed(s)'
    BY <2>1, <2>2, NextListed DEF TasksOK
  <2>3. ASSUME NEW s \in Subscribers, SoleManager(s), NotPublished(s)
        PROVE  Believed(s)'
    BY <2>3, NextBelieved
  <2>4. ASSUME NEW s, NeverSubscribes(s)
        PROVE  s \notin believed'
    BY <2>4, NeverTold
  <2> QED
    BY <2>1, <2>2, <2>3, <2>4
<1>3. I => SubscribedIsRegistered
  <2> SUFFICES ASSUME I, NEW s \in believed \ refused, instance = 1 /\ up
               PROVE  s \in DOMAIN eventListeners /\ eventListeners[s] \in registered
    BY DEF SubscribedIsRegistered
  <2>1. s \notin Subscribers => NeverSubscribes(s)
    <3> SUFFICES ASSUME NEW t \in Threads, MayCall(t, <<"subscribe", s>>) PROVE s \in Subscribers
      BY DEF NeverSubscribes
    <3> DEFINE c == <<"subscribe", s>>
    <3>1. c[1] = "subscribe" /\ c[2] = s
      OBVIOUS
    <3> HIDE DEF c
    <3>2. MayCall(t, c)
      BY DEF c
    <3> QED
      BY <3>1, <3>2, PlannedCall
  <2>2. s \in Subscribers /\ Believed(s)
    BY <2>1
  <2> QED
    BY <2>2 DEF Believed
<1> QED
  BY <1>1, <1>2, <1>3, PTL DEF Spec

-----------------------------------------------------------------------------
(* Where a delivery is *)

\* What has been taken goes on, or nothing moves.
LEMMA PlacesStay ==
    ASSUME OnePlace, UNCHANGED <<arriving, tasks, sent>>,
           \A r \in Runners : running'[r] = running[r] \/ running'[r].at # "taken"
    PROVE  OnePlace' /\ \A d \in Deliveries : Past(d) => Past(d)'
<1>1. \A d \in Deliveries : (Arriving(d)' <=> Arriving(d)) /\ (Queued(d)' <=> Queued(d))
  BY DEF Arriving, Queued
<1>2. \A d \in Deliveries : Taken(d)' => Taken(d)
  BY ListenerFacts DEF Taken
<1>3. \A l \in Listeners : IsInjective(arriving[l])'
  BY DEF OnePlace, IsInjective
<1>4. \A r \in Runners : IsInjective(tasks[r])'
  BY DEF OnePlace, IsInjective
<1> QED
  BY <1>1, <1>2, <1>3, <1>4 DEF OnePlace, Ahead, Past

LEMMA PlacesSend ==
    ASSUME TasksOK, OnePlace, NEW l \in Listeners, NEW e \in Events, SendEvent(l, e)
    PROVE  OnePlace' /\ \A d \in Deliveries : Past(d) => Past(d)'
<1> DEFINE d0 == <<l, e>>
<1>1. d0 \in Deliveries /\ d0[1] = l /\ d0[2] = e
  BY ListenerFacts
<1>2. d0 \notin sent /\ sent' = sent \cup {d0} /\ arriving' = [arriving EXCEPT ![l] = Append(@, e)]
      /\ UNCHANGED <<tasks, running>>
  BY DEF SendEvent
<1>3. arriving \in [Listeners -> Seq(Events)] /\ arriving[l] \in Seq(Events)
  BY DEF TasksOK, TypeOK, DataOK
<1>4. \A d \in Deliveries : d[1] = l /\ d[2] = e => d = d0
  BY ListenerFacts
<1> HIDE DEF d0
<1>5. ~Arriving(d0) /\ ~Queued(d0) /\ ~Taken(d0)
  BY <1>1, <1>2 DEF OnePlace, Ahead
<1>6. /\ ToSet(Append(arriving[l], e)) = ToSet(arriving[l]) \cup {e}
      /\ IsInjective(arriving[l]) /\ e \notin ToSet(arriving[l]) => IsInjective(Append(arriving[l], e))
  BY <1>3, AppendFacts
<1>7. arriving'[l] = Append(arriving[l], e) /\ \A k \in Listeners : k # l => arriving'[k] = arriving[k]
  BY <1>2, <1>3
<1>8. \A k \in Listeners : IsInjective(arriving'[k])
  BY <1>1, <1>5, <1>6, <1>7 DEF OnePlace, Arriving
<1>9. \A d \in Deliveries : Arriving(d)' <=> Arriving(d) \/ d = d0
  BY <1>1, <1>4, <1>6, <1>7, ListenerFacts DEF Arriving
<1>10. \A d \in Deliveries : (Queued(d)' <=> Queued(d)) /\ (Taken(d)' <=> Taken(d))
  BY <1>2 DEF Queued, Taken
<1>11. \A r \in Runners : IsInjective(tasks'[r])
  BY <1>2 DEF OnePlace
<1> QED
  BY <1>2, <1>5, <1>8, <1>9, <1>10, <1>11 DEF OnePlace, Ahead, Past

LEMMA PlacesNotify ==
    ASSUME TasksOK, OnePlace, NEW l \in Listeners, NotifyEvent(l)
    PROVE  OnePlace' /\ \A d \in Deliveries : Past(d) => Past(d)'
<1>1. arriving \in [Listeners -> Seq(Events)] /\ arriving[l] \in Seq(Events) /\ arriving[l] # <<>>
      /\ tasks \in [Runners -> Seq(Deliveries)] /\ Runner(l) \in Runners
  BY ListenerFacts DEF NotifyEvent, TasksOK, TypeOK, DataOK
<1>2. PICK e \in Events : e = Head(arriving[l])
  BY <1>1
<1>3. PICK d0 \in Deliveries : d0 = <<l, e>>
  BY ListenerFacts
<1>4. d0[1] = l /\ d0[2] = e /\ \A d \in Deliveries : d[1] = l /\ d[2] = e => d = d0
  BY <1>3, ListenerFacts
<1>5. /\ arriving' = [arriving EXCEPT ![l] = Tail(@)]
      /\ tasks' = IF l \in ready THEN [tasks EXCEPT ![Runner(l)] = Append(@, d0)] ELSE tasks
      /\ UNCHANGED <<running, sent>>
  BY <1>2, <1>3 DEF NotifyEvent, ghostVars
<1>6. /\ ToSet(arriving[l]) = ToSet(Tail(arriving[l])) \cup {e}
      /\ IsInjective(arriving[l]) => IsInjective(Tail(arriving[l])) /\ e \notin ToSet(Tail(arriving[l]))
  BY <1>1, <1>2, TailFacts
<1>7. arriving'[l] = Tail(arriving[l]) /\ \A k \in Listeners : k # l => arriving'[k] = arriving[k]
  BY <1>1, <1>5
<1>8. \A k \in Listeners : IsInjective(arriving'[k])
  BY <1>6, <1>7 DEF OnePlace
<1>9. Arriving(d0) /\ ~Arriving(d0)'
  BY <1>4, <1>6, <1>7 DEF OnePlace, Arriving
<1>10. \A d \in Deliveries : Arriving(d)' <=> Arriving(d) /\ d # d0
  <2>1. \A d \in Deliveries : d # d0 => (Arriving(d)' <=> Arriving(d))
    BY <1>4, <1>6, <1>7, ListenerFacts DEF Arriving
  <2> QED
    BY <1>9, <2>1
<1>11. ~Queued(d0) /\ ~Taken(d0)
  BY <1>9 DEF OnePlace
<1>12. \A d \in Deliveries : Taken(d)' <=> Taken(d)
  BY <1>5 DEF Taken
<1>13. \A r \in Runners : IsInjective(tasks'[r]) /\ ToSet(tasks'[r]) \in {ToSet(tasks[r]), ToSet(tasks[r]) \cup {d0}}
  <2>1. CASE l \notin ready
    BY <1>5, <2>1 DEF OnePlace
  <2>2. CASE l \in ready
    <3>1. tasks'[Runner(l)] = Append(tasks[Runner(l)], d0) /\ \A r \in Runners : r # Runner(l) => tasks'[r] = tasks[r]
      BY <1>1, <1>5, <2>2
    <3>2. d0 \notin ToSet(tasks[Runner(l)])
      BY <1>4, <1>11 DEF Queued
    <3>3. tasks[Runner(l)] \in Seq(Deliveries)
      BY <1>1
    <3>4. /\ ToSet(Append(tasks[Runner(l)], d0)) = ToSet(tasks[Runner(l)]) \cup {d0}
          /\ IsInjective(tasks[Runner(l)]) => IsInjective(Append(tasks[Runner(l)], d0))
      BY <3>2, <3>3, AppendFacts
    <3> QED
      BY <1>1, <3>1, <3>4 DEF OnePlace
  <2> QED
    BY <2>1, <2>2
<1>14. \A d \in Deliveries : Queued(d)' => Queued(d) \/ d = d0
  BY <1>13, ListenerFacts DEF Queued
<1> QED
  BY <1>5, <1>8, <1>9, <1>10, <1>11, <1>12, <1>13, <1>14 DEF OnePlace, Ahead, Past

LEMMA PlacesTake ==
    ASSUME TasksOK, OnePlace, NEW r \in Runners, TakeTask(r)
    PROVE  OnePlace' /\ \A d \in Deliveries : Past(d) => Past(d)'
<1>1. tasks \in [Runners -> Seq(Deliveries)] /\ tasks[r] \in Seq(Deliveries) /\ tasks[r] # <<>>
      /\ running \in [Runners -> {Idle} \cup Tasks] /\ running[r] = Idle
  BY DEF TakeTask, TasksOK, TypeOK, DataOK
<1>2. PICK d0 \in Deliveries : d0 = Head(tasks[r])
  BY <1>1
<1>3. /\ tasks' = [tasks EXCEPT ![r] = Tail(@)]
      /\ running' = [running EXCEPT ![r] = [delivery |-> d0, at |-> "taken"]]
      /\ UNCHANGED <<arriving, sent>>
  BY <1>2 DEF TakeTask, ghostVars
<1>4. /\ ToSet(tasks[r]) = ToSet(Tail(tasks[r])) \cup {d0}
      /\ IsInjective(tasks[r]) => IsInjective(Tail(tasks[r])) /\ d0 \notin ToSet(Tail(tasks[r]))
  BY <1>1, <1>2, TailFacts
<1>5. Runner(d0[1]) = r
  BY <1>4 DEF TasksOK, OwnTasks
<1>6. tasks'[r] = Tail(tasks[r]) /\ \A q \in Runners : q # r => tasks'[q] = tasks[q]
  BY <1>1, <1>3
<1>7. \A q \in Runners : IsInjective(tasks'[q]) /\ ToSet(tasks'[q]) \subseteq ToSet(tasks[q])
  BY <1>4, <1>6 DEF OnePlace
<1>8. Queued(d0) /\ ~Queued(d0)'
  BY <1>4, <1>5, <1>6 DEF OnePlace, Queued
<1>9. \A d \in Deliveries : Queued(d)' => Queued(d) /\ d # d0
  BY <1>7, <1>8, ListenerFacts DEF Queued
<1>10. \A d \in Deliveries : Arriving(d)' <=> Arriving(d)
  BY <1>3 DEF Arriving
<1>11. running'[r].at = "taken" /\ running'[r].delivery = d0 /\ \A q \in Runners : q # r => running'[q] = running[q]
  BY <1>1, <1>3
<1>12. \A d \in Deliveries : Taken(d)' => Taken(d) \/ d = d0
  BY <1>11, ListenerFacts DEF Taken
<1>13. \A d \in Deliveries : Taken(d) => ~Queued(d) /\ ~Arriving(d)
  BY DEF OnePlace
<1>14. \A l \in Listeners : IsInjective(arriving'[l])
  BY <1>3 DEF OnePlace
<1>15. ~Arriving(d0) /\ d0 \in sent
  BY <1>8 DEF OnePlace, Ahead
<1> QED
  BY <1>3, <1>7, <1>8, <1>9, <1>10, <1>12, <1>13, <1>14, <1>15 DEF OnePlace, Ahead, Past

LEMMA PlacesStop ==
    ASSUME TasksOK, OnePlace, NEW t \in Threads, StopListener(t)
    PROVE  OnePlace' /\ \A d \in Deliveries : Past(d) => Past(d)'
<1>1. PICK l \in Listeners : l = call[t].listener
  BY InCall DEF StopListener, Doing, TasksOK, CallOK
<1>2. tasks' = RemoveOrphans(l) /\ UNCHANGED <<arriving, running, sent>>
  BY <1>1 DEF StopListener, Return
<1>3. /\ \A r \in Runners : r # Runner(l) => tasks'[r] = tasks[r]
      /\ ToSet(tasks'[Runner(l)]) = {d \in ToSet(tasks[Runner(l)]) : d[1] # l}
      /\ IsInjective(tasks[Runner(l)]) => IsInjective(tasks'[Runner(l)])
  BY <1>2, OrphanFacts DEF TasksOK
<1>4. \A r \in Runners : IsInjective(tasks'[r]) /\ ToSet(tasks'[r]) \subseteq ToSet(tasks[r])
  BY <1>3 DEF OnePlace
<1>5. \A d \in Deliveries : Queued(d)' => Queued(d)
  BY <1>4, ListenerFacts DEF Queued
<1>6. \A d \in Deliveries : (Arriving(d)' <=> Arriving(d)) /\ (Taken(d)' <=> Taken(d))
  BY <1>2 DEF Arriving, Taken
<1>7. \A k \in Listeners : IsInjective(arriving'[k])
  BY <1>2 DEF OnePlace
<1> QED
  BY <1>2, <1>4, <1>5, <1>6, <1>7 DEF OnePlace, Ahead, Past

\* What the steps of a call leave as it is.
LEMMA ApiFrame ==
    ASSUME NEW t \in Threads, ApiStep(t)
    PROVE  /\ UNCHANGED <<arriving, running, sent, result, held>>
           /\ UNCHANGED tasks \/ StopListener(t)
           /\ UNCHANGED finished \/ SetFinished(t)
           /\ UNCHANGED answers \/ RequestAccepted(t) \/ ReplyLost(t)
           /\ call[t].at # "idle"
<1>1. call[t].at # "idle"
  BY DEF ApiStep, TestFinished, SetFinished, TestProxy, Connect, AddDeathRecipient, SetProxyValid,
         CreateCommonEventListener, FindListener, RequestAccepted, Reaches, ReplyLost, RequestFails, Fails,
         StopListener, Doing
<1>2. CASE TestFinished(t) \/ SetFinished(t)
  BY <1>1, <1>2 DEF TestFinished, SetFinished, Return, listenerVars, resultVars, ghostVars
<1>3. CASE TestProxy(t) \/ Connect(t) \/ AddDeathRecipient(t) \/ SetProxyValid(t)
  BY <1>1, <1>3 DEF TestProxy, Connect, AddDeathRecipient, SetProxyValid, Return, listenerVars, resultVars,
                    ghostVars
<1>4. CASE CreateCommonEventListener(t)
  BY <1>1, <1>4 DEF CreateCommonEventListener, Return, resultVars, ghostVars
<1>5. CASE FindListener(t)
  BY <1>1, <1>5 DEF FindListener, Return, listenerVars, resultVars, ghostVars
<1>6. CASE RequestAccepted(t)
  BY <1>1, <1>6 DEF RequestAccepted, Return, listenerVars, resultVars
<1>7. CASE RequestFails(t)
  BY <1>1, <1>7 DEF RequestFails, Fails, Return, listenerVars, resultVars
<1>8. CASE StopListener(t)
  BY <1>1, <1>8 DEF StopListener, Return, resultVars
<1>9. CASE ReplyLost(t)
  BY <1>1, <1>9 DEF ReplyLost, Return, listenerVars, resultVars
<1> QED
  BY <1>2, <1>3, <1>4, <1>5, <1>6, <1>7, <1>8, <1>9 DEF ApiStep

\* What begins or ends a callback leaves the queues alone.
LEMMA CallbackFrame ==
    ASSUME TasksOK, NEW r \in Runners,
           \/ EnterCallback(r) \/ EndCallback(r) \/ LeaveOnReceiveEvent(r)
           \/ CallFromCallback(r) \/ GoAsyncCommonEvent(r)
    PROVE  /\ UNCHANGED <<arriving, tasks, sent>>
           /\ \A q \in Runners : running'[q] = running[q] \/ running'[q].at # "taken"
<1>1. TypeOK /\ running \in [Runners -> {Idle} \cup Tasks]
  BY DEF TasksOK, TypeOK, DataOK
<1>2. CASE GoAsyncCommonEvent(r)
  BY <1>2 DEF GoAsyncCommonEvent, listenerVars, ghostVars
<1>3. CASE LeaveOnReceiveEvent(r)
  BY <1>1, <1>3 DEF LeaveOnReceiveEvent, Idle, ghostVars
<1>4. CASE EnterCallback(r) \/ EndCallback(r) \/ CallFromCallback(r)
  <2>1. UNCHANGED <<arriving, tasks, sent>> /\ running[r].at # "idle"
    BY <1>4 DEF EnterCallback, EndCallback, CallFromCallback, Start, ghostVars
  <2>2. PICK at \in {"callback", "called", "finishing"} : running' = [running EXCEPT ![r].at = at]
    BY <1>4 DEF EnterCallback, EndCallback, CallFromCallback
  <2>3. (\A q \in Runners : q # r => running'[q] = running[q]) /\ running'[r].at = at
    BY <1>1, <2>1, <2>2, TaskGoesOn
  <2> QED
    BY <2>1, <2>3
<1> QED
  BY <1>2, <1>3, <1>4

LEMMA NextPlaces ==
    ASSUME TasksOK, OnePlace, [Next]_vars
    PROVE  OnePlace' /\ \A d \in Deliveries : Past(d) => Past(d)'
<1>1. CASE \E t \in Threads : ApiStep(t)
  <2>1. PICK t \in Threads : ApiStep(t)
    BY <1>1
  <2>2. CASE StopListener(t)
    BY <2>2, PlacesStop
  <2>3. CASE UNCHANGED tasks
    BY <2>1, <2>3, ApiFrame, PlacesStay
  <2> QED
    BY <2>1, <2>2, <2>3, ApiFrame
<1>2. CASE \E r \in Runners : RunnerStep(r) \/ CallFromCallback(r) \/ GoAsyncCommonEvent(r)
  BY <1>2, PlacesTake, CallbackFrame, PlacesStay DEF RunnerStep
<1>3. CASE \E l \in Listeners : NotifyEvent(l) \/ \E e \in Events : SendEvent(l, e)
  BY <1>3, PlacesNotify, PlacesSend
<1>4. CASE \E t \in AppThreads : CallApi(t)
  BY <1>4, PlacesStay DEF CallApi, Start, listenerVars
<1>5. CASE ServiceDies \/ ServiceRestarts \/ ResetCommonEventProxy \/ UNCHANGED vars
  BY <1>5, PlacesStay DEF ServiceDies, ServiceRestarts, ResetCommonEventProxy, vars, listenerVars, ghostVars
<1> QED
  BY <1>1, <1>2, <1>3, <1>4, <1>5, EveryStep

LEMMA InitPlaces == Init => OnePlace
<1> SUFFICES ASSUME Init PROVE OnePlace
  OBVIOUS
<1>1. \A l \in Listeners : IsInjective(arriving[l]) /\ ToSet(arriving[l]) = {}
  BY DEF Init, IsInjective, ToSet
<1>2. \A r \in Runners : IsInjective(tasks[r]) /\ ToSet(tasks[r]) = {} /\ running[r].at = "idle"
  BY DEF Init, IsInjective, ToSet, Idle
<1> QED
  BY <1>1, <1>2, ListenerFacts DEF OnePlace, Ahead, Arriving, Queued, Taken

-----------------------------------------------------------------------------
(* Whose results are finished *)

\* A call goes on with what it is for, or returns.
LEMMA CallContinues ==
    ASSUME TypeOK, NEW t \in Threads, ApiStep(t)
    PROVE  /\ \A u \in Threads : u # t => call'[u] = call[u]
           /\ call'[t].at # "idle" => call'[t].op = call[t].op /\ call'[t].for = call[t].for
<1>1. call[t].at # "idle"
  BY ApiFrame
<1>2. ASSUME NEW answer, Return(t, answer)
      PROVE  /\ \A u \in Threads : u # t => call'[u] = call[u]
             /\ call'[t].at # "idle" => call'[t].op = call[t].op /\ call'[t].for = call[t].for
  BY <1>2, ReturnFacts
<1>3. ASSUME NEW at \in Steps, Goto(t, at)
      PROVE  /\ \A u \in Threads : u # t => call'[u] = call[u]
             /\ call'[t].at # "idle" => call'[t].op = call[t].op /\ call'[t].for = call[t].for
  BY <1>1, <1>3, GotoFacts
<1>4. ASSUME NEW l \in Listeners, call' = [call EXCEPT ![t].at = "request", ![t].listener = l]
      PROVE  /\ \A u \in Threads : u # t => call'[u] = call[u]
             /\ call'[t].at # "idle" => call'[t].op = call[t].op /\ call'[t].for = call[t].for
  BY <1>1, <1>4, TakesFacts
<1>5. CASE CreateCommonEventListener(t)
  BY <1>2, <1>3, <1>4, <1>5 DEF CreateCommonEventListener, Steps
<1>6. CASE FindListener(t)
  <2>1. call[t].for \in DOMAIN eventListeners => eventListeners[call[t].for] \in Listeners
    BY DEF TypeOK, DataOK
  <2> QED
    BY <1>2, <1>4, <1>6, <2>1 DEF FindListener
<1>7. CASE TestFinished(t) \/ SetFinished(t) \/ TestProxy(t) \/ Connect(t) \/ AddDeathRecipient(t)
  <2>1. \/ Return(t, FALSE)
        \/ \E at \in Steps : Goto(t, at)
    BY <1>7 DEF TestFinished, SetFinished, TestProxy, Connect, AddDeathRecipient, Steps, Reaching
  <2> QED
    BY <1>2, <1>3, <2>1
<1>8. CASE SetProxyValid(t)
  BY <1>3, <1>8 DEF SetProxyValid, AfterProxy, Steps
<1>9. CASE RequestAccepted(t) \/ ReplyLost(t) \/ RequestFails(t) \/ StopListener(t)
  <2>1. \/ \E answer \in BOOLEAN : Return(t, answer)
        \/ \E at \in Steps : Goto(t, at)
    BY <1>9 DEF RequestAccepted, ReplyLost, RequestFails, Fails, StopListener, Steps
  <2> QED
    BY <1>2, <1>3, <2>1
<1> QED
  BY <1>5, <1>6, <1>7, <1>8, <1>9 DEF ApiStep

LEMMA ResultsApi ==
    ASSUME TasksOK, Results, NEW t \in Threads, ApiStep(t),
           \A d \in Deliveries : Past(d) => Past(d)'
    PROVE  Results'
<1>1. UNCHANGED <<running, result, held>> /\ call[t].at # "idle"
  BY ApiFrame
<1>2. /\ \A u \in Threads : u # t => call'[u] = call[u]
      /\ call'[t].at # "idle" => call'[t].op = call[t].op /\ call'[t].for = call[t].for
  BY CallContinues DEF TasksOK
<1>3. \A u \in Threads, d \in Deliveries : Finishing(call'[u], d) => Finishing(call[u], d)
  <2> SUFFICES ASSUME NEW u \in Threads, NEW d \in Deliveries, Finishing(call'[u], d)
               PROVE  Finishing(call[u], d)
    OBVIOUS
  <2>1. CASE u = t
    BY <1>1, <1>2, <2>1 DEF Finishing
  <2>2. CASE u # t
    BY <1>2, <2>2
  <2> QED
    BY <2>1, <2>2
<1>4. \A d \in finished' : d \in Deliveries /\ Past(d)
  <2>1. finished \subseteq Deliveries
    BY DEF TasksOK, TypeOK, DataOK
  <2>2. CASE UNCHANGED finished
    BY <2>1, <2>2 DEF Results
  <2>3. CASE SetFinished(t)
    <3>1. finished' = finished \cup {call[t].for} /\ call[t].at = "finish"
      BY <2>3 DEF SetFinished, Doing
    <3>2. call[t].op = "finish" /\ call[t].for \in Deliveries
      BY <3>1, InCall DEF TasksOK, CallOK
    <3>3. Past(call[t].for)
      BY <1>1, <3>2 DEF Results, Finishing
    <3> QED
      BY <2>1, <3>1, <3>2, <3>3 DEF Results
  <2> QED
    BY <2>2, <2>3, ApiFrame
<1>5. held \subseteq Deliveries
  BY DEF TasksOK, TypeOK, DataOK
<1>6. \A u \in Threads : call'[u].at # "idle" => call[u].at # "idle"
  BY <1>1, <1>2
<1>7. \A s \in Subscribers, d \in Deliveries : result'[s] = d => d[1][1] = s /\ Past(d)' /\ d \notin held'
  BY <1>1 DEF Results
<1>8. \A d \in held' \cup finished' : Past(d)'
  BY <1>1, <1>4, <1>5 DEF Results
<1>9. \A u \in Threads, d \in Deliveries : Finishing(call'[u], d) => Past(d)'
  BY <1>3 DEF Results
<1>10. \A r \in Runners : call'[r].at # "idle" => running'[r].at \in {"called", "finishing"}
  BY <1>1, <1>6, ListenerFacts DEF Results
<1> QED
  BY <1>7, <1>8, <1>9, <1>10 DEF Results

\* Who begins to finish a result finishes one whose callback has begun.
LEMMA FinishingBegins ==
    ASSUME TypeOK, Results, NEW t \in Threads, NEW results,
           \A d \in results : d \in Deliveries /\ Past(d), Begins(t, results)
    PROVE  /\ \A u \in Threads : u # t => call'[u] = call[u]
           /\ call[t].at = "idle" /\ call'[t].at \in {"finished?", "proxy?"}
           /\ call'[t].op = "finish" => call'[t].at = "finished?" /\ call'[t].for \in results
           /\ \A u \in Threads, d \in Deliveries : Finishing(call'[u], d) => Past(d)
           /\ sent' = sent /\ answers' = answers
<1>1. PICK op \in Ops, for \in Subscribers \cup Deliveries \cup {None} :
          Start(t, op, for) /\ (op = "finish" => for \in results)
  BY DEF Begins
<1>2. /\ \A u \in Threads : u # t => call'[u] = call[u]
      /\ call[t].at = "idle"
      /\ call'[t].op = op /\ call'[t].for = for
      /\ call'[t].at = IF op = "finish" THEN "finished?" ELSE "proxy?"
      /\ sent' = sent /\ answers' = answers
  BY <1>1, StartFacts
<1>3. ASSUME NEW u \in Threads, NEW d \in Deliveries, Finishing(call'[u], d)
      PROVE  Past(d)
  <2>1. CASE u = t
    BY <1>1, <1>2, <1>3, <2>1 DEF Finishing
  <2>2. CASE u # t
    BY <1>2, <1>3, <2>2 DEF Results
  <2> QED
    BY <2>1, <2>2
<1> QED
  BY <1>1, <1>2, <1>3

\* The result that a callback may finish.
LEMMA ResultOfFacts ==
    ASSUME TypeOK, Results, NEW r \in Runners, running[r].at # "idle"
    PROVE  \A d \in ResultOf(r) : d \in Deliveries /\ Past(d) /\ d \notin held
                                  /\ d[1][1] = running[r].delivery[1][1]
<1> DEFINE s == running[r].delivery[1][1]
<1>1. s \in Subscribers
  BY RunningFacts
<1>2. result[s] \in Deliveries \cup {None}
  BY <1>1 DEF TypeOK, DataOK
<1> QED
  BY <1>1, <1>2 DEF ResultOf, Results

LEMMA ResultsCallback ==
    ASSUME TasksOK, OnePlace, Results, NEW r \in Runners,
           RunnerStep(r) \/ CallFromCallback(r) \/ GoAsyncCommonEvent(r),
           \A d \in Deliveries : Past(d) => Past(d)'
    PROVE  Results'
<1>1. TypeOK /\ OwnTasks /\ r \in Threads /\ held \subseteq Deliveries /\ finished \subseteq Deliveries
  BY ListenerFacts DEF TasksOK, TypeOK, DataOK
<1>2. CASE TakeTask(r) \/ LeaveOnReceiveEvent(r)
  <2>1. UNCHANGED <<call, result, held, finished>>
    BY <1>2 DEF TakeTask, LeaveOnReceiveEvent, resultVars
  <2>2. \A q \in Runners : q # r => running'[q] = running[q]
    BY <1>2 DEF TakeTask, LeaveOnReceiveEvent, TasksOK, TypeOK, DataOK
  <2>3. call[r].at = "idle"
    BY <1>2 DEF TakeTask, LeaveOnReceiveEvent, Doing, Results, Idle
  <2> QED
    BY <1>1, <2>1, <2>2, <2>3 DEF Results
<1>3. CASE EnterCallback(r)
  <2>1. /\ running[r].at = "taken" /\ UNCHANGED <<call, held, finished, arriving, tasks, sent>>
        /\ running' = [running EXCEPT ![r].at = "callback"]
        /\ result' = [result EXCEPT ![running[r].delivery[1][1]] = running[r].delivery]
    BY <1>3 DEF EnterCallback
  <2>2. PICK d0 \in Deliveries : d0 = running[r].delivery
    BY <1>1, <2>1, RunningFacts
  <2>3. Runner(d0[1]) = r /\ d0[1][1] \in Subscribers
    BY <1>1, <2>1, <2>2, ListenerFacts DEF OwnTasks
  <2>4. Taken(d0)
    BY <2>1, <2>2, <2>3 DEF Taken
  <2>5. (\A q \in Runners : q # r => running'[q] = running[q]) /\ running'[r].at = "callback"
    BY <1>1, <2>1, TaskGoesOn
  <2>6. Past(d0)'
    <3>1. d0 \in sent /\ ~Arriving(d0) /\ ~Queued(d0)
      BY <2>4 DEF OnePlace, Ahead
    <3>2. ~Arriving(d0)' /\ ~Queued(d0)'
      BY <2>1, <3>1 DEF Arriving, Queued
    <3>3. ~Taken(d0)'
      BY <2>3, <2>5 DEF Taken
    <3> QED
      BY <2>1, <3>1, <3>2, <3>3 DEF Past, Ahead
  <2>7. d0 \notin held
    BY <2>4 DEF Results, Past, Ahead
  <2>8. \A s \in Subscribers : result'[s] = IF s = d0[1][1] THEN d0 ELSE result[s]
    BY <2>1, <2>2 DEF TasksOK, TypeOK, DataOK
  <2>9. \A s \in Subscribers, d \in Deliveries : result'[s] = d =>
            d[1][1] = s /\ Past(d)' /\ d \notin held'
    BY <2>1, <2>6, <2>7, <2>8 DEF Results
  <2>10. call[r].at = "idle"
    BY <2>1 DEF Results
  <2> QED
    BY <1>1, <2>1, <2>5, <2>9, <2>10 DEF Results
<1>4. CASE GoAsyncCommonEvent(r)
  <2> DEFINE s0 == running[r].delivery[1][1]
  <2>1. /\ held' = held \cup {result[s0]} /\ result' = [result EXCEPT ![s0] = None]
        /\ UNCHANGED <<call, running, finished>> /\ running[r].at = "callback" /\ result[s0] # None
    BY <1>4 DEF GoAsyncCommonEvent, listenerVars
  <2>2. s0 \in Subscribers
    BY <1>1, <2>1, RunningFacts
  <2>3. PICK d0 \in Deliveries : d0 = result[s0]
    BY <2>1, <2>2 DEF TasksOK, TypeOK, DataOK
  <2>4. PICK s \in Subscribers : s = s0
    BY <2>2
  <2> HIDE DEF s0
  <2>5. d0[1][1] = s /\ Past(d0)
    BY <2>3, <2>4 DEF Results
  <2>6. \A q \in Subscribers : result'[q] = IF q = s THEN None ELSE result[q]
    BY <2>1, <2>4 DEF TasksOK, TypeOK, DataOK
  <2>7. \A q \in Subscribers, d \in Deliveries : result'[q] = d =>
            d[1][1] = q /\ Past(d)' /\ d \notin held'
    <3> SUFFICES ASSUME NEW q \in Subscribers, NEW d \in Deliveries, result'[q] = d
                 PROVE  d[1][1] = q /\ Past(d)' /\ d \notin held'
      OBVIOUS
    <3>1. d # None
      BY ListenerFacts
    <3>2. q # s /\ result[q] = d
      BY <2>6, <3>1
    <3>3. d[1][1] = q /\ Past(d) /\ d \notin held
      BY <3>2 DEF Results
    <3>4. d # d0
      BY <2>5, <3>2, <3>3
    <3> QED
      BY <2>1, <2>3, <3>3, <3>4
  <2>8. \A d \in held' \cup finished' : Past(d)'
    BY <1>1, <2>1, <2>3, <2>5 DEF Results
  <2> QED
    BY <1>1, <2>1, <2>7, <2>8 DEF Results
<1>5. CASE CallFromCallback(r) \/ EndCallback(r)
  <2>1. /\ running[r].at \in {"callback", "called"} /\ UNCHANGED <<result, held, finished>>
        /\ \E at \in {"called", "finishing"} : running' = [running EXCEPT ![r].at = at]
    BY <1>5 DEF CallFromCallback, EndCallback, resultVars
  <2>2. (\A q \in Runners : q # r => running'[q] = running[q]) /\ running'[r].at \in {"called", "finishing"}
    BY <1>1, <2>1, TaskGoesOn
  <2>3. \A d \in ResultOf(r) : d \in Deliveries /\ Past(d)
    BY <1>1, <2>1, ResultOfFacts
  <2>4. /\ \A u \in Threads : u # r => call'[u] = call[u]
        /\ \A u \in Threads, d \in Deliveries : Finishing(call'[u], d) => Past(d)
    <3>1. CASE Begins(r, ResultOf(r))
      BY <1>1, <2>3, <3>1, FinishingBegins
    <3>2. CASE UNCHANGED call
      BY <3>2 DEF Results
    <3> QED
      BY <1>1, <1>5, <3>1, <3>2, CallbackBegins
  <2>5. \A q \in Runners : call'[q].at # "idle" => running'[q].at \in {"called", "finishing"}
    <3> SUFFICES ASSUME NEW q \in Runners, call'[q].at # "idle"
                 PROVE  running'[q].at \in {"called", "finishing"}
      OBVIOUS
    <3>1. CASE q = r
      BY <2>2, <3>1
    <3>2. CASE q # r
      BY <2>2, <2>4, <3>2, ListenerFacts DEF Results
    <3> QED
      BY <3>1, <3>2
  <2>6. \A s \in Subscribers, d \in Deliveries : result'[s] = d => d[1][1] = s /\ Past(d)' /\ d \notin held'
    BY <2>1 DEF Results
  <2>7. \A d \in held' \cup finished' : Past(d)'
    BY <1>1, <2>1 DEF Results
  <2> QED
    BY <2>4, <2>5, <2>6, <2>7 DEF Results
<1> QED
  BY <1>2, <1>3, <1>4, <1>5 DEF RunnerStep

LEMMA ResultsCallApi ==
    ASSUME TasksOK, Results, NEW t \in AppThreads, CallApi(t),
           \A d \in Deliveries : Past(d) => Past(d)'
    PROVE  Results'
<1>1. TypeOK /\ t \in Threads /\ t \notin Runners /\ held \subseteq Deliveries /\ finished \subseteq Deliveries
  BY ListenerFacts, ClientAssumption DEF TasksOK, TypeOK, DataOK
<1>2. UNCHANGED <<running, result, held, finished>>
  BY DEF CallApi, listenerVars, resultVars
<1>3. \A d \in GivenTo(t) : d \in Deliveries /\ Past(d)
  BY <1>1 DEF GivenTo, Results
<1>4. /\ \A u \in Threads : u # t => call'[u] = call[u]
      /\ \A u \in Threads, d \in Deliveries : Finishing(call'[u], d) => Past(d)
  BY <1>1, <1>3, CallApiBegins, FinishingBegins
<1> QED
  BY <1>1, <1>2, <1>4, ListenerFacts DEF Results

LEMMA NextResults ==
    ASSUME TasksOK, OnePlace, Results, [Next]_vars
    PROVE  Results'
<1>1. \A d \in Deliveries : Past(d) => Past(d)'
  BY NextPlaces
<1>2. held \subseteq Deliveries /\ finished \subseteq Deliveries
  BY DEF TasksOK, TypeOK, DataOK
<1>3. CASE UNCHANGED <<call, running, result, held, finished>>
  BY <1>1, <1>2, <1>3 DEF Results
<1>4. CASE \E l \in Listeners : NotifyEvent(l) \/ \E e \in Events : SendEvent(l, e)
  <2>1. UNCHANGED <<call, running, result, held, finished>>
    BY <1>4 DEF NotifyEvent, SendEvent, resultVars
  <2> QED
    BY <1>3, <2>1
<1>5. CASE ServiceDies \/ ServiceRestarts \/ ResetCommonEventProxy \/ UNCHANGED vars
  <2>1. UNCHANGED <<call, running, result, held, finished>>
    BY <1>5 DEF ServiceDies, ServiceRestarts, ResetCommonEventProxy, vars, listenerVars, resultVars
  <2> QED
    BY <1>3, <2>1
<1> QED
  BY <1>1, <1>4, <1>5, EveryStep, ResultsApi, ResultsCallback, ResultsCallApi

LEMMA InitResults == Init => Results
<1> SUFFICES ASSUME Init PROVE Results
  OBVIOUS
<1> QED
  BY ListenerFacts DEF Init, Results, Finishing, Idle

-----------------------------------------------------------------------------
(* One answer *)

\* Of the threads that finish a delivery there is one.
LEMMA OneAnswerer ==
    ASSUME OneFinisher, NEW d \in Deliveries, Answering(d), NEW t \in Threads, NEW u \in Threads,
           Finishing(call[t], d), Finishing(call[u], d)
    PROVE  t = u
BY DEF Answering, OneFinisher

LEMMA AnsweringStays ==
    ASSUME NEW d \in Deliveries, Answering(d), UNCHANGED <<call, finished, held, answers>>
    PROVE  Answering(d)'
BY DEF Answering

\* A step of a call that does not finish d.
LEMMA AnsweringOther ==
    ASSUME TypeOK, NEW d \in Deliveries, Answering(d), NEW t \in Threads, ApiStep(t), ~Finishing(call[t], d)
    PROVE  Answering(d)'
<1>1. UNCHANGED held /\ call[t].at # "idle"
  BY ApiFrame
<1>2. /\ \A u \in Threads : u # t => call'[u] = call[u]
      /\ ~Finishing(call'[t], d)
  BY <1>1, CallContinues DEF Finishing
<1>3. d \in finished' <=> d \in finished
  <2>1. CASE SetFinished(t)
    <3>1. finished' = finished \cup {call[t].for} /\ call[t].at = "finish"
      BY <2>1 DEF SetFinished, Doing
    <3>2. call[t].op = "finish"
      BY <3>1, InCall DEF CallOK
    <3> QED
      BY <1>1, <3>1, <3>2 DEF Finishing
  <2> QED
    BY <2>1, ApiFrame
<1>4. answers'[d] = answers[d]
  <2>1. CASE RequestAccepted(t) \/ ReplyLost(t)
    <3>1. answers' = IF call[t].op = "finish" THEN [answers EXCEPT ![call[t].for] = @ + 1] ELSE answers
      BY <2>1 DEF RequestAccepted, ReplyLost, Reaches
    <3>2. call[t].op = "finish" => call[t].for # d
      BY <1>1 DEF Finishing
    <3> QED
      BY <3>1, <3>2 DEF TypeOK, DataOK
  <2> QED
    BY <2>1, ApiFrame
<1> QED
  BY <1>1, <1>2, <1>3, <1>4 DEF Answering

\* A step of the call that finishes d.
LEMMA AnsweringOwn ==
    ASSUME TypeOK, OneFinisher, NEW d \in Deliveries, Answering(d), NEW t \in Threads, ApiStep(t),
           Finishing(call[t], d)
    PROVE  Answering(d)'
<1>1. UNCHANGED held /\ call[t].at # "idle" /\ call[t].op = "finish" /\ call[t].for = d /\ CallOK(t, call[t])
  BY ApiFrame, InCall DEF Finishing
<1>2. /\ \A u \in Threads : u # t => call'[u] = call[u]
      /\ call'[t].at # "idle" => call'[t].op = call[t].op /\ call'[t].for = call[t].for
  BY CallContinues
<1>3. \A u \in Threads : u # t => ~Finishing(call'[u], d)
  BY <1>2, OneAnswerer
<1>4. IF t \in Runners THEN t = Runner(d[1]) /\ d \notin held' ELSE t \in Finishers /\ d \in held'
  BY <1>1 DEF Answering
<1>5. CASE call'[t].at = "idle" /\ UNCHANGED <<finished, answers>>
  BY <1>1, <1>3, <1>5 DEF Answering, Finishing
<1>6. CASE Return(t, FALSE) /\ UNCHANGED <<finished, answers>>
  BY <1>5, <1>6, ReturnFacts
<1>7. CASE TestFinished(t)
  <2>1. UNCHANGED <<finished, answers>> /\ call[t].at = "finished?"
    BY <1>7 DEF TestFinished, Doing, resultVars, ghostVars
  <2>2. CASE d[2] \in Ordered /\ d \notin finished /\ Goto(t, "finish")
    <3>1. call'[t].at = "finish"
      BY <1>1, <2>2, GotoFacts DEF Steps
    <3> QED
      BY <1>3, <1>4, <2>1, <2>2, <3>1 DEF Answering
  <2> QED
    BY <1>1, <1>6, <1>7, <2>1, <2>2 DEF TestFinished
<1>8. CASE SetFinished(t)
  <2>1. call[t].at = "finish" /\ finished' = finished \cup {d} /\ Goto(t, "proxy?") /\ UNCHANGED answers
    BY <1>1, <1>8 DEF SetFinished, Doing, ghostVars
  <2>2. call'[t].at = "proxy?"
    BY <1>1, <2>1, GotoFacts DEF Steps, Reaching
  <2>3. d \notin finished /\ d[2] \in Ordered
    BY <2>1 DEF Answering
  <2>4. answers'[d] = 0
    BY <2>1, <2>3 DEF Answering, TypeOK, DataOK
  <2> QED
    BY <1>3, <1>4, <2>1, <2>2, <2>3, <2>4 DEF Answering
<1>9. ASSUME call[t].at \notin {"finished?", "finish"}, call'[t].at \notin {"finished?", "finish"},
             UNCHANGED <<finished, answers>>
      PROVE  Answering(d)'
  BY <1>3, <1>4, <1>9 DEF Answering
<1>10. CASE TestProxy(t) \/ Connect(t) \/ AddDeathRecipient(t)
  <2>1. UNCHANGED <<finished, answers>> /\ call[t].at \in {"proxy?", "connect", "recipient"}
    BY <1>10 DEF TestProxy, Connect, AddDeathRecipient, Return, Doing, resultVars, ghostVars
  <2>2. ASSUME NEW at \in {"valid", "connect", "recipient"}, Goto(t, at)
        PROVE  Answering(d)'
    BY <1>1, <1>9, <2>1, <2>2, GotoFacts DEF Steps, Reaching
  <2> QED
    BY <1>6, <1>10, <2>1, <2>2 DEF TestProxy, Connect, AddDeathRecipient
<1>11. CASE SetProxyValid(t)
  <2>1. UNCHANGED <<finished, answers>> /\ call[t].at = "valid" /\ Goto(t, "request")
    BY <1>1, <1>11 DEF SetProxyValid, AfterProxy, Doing, resultVars, ghostVars
  <2> QED
    BY <1>1, <1>9, <2>1, GotoFacts DEF Steps
<1>12. CASE RequestAccepted(t) \/ ReplyLost(t)
  <2>1. call[t].at = "request" /\ (\E answer : Return(t, answer)) /\ UNCHANGED finished
        /\ answers' = [answers EXCEPT ![d] = @ + 1]
    BY <1>1, <1>12 DEF RequestAccepted, ReplyLost, Reaches, Doing, resultVars
  <2>2. d \in finished /\ answers[d] = 0
    BY <2>1, Zenon DEF Answering
  <2>3. answers'[d] = 1
    BY <2>1, <2>2 DEF TypeOK, DataOK
  <2>4. \A u \in Threads : ~Finishing(call'[u], d)
    BY <1>3, <2>1, ReturnFacts DEF Finishing
  <2> QED
    BY <2>1, <2>2, <2>3, <2>4 DEF Answering
<1>13. CASE RequestFails(t)
  BY <1>6, <1>13 DEF RequestFails, Fails, resultVars
<1>14. ~(CreateCommonEventListener(t) \/ FindListener(t) \/ StopListener(t))
  BY <1>1 DEF CreateCommonEventListener, FindListener, StopListener, Doing, CallOK
<1> QED
  BY <1>7, <1>8, <1>10, <1>11, <1>12, <1>13, <1>14 DEF ApiStep

LEMMA AnsweringCallback ==
    ASSUME TasksOK, Results, NEW d \in Deliveries, OneRunner(d[1][1]), Answering(d), NEW r \in Runners,
           RunnerStep(r) \/ CallFromCallback(r) \/ GoAsyncCommonEvent(r)
    PROVE  Answering(d)'
<1>1. TypeOK /\ OwnTasks /\ r \in Threads
  BY ListenerFacts DEF TasksOK
<1>2. ASSUME running[r].at # "idle", d[1][1] = running[r].delivery[1][1]
      PROVE  Runner(d[1]) = r
  <2>1. running[r].delivery[1] \in Listeners /\ Runner(running[r].delivery[1]) = r
    BY <1>1, <1>2, RunningFacts DEF OwnTasks
  <2> QED
    BY <1>2, <2>1, ListenerFacts DEF OneRunner
<1>3. CASE TakeTask(r) \/ EnterCallback(r) \/ LeaveOnReceiveEvent(r)
  BY <1>3, AnsweringStays DEF TakeTask, EnterCallback, LeaveOnReceiveEvent, resultVars, ghostVars
<1>4. CASE GoAsyncCommonEvent(r)
  <2>1. PICK d0 \in Deliveries : d0 = result[running[r].delivery[1][1]]
    BY <1>1, <1>4, RunningFacts DEF GoAsyncCommonEvent, TypeOK, DataOK
  <2>2. held' = held \cup {d0} /\ UNCHANGED <<call, finished, answers>> /\ running[r].at = "callback"
    BY <1>4, <2>1 DEF GoAsyncCommonEvent, ghostVars
  <2>3. CASE d = d0
    <3>1. d[1][1] = running[r].delivery[1][1] /\ d \notin held
      BY <1>1, <2>1, <2>2, <2>3, RunningFacts DEF Results
    <3>2. Runner(d[1]) = r
      BY <1>2, <2>2, <3>1
    <3>3. call[r].at = "idle"
      BY <2>2 DEF Results
    <3>4. \A u \in Threads : ~Finishing(call[u], d)
      BY <3>1, <3>2, <3>3 DEF Answering, Finishing
    <3> QED
      BY <2>2, <3>4 DEF Answering
  <2>4. CASE d # d0
    BY <2>2, <2>4 DEF Answering
  <2> QED
    BY <2>3, <2>4
<1>5. CASE CallFromCallback(r) \/ EndCallback(r)
  <2>1. running[r].at # "idle" /\ UNCHANGED <<finished, held>>
    BY <1>5 DEF CallFromCallback, EndCallback, resultVars
  <2>2. \A e \in ResultOf(r) : /\ e \in Deliveries /\ Past(e) /\ e \notin held
                               /\ e[1][1] = running[r].delivery[1][1]
    BY <1>1, <2>1, ResultOfFacts
  <2>3. CASE UNCHANGED <<call, ghostVars>>
    BY <2>1, <2>3, AnsweringStays DEF ghostVars
  <2>4. CASE Begins(r, ResultOf(r))
    <3>1. /\ \A u \in Threads : u # r => call'[u] = call[u]
          /\ call'[r].at \in {"finished?", "proxy?"}
          /\ call'[r].op = "finish" => call'[r].at = "finished?" /\ call'[r].for \in ResultOf(r)
          /\ answers' = answers
      BY <1>1, <2>2, <2>4, FinishingBegins
    <3>2. Finishing(call'[r], d) => r = Runner(d[1]) /\ d \notin held /\ call'[r].at = "finished?"
      BY <1>2, <2>1, <2>2, <3>1 DEF Finishing
    <3> QED
      BY <2>1, <3>1, <3>2 DEF Answering
  <2> QED
    BY <1>1, <1>5, <2>3, <2>4, CallbackBegins
<1> QED
  BY <1>3, <1>4, <1>5 DEF RunnerStep

LEMMA AnsweringCallApi ==
    ASSUME TasksOK, Results, NEW d \in Deliveries, Answering(d), NEW t \in AppThreads, CallApi(t)
    PROVE  Answering(d)'
<1>1. TypeOK /\ t \in Threads /\ t \notin Runners /\ held \subseteq Deliveries
  BY ListenerFacts, ClientAssumption DEF TasksOK, TypeOK, DataOK
<1>2. UNCHANGED <<held, finished>>
  BY DEF CallApi, resultVars
<1>3. \A e \in GivenTo(t) : e \in Deliveries /\ Past(e)
  BY <1>1 DEF GivenTo, Results
<1>4. /\ \A u \in Threads : u # t => call'[u] = call[u]
      /\ call'[t].at \in {"finished?", "proxy?"}
      /\ call'[t].op = "finish" => call'[t].at = "finished?" /\ call'[t].for \in GivenTo(t)
      /\ answers' = answers
  BY <1>1, <1>3, CallApiBegins, FinishingBegins
<1>5. Finishing(call'[t], d) => t \in Finishers /\ d \in held /\ call'[t].at = "finished?"
  BY <1>4 DEF Finishing, GivenTo
<1> QED
  BY <1>1, <1>2, <1>4, <1>5 DEF Answering

LEMMA NextAnswering ==
    ASSUME TasksOK, Results, OneFinisher, NEW d \in Deliveries, OneRunner(d[1][1]), Answering(d), [Next]_vars
    PROVE  Answering(d)'
<1>1. TypeOK
  BY DEF TasksOK
<1>2. CASE \E t \in Threads : ApiStep(t)
  BY <1>1, <1>2, AnsweringOther, AnsweringOwn
<1>3. CASE \E l \in Listeners : NotifyEvent(l) \/ \E e \in Events : SendEvent(l, e)
  BY <1>3, AnsweringStays DEF NotifyEvent, SendEvent, resultVars, ghostVars
<1>4. CASE ServiceDies \/ ServiceRestarts \/ ResetCommonEventProxy \/ UNCHANGED vars
  BY <1>4, AnsweringStays DEF ServiceDies, ServiceRestarts, ResetCommonEventProxy, vars, resultVars, ghostVars
<1> QED
  BY <1>2, <1>3, <1>4, EveryStep, AnsweringCallback, AnsweringCallApi

\* The service is answered once for a delivery of an ordered event whose
\* subscriber's callbacks run on one runner, with one thread that finishes
\* what went asynchronous, and never for one of another event.
THEOREM OneAnswer ==
    ASSUME OneFinisher, NEW d \in Deliveries, OneRunner(d[1][1])
    PROVE  Spec => [](answers[d] <= (IF d \in sent /\ d[2] \in Ordered THEN 1 ELSE 0))
<1> DEFINE I == TasksOK /\ OnePlace /\ Results /\ Answering(d)
           Promise == answers[d] <= (IF d \in sent /\ d[2] \in Ordered THEN 1 ELSE 0)
<1>1. Init => I
  <2>1. Init => Answering(d)
    BY DEF Init, Answering, Finishing, Idle
  <2> QED
    BY <2>1, InitTasks, InitPlaces, InitResults
<1>2. I /\ [Next]_vars => I'
  <2> SUFFICES ASSUME I, [Next]_vars PROVE I'
    OBVIOUS
  <2>1. TasksOK' /\ OnePlace' /\ Results'
    BY NextTasks, NextPlaces, NextResults
  <2>2. Answering(d)'
    BY NextAnswering
  <2> QED
    BY <2>1, <2>2
<1>3. I => Promise
  <2> SUFFICES ASSUME I PROVE Promise
    OBVIOUS
  <2>1. answers[d] \in Nat
    BY DEF TasksOK, TypeOK, DataOK
  <2>2. answers[d] > 0 => answers[d] = 1 /\ d[2] \in Ordered /\ Past(d)
    BY DEF Answering, Results
  <2>3. answers[d] > 0 => answers[d] = 1 /\ d[2] \in Ordered /\ d \in sent
    BY <2>2 DEF Past
  <2> QED
    BY <2>1, <2>3
<1> QED
  BY <1>1, <1>2, <1>3, PTL DEF Spec

\* So it is for every delivery when each subscriber has one such runner.
THEOREM OneAnswerEach ==
    ASSUME OneFinisher, \A s \in Subscribers : OneRunner(s)
    PROVE  Spec => []AnsweredOnce
<1> DEFINE All == \A d \in Deliveries : Answering(d)
           I == TasksOK /\ OnePlace /\ Results /\ All
<1>1. Init => I
  <2>1. Init => All
    BY DEF Init, Answering, Finishing, Idle
  <2> QED
    BY <2>1, InitTasks, InitPlaces, InitResults
<1>2. I /\ [Next]_vars => I'
  <2> SUFFICES ASSUME I, [Next]_vars PROVE I'
    OBVIOUS
  <2>1. TasksOK' /\ OnePlace' /\ Results'
    BY NextTasks, NextPlaces, NextResults
  <2>2. ASSUME NEW d \in Deliveries
        PROVE  Answering(d)'
    <3>1. d[1][1] \in Subscribers
      BY ListenerFacts
    <3> QED
      BY <3>1, NextAnswering
  <2> QED
    BY <2>1, <2>2
<1>3. I => AnsweredOnce
  <2> SUFFICES ASSUME I, NEW d \in Deliveries
               PROVE  answers[d] <= (IF d \in sent /\ d[2] \in Ordered THEN 1 ELSE 0)
    BY DEF AnsweredOnce
  <2>1. answers[d] \in Nat
    BY DEF TasksOK, TypeOK, DataOK
  <2>2. answers[d] > 0 => answers[d] = 1 /\ d[2] \in Ordered /\ Past(d)
    BY DEF Answering, Results
  <2>3. answers[d] > 0 => answers[d] = 1 /\ d[2] \in Ordered /\ d \in sent
    BY <2>2 DEF Past
  <2> QED
    BY <2>1, <2>3
<1> QED
  BY <1>1, <1>2, <1>3, PTL DEF Spec
=============================================================================
