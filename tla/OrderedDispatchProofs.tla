------------------------ MODULE OrderedDispatchProofs ------------------------
(***************************************************************************)
(* Proofs about OrderedDispatch, for any number of events, subscribers and *)
(* any TIMEOUT: the two threads exclude each other inside                  *)
(* ProcessNextOrderedEvent, so the queue is a FIFO and receivers are       *)
(* notified in turn, although finishes and timeouts take no lock.          *)
(*                                                                         *)
(* The argument goes from control to data.  A step of a thread follows an  *)
(* edge of the call's control flow (Path); edges keep Control and Mutex;   *)
(* a thread that holds the lock works on the front event (AtHead); with    *)
(* every published event in the log exactly once (Fresh), nothing but the  *)
(* lock holder touches nextReceiver, which gives Turns and NotifyStep.     *)
(*                                                                         *)
(* Then OrderedDispatch implements OrderedPromise: what each step writes   *)
(* in the records, an invariant that says no event ends before it began    *)
(* (PInv), and for each action of the promise the steps that map to it.    *)
(* Then what becomes of each receiver: nobody is passed over without a     *)
(* reason, and the history says of each what happened.  Last, a front      *)
(* event that waits for nobody is driven on (DInv): by START or TIMEOUT,   *)
(* by a thread that will come back to it, or, where a finish writes IDLE   *)
(* late and does not go on (Overtaken), by the timeout that the ordered    *)
(* thread has armed or will arm (Covered).                                 *)
(***************************************************************************)
EXTENDS OrderedDispatchPromise, SequenceTheorems, FiniteSetTheorems, TLAPS

-----------------------------------------------------------------------------
(* The inductive invariant *)

\* The calls that go through ProcessNextOrderedEvent.
Going == {"start", "finish", "unsub"}

NextSteps == {"loop", "settle", "retire", "setTime", "notify", "cast", "tell", "park", "check"}
ScheduleSteps == {"schedule", "send"}
ArmSteps == {"arm", "armSet", "armSend"}
FinishSteps == {"mark", "finishRead", "finishState", "finishCur", "finishResult"}

\* Thread t is inside ProcessNextOrderedEvent, where orderedMutex_ is held.
Holds(t) ==
    \/ pc[t] \in NextSteps
    \/ pc[t] \in ScheduleSteps \cup ArmSteps /\ loc[t].call \in Going
    \/ pc[t] \in FinishSteps /\ loc[t].force = TRUE

\* Which calls can be where, and what they know of the record they work on.
CallInv(t) ==
    /\ pc[t] = "enqueue" => t = "main" /\ loc[t].call = "publish"
    /\ pc[t] = "expire" => loc[t].call = "timeout"
    /\ pc[t] = "remove" => loc[t].from \in Subscribers
    /\ loc[t].call = "unsub" => loc[t].from \in Subscribers
    /\ pc[t] \in NextSteps \cup {"lock"} => loc[t].call \in Going
    /\ pc[t] \in ArmSteps \cup FinishSteps => loc[t].call \in Going \cup {"timeout"}
    /\ loc[t].force = TRUE => loc[t].call \in Going
    /\ pc[t] \notin {"idle", "lock", "loop", "expire", "remove"} => loc[t].sp \in Events

Control == \A t \in Threads : CallInv(t)

Mutex == \A t \in Threads : lock = t <=> Holds(t)

\* The lock holder works on the front event.
AtHead ==
    \A t \in Threads :
        Holds(t) /\ pc[t] # "loop" => queue # <<>> /\ loc[t].sp = Head(queue)

\* Every event is published at most once, and notified only after that.
Fresh ==
    /\ \A i, j \in 1..Len(published) : published[i] = published[j] => i = j
    /\ pc["main"] = "enqueue" => loc["main"].sp \in Publishable
    /\ \A e \in Publishable : notified[e] = {}

\* Thread t is giving the turn to receiver nextReceiver of its event.
Giving(t) ==
    pc[t] \in {"setTime", "notify", "cast", "tell", "park"} \cup ArmSteps /\ loc[t].call # "timeout"

Retiring(e) == \E t \in Threads : pc[t] = "retire" /\ loc[t].sp = e

\* Who has been notified: receivers up to nextReceiver, not yet the one whose
\* turn is being given, and the last subscriber only when the event goes.
Turns ==
    /\ \A e \in Events : \A j \in notified[e] : j \in 1..ev[e].next \/ j = NumReceivers(e) + 1
    /\ \A i \in 1..Len(queue) :
           NumReceivers(queue[i]) + 1 \in notified[queue[i]] => Retiring(queue[i])
    /\ \A t \in Threads : Giving(t) =>
           /\ ev[loc[t].sp].next \in 1..NumReceivers(loc[t].sp)
           /\ ev[loc[t].sp].next \notin notified[loc[t].sp]

IInv == TypeOK /\ Control /\ Mutex /\ AtHead /\ QueueOrder /\ Fresh /\ Turns

-----------------------------------------------------------------------------
(* Thread control *)

\* Thread t moves and the other one does not.
Others(t) == \A u \in Threads \ {t} : pc'[u] = pc[u] /\ loc'[u] = loc[u]

\* The call goes on with the same record.
Keep(t) ==
    /\ loc'[t].call = loc[t].call /\ loc'[t].from = loc[t].from
    /\ loc'[t].sp = loc[t].sp /\ loc'[t].force = loc[t].force

LEMMA NoLocalsType == NoLocals \in Locals /\ NoLocals.force = FALSE /\ NoLocals.call = "none"
  BY ConstantsAssumption DEF NoLocals, Locals, Calls

\* Leave ends the call: the thread is idle, or about to remove its subscriber.
Left(t) ==
    /\ pc'[t] \in {"idle", "remove"} /\ loc'[t].force = FALSE
    /\ loc'[t].call = "unsub" => loc[t].call = "unsub" /\ loc'[t].from \in Subscribers
    /\ loc'[t].call \in {"none", "unsub"}
    /\ pc'[t] = "remove" => loc'[t].from \in Subscribers

LEMMA GotoStep ==
  ASSUME ThreadsOK, NEW t \in Threads, NEW l \in Labels, Goto(t, l)
  PROVE  /\ pc' \in [Threads -> Labels] /\ pc'[t] = l
         /\ \A u \in Threads \ {t} : pc'[u] = pc[u]
  BY DEF ThreadsOK, Goto

LEMMA LocStep ==
  ASSUME ThreadsOK, NEW t \in Threads, NEW l \in Locals, loc' = [loc EXCEPT ![t] = l]
  PROVE  /\ loc' \in [Threads -> Locals] /\ loc'[t] = l
         /\ \A u \in Threads \ {t} : loc'[u] = loc[u]
  BY DEF ThreadsOK

LEMMA LeaveStep ==
  ASSUME ThreadsOK, Control, NEW t \in Threads, Leave(t)
  PROVE  /\ pc' \in [Threads -> Labels] /\ loc' \in [Threads -> Locals]
         /\ Left(t) /\ Others(t)
<1>1. CASE loc[t].call = "unsub"
  <2> DEFINE l == [NoLocals EXCEPT !.call = "unsub", !.from = loc[t].from]
  <2>1. l \in Locals /\ l.force = FALSE /\ l.from \in Subscribers /\ l.call = "unsub"
    BY <1>1, NoLocalsType DEF ThreadsOK, Locals, Calls, Control, CallInv
  <2>2. loc' = [loc EXCEPT ![t] = l] /\ Goto(t, "remove")
    BY <1>1 DEF Leave
  <2> HIDE DEF l
  <2>3. /\ pc' \in [Threads -> Labels] /\ pc'[t] = "remove"
        /\ \A u \in Threads \ {t} : pc'[u] = pc[u]
    BY <2>2, GotoStep DEF Labels
  <2>4. /\ loc' \in [Threads -> Locals] /\ loc'[t] = l
        /\ \A u \in Threads \ {t} : loc'[u] = loc[u]
    BY <2>1, <2>2 DEF ThreadsOK
  <2> QED BY <1>1, <2>1, <2>3, <2>4 DEF Left, Others
<1>2. CASE loc[t].call # "unsub"
  <2>1. loc' = [loc EXCEPT ![t] = NoLocals] /\ Goto(t, "idle")
    BY <1>2 DEF Leave
  <2>2. /\ pc' \in [Threads -> Labels] /\ pc'[t] = "idle"
        /\ \A u \in Threads \ {t} : pc'[u] = pc[u]
    BY <2>1, GotoStep DEF Labels
  <2>3. /\ loc' \in [Threads -> Locals] /\ loc'[t] = NoLocals
        /\ \A u \in Threads \ {t} : loc'[u] = loc[u]
    BY <2>1, NoLocalsType DEF ThreadsOK
  <2> QED BY <2>2, <2>3, NoLocalsType DEF Left, Others
<1> QED BY <1>1, <1>2

\* The call goes on, possibly with another record.
Goes(t) ==
    /\ loc'[t].call = loc[t].call /\ loc'[t].from = loc[t].from
    /\ UNCHANGED lock

\* A call begins.
Entered(t) ==
    /\ loc'[t].force = FALSE
    /\ \/ /\ pc'[t] = "enqueue" /\ loc'[t].call = "publish"
          /\ t = "main" /\ loc'[t].sp \in Publishable
       \/ /\ pc'[t] = "finishRead" /\ loc'[t].sp \in Events
          /\ \/ loc'[t].call = "finish"
             \/ loc'[t].call = "unsub" /\ loc'[t].from \in Subscribers
       \/ pc'[t] = "remove" /\ loc'[t].call = "unsub" /\ loc'[t].from \in Subscribers
       \/ pc'[t] = "lock" /\ loc'[t].call = "start"
       \/ pc'[t] = "expire" /\ loc'[t].call = "timeout"

Edges ==
    {<<"enqueue", "schedule">>, <<"schedule", "send">>, <<"arm", "armSet">>,
     <<"armSet", "armSend">>, <<"setTime", "arm">>, <<"setTime", "notify">>,
     <<"notify", "park">>, <<"notify", "cast">>, <<"notify", "check">>,
     <<"cast", "tell">>, <<"cast", "check">>, <<"tell", "check">>, <<"park", "check">>,
     <<"check", "schedule">>, <<"mark", "finishState">>, <<"finishRead", "finishState">>,
     <<"finishState", "finishCur">>, <<"finishCur", "finishResult">>}

\* The control flow inside a call: what one step of t does to t and the lock.
Path(t) ==
    /\ Others(t)
    /\ \/ Goes(t) /\ <<pc[t], pc'[t]>> \in Edges /\ Keep(t)
       \/ Goes(t) /\ pc[t] \in ScheduleSteps /\ pc'[t] = "settle" /\ loc[t].force = TRUE /\ Keep(t)
       \/ Goes(t) /\ pc[t] \in ArmSteps /\ pc'[t] = "notify" /\ loc[t].call # "timeout" /\ Keep(t)
       \/ /\ Goes(t) /\ pc[t] = "finishResult" /\ pc'[t] = "schedule" /\ Keep(t)
          /\ loc[t].force = TRUE \/ loc[t].call = "timeout"
       \/ /\ Goes(t) /\ pc[t] = "finishResult" /\ pc'[t] = "lock"
          /\ loc[t].force = FALSE /\ loc'[t].force = FALSE /\ loc[t].call # "timeout"
       \/ pc[t] = "lock" /\ pc'[t] = "loop" /\ Keep(t) /\ lock = None /\ lock' = t
       \/ /\ Goes(t) /\ pc[t] = "loop" /\ queue # <<>> /\ loc'[t].sp = Head(queue)
          /\ \/ pc'[t] = "mark" /\ loc'[t].force = TRUE
             \/ pc'[t] = "retire" /\ loc'[t].force = FALSE
             \/ pc'[t] = "setTime" /\ loc'[t].force = loc[t].force
       \/ /\ Goes(t) /\ pc[t] = "settle" /\ pc'[t] = "retire"
          /\ loc'[t].sp = loc[t].sp /\ loc'[t].force = FALSE
       \/ Goes(t) /\ pc[t] = "retire" /\ pc'[t] = "loop" /\ loc'[t].force = loc[t].force
       \/ Left(t) /\ pc[t] \in {"loop", "check"} /\ lock' = None
       \/ /\ Left(t) /\ pc[t] \in ScheduleSteps /\ loc[t].force = FALSE
          /\ lock' = (IF lock = t THEN None ELSE lock)
       \/ Left(t) /\ pc[t] \in ArmSteps /\ loc[t].call = "timeout" /\ UNCHANGED lock
       \/ Left(t) /\ pc[t] = "finishResult" /\ loc[t].force = FALSE /\ UNCHANGED lock
       \/ Left(t) /\ pc[t] \in {"expire", "remove"} /\ UNCHANGED lock
       \/ /\ Goes(t) /\ pc[t] = "expire" /\ pc'[t] \in {"arm", "mark"}
          /\ loc'[t].sp \in Events /\ loc'[t].force = loc[t].force
       \/ pc[t] = "idle" /\ Entered(t) /\ UNCHANGED lock

\* No thread moves.
Still == pc' = pc /\ UNCHANGED lock /\ \A t \in Threads : Keep(t)

\* One step of a call keeps the types of the thread variables and takes a path.
LEMMA ThreadStep ==
  ASSUME TypeOK, Control, NEW t \in Threads, Step(t)
  PROVE  ThreadsOK' /\ Path(t)
<1> USE DEF Path, Goes, Keep, Others, Edges, ScheduleSteps, ArmSteps, Labels
<1>0. ThreadsOK /\ t # None
  BY ConstantsAssumption DEF TypeOK
<1>sched. ASSUME AfterSchedule(t), pc[t] \in ScheduleSteps
          PROVE  ThreadsOK' /\ Path(t)
  <2>1. CASE loc[t].force
    BY <1>0, <1>sched, <2>1, GotoStep DEF AfterSchedule, ThreadsOK
  <2>2. CASE ~loc[t].force
    <3>1. loc[t].force = FALSE
      BY <1>0, <2>2 DEF ThreadsOK, Locals
    <3> QED BY <1>0, <1>sched, <2>2, <3>1, LeaveStep DEF AfterSchedule, ThreadsOK
  <2> QED BY <2>1, <2>2
<1>arm. ASSUME AfterArm(t), pc[t] \in ArmSteps, UNCHANGED lock
        PROVE  ThreadsOK' /\ Path(t)
  <2>1. CASE loc[t].call = "timeout"
    BY <1>0, <1>arm, <2>1, LeaveStep DEF AfterArm, ThreadsOK
  <2>2. CASE loc[t].call # "timeout"
    <3> DEFINE l == [loc[t] EXCEPT !.due = 0]
    <3>1. l \in Locals /\ l.call = loc[t].call /\ l.from = loc[t].from
          /\ l.sp = loc[t].sp /\ l.force = loc[t].force
      BY <1>0, ConstantsAssumption DEF ThreadsOK, Locals
    <3>2. loc' = [loc EXCEPT ![t] = l] /\ Goto(t, "notify")
      BY <2>2, <1>arm DEF AfterArm
    <3> HIDE DEF l
    <3> QED BY <1>0, <1>arm, <2>2, <3>1, <3>2, GotoStep, LocStep DEF ThreadsOK
  <2> QED BY <2>1, <2>2
<1>1. CASE ScheduleTest(t)
  BY <1>0, <1>1, <1>sched, GotoStep DEF ScheduleTest, ThreadsOK
<1>2. CASE ScheduleSend(t)
  BY <1>2, <1>sched DEF ScheduleSend
<1>3. CASE ArmTest(t)
  BY <1>0, <1>3, <1>arm, GotoStep DEF ArmTest, ThreadsOK
<1>4. CASE ArmSet(t)
  BY <1>0, <1>4, GotoStep DEF ArmSet, ThreadsOK
<1>5. CASE ArmSend(t)
  BY <1>5, <1>arm DEF ArmSend
<1>6. CASE LockForNext(t)
  BY <1>0, <1>6, GotoStep DEF LockForNext, ThreadsOK
<1>7. CASE LoopReturn(t)
  BY <1>0, <1>7, LeaveStep DEF LoopReturn, ThreadsOK
<1>8. CASE LoopForce(t)
  <2> DEFINE l == [loc[t] EXCEPT !.force = TRUE, !.sp = Head(queue)]
  <2>1. Head(queue) \in Events
    BY <1>8, HeadTailProperties DEF LoopForce, TypeOK, LogsOK
  <2>2. l \in Locals /\ l.call = loc[t].call /\ l.from = loc[t].from
        /\ l.sp = Head(queue) /\ l.force = TRUE
    BY <1>0, <2>1 DEF ThreadsOK, Locals, TypeOK, RecordsOK, EventRecords
  <2>3. loc' = [loc EXCEPT ![t] = l] /\ Goto(t, "mark")
    BY <1>0, <1>8 DEF LoopForce, ThreadsOK, Locals
  <2>4. pc[t] = "loop" /\ queue # <<>> /\ UNCHANGED lock
    BY <1>8 DEF LoopForce
  <2> HIDE DEF l
  <2> QED BY <1>0, <2>2, <2>3, <2>4, GotoStep, LocStep DEF ThreadsOK
<1>conclude. ASSUME NEW e \in Events, Conclude(t, e)
             PROVE  /\ ThreadsOK' /\ Others(t) /\ UNCHANGED lock /\ pc'[t] = "retire"
                    /\ loc'[t].call = loc[t].call /\ loc'[t].from = loc[t].from
                    /\ loc'[t].sp = e /\ loc'[t].force = FALSE
  <2> DEFINE l == [loc[t] EXCEPT !.sp = e, !.force = FALSE, !.timer = pending]
  <2>1. l \in Locals /\ l.call = loc[t].call /\ l.from = loc[t].from
        /\ l.sp = e /\ l.force = FALSE
    BY <1>0 DEF ThreadsOK, Locals, TypeOK, HandlerOK
  <2>2. loc' = [loc EXCEPT ![t] = l] /\ Goto(t, "retire") /\ UNCHANGED lock
    BY <1>0, <1>conclude DEF Conclude, ThreadsOK, Locals
  <2> HIDE DEF l
  <2> QED BY <1>0, <2>1, <2>2, GotoStep, LocStep DEF ThreadsOK
<1>9. CASE LoopConclude(t)
  <2>1. Head(queue) \in Events
    BY <1>9, HeadTailProperties DEF LoopConclude, TypeOK, LogsOK
  <2> QED BY <1>9, <2>1, <1>conclude DEF LoopConclude
<1>10. CASE ForceConclude(t)
  <2>1. loc[t].sp \in Events
    BY <1>10 DEF ForceConclude, Control, CallInv
  <2> QED BY <1>10, <2>1, <1>conclude DEF ForceConclude
<1>11. CASE Retire(t)
  <2> DEFINE l == [loc[t] EXCEPT !.sp = None, !.timer = FALSE]
  <2>1. l \in Locals /\ l.call = loc[t].call /\ l.from = loc[t].from /\ l.force = loc[t].force
    BY <1>0 DEF ThreadsOK, Locals
  <2>2. loc' = [loc EXCEPT ![t] = l] /\ Goto(t, "loop") /\ UNCHANGED lock /\ pc[t] = "retire"
    BY <1>0, <1>11 DEF Retire, ThreadsOK, Locals
  <2> HIDE DEF l
  <2> QED BY <1>0, <2>1, <2>2, GotoStep, LocStep DEF ThreadsOK
<1>12. CASE LoopDispatch(t)
  <2> DEFINE l == [loc[t] EXCEPT !.sp = Head(queue), !.timer = pending]
  <2>1. Head(queue) \in Events
    BY <1>12, HeadTailProperties DEF LoopDispatch, TypeOK, LogsOK
  <2>2. l \in Locals /\ l.call = loc[t].call /\ l.from = loc[t].from
        /\ l.sp = Head(queue) /\ l.force = loc[t].force
    BY <1>0, <2>1 DEF ThreadsOK, Locals, TypeOK, HandlerOK
  <2>3. loc' = [loc EXCEPT ![t] = l] /\ Goto(t, "setTime")
    BY <1>0, <1>12 DEF LoopDispatch, ThreadsOK, Locals
  <2> HIDE DEF l
  <2> QED BY <1>0, <1>12, <2>2, <2>3, GotoStep, LocStep DEF LoopDispatch, ThreadsOK
<1>13. CASE SetTime(t)
  <2> DEFINE l == IF loc[t].timer THEN [loc[t] EXCEPT !.timer = FALSE] ELSE [loc[t] EXCEPT !.due = TIMEOUT]
             next == IF loc[t].timer THEN "notify" ELSE "arm"
  <2>0. TIMEOUT \in 0..TIMEOUT
    BY ConstantsAssumption
  <2>1. l \in Locals /\ l.call = loc[t].call /\ l.from = loc[t].from
        /\ l.sp = loc[t].sp /\ l.force = loc[t].force
    <3>1. CASE loc[t].timer
      BY <1>0, <3>1 DEF ThreadsOK, Locals
    <3>2. CASE ~loc[t].timer
      BY <1>0, <2>0, <3>2 DEF ThreadsOK, Locals
    <3> QED BY <3>1, <3>2
  <2>2. loc' = [loc EXCEPT ![t] = l] /\ Goto(t, next) /\ UNCHANGED lock /\ pc[t] = "setTime"
    BY <1>13 DEF SetTime
  <2> HIDE DEF l
  <2> QED BY <1>0, <2>1, <2>2, GotoStep, LocStep DEF ThreadsOK
<1>14. CASE NotifyOrderedEvent(t)
  <2>1. /\ pc[t] = "notify" /\ UNCHANGED <<lock, loc>>
        /\ Goto(t, "check") \/ Goto(t, "park") \/ Goto(t, "cast")
    BY <1>14 DEF NotifyOrderedEvent
  <2> QED BY <1>0, <2>1, GotoStep DEF ThreadsOK
<1>cast. CASE CastReceiver(t)
  <2>1. /\ pc[t] = "cast" /\ UNCHANGED <<lock, loc>>
        /\ Goto(t, "check") \/ Goto(t, "tell")
    BY <1>cast DEF CastReceiver
  <2> QED BY <1>0, <2>1, GotoStep DEF ThreadsOK
<1>tell. CASE TellReceiver(t)
  BY <1>0, <1>tell, GotoStep DEF TellReceiver, ThreadsOK
<1>15. CASE ParkFrozen(t)
  BY <1>0, <1>15, GotoStep DEF ParkFrozen, ThreadsOK
<1>16. CASE CheckReceiver(t)
  BY <1>0, <1>16, GotoStep, LeaveStep DEF CheckReceiver, ThreadsOK
<1>read. CASE FinishRead(t)
  <2> DEFINE l == [loc[t] EXCEPT !.doNext = (ev[loc[t].sp].state = "RECEIVED")]
  <2>1. l \in Locals /\ l.call = loc[t].call /\ l.from = loc[t].from
        /\ l.sp = loc[t].sp /\ l.force = loc[t].force
    BY <1>0 DEF ThreadsOK, Locals
  <2>2. loc' = [loc EXCEPT ![t] = l] /\ Goto(t, "finishState") /\ UNCHANGED lock /\ pc[t] = "finishRead"
    BY <1>read DEF FinishRead
  <2> HIDE DEF l
  <2> QED BY <1>0, <2>1, <2>2, GotoStep, LocStep DEF ThreadsOK
<1>17. CASE FinishState(t)
  BY <1>0, <1>17, GotoStep DEF FinishState, ThreadsOK
<1>18. CASE FinishCur(t)
  BY <1>0, <1>18, GotoStep DEF FinishCur, ThreadsOK
<1>19. CASE FinishResult(t)
  <2> DEFINE done == [loc[t] EXCEPT !.abort = FALSE, !.doNext = FALSE]
             next == [done EXCEPT !.sp = None]
  <2>1. done \in Locals /\ done.call = loc[t].call /\ done.from = loc[t].from
        /\ done.sp = loc[t].sp /\ done.force = loc[t].force
    <3>1. loc[t] \in Locals
      BY <1>0 DEF ThreadsOK
    <3> QED BY ONLY <3>1 DEF Locals
  <2>2. next \in Locals /\ next.call = loc[t].call /\ next.from = loc[t].from
        /\ next.force = loc[t].force
    <3> HIDE DEF done
    <3> QED BY <2>1 DEF Locals
  <2>3. CASE loc[t].force \/ loc[t].call = "timeout"
    <3>1. loc' = [loc EXCEPT ![t] = done] /\ Goto(t, "schedule") /\ UNCHANGED lock /\ pc[t] = "finishResult"
      BY <1>19, <2>3 DEF FinishResult
    <3> HIDE DEF done
    <3> QED BY <1>0, <2>1, <2>3, <3>1, GotoStep, LocStep DEF ThreadsOK
  <2>4. CASE ~(loc[t].force \/ loc[t].call = "timeout")
    <3>0. loc[t].force = FALSE /\ loc[t].call # "timeout"
      BY <1>0, <2>4 DEF ThreadsOK, Locals
    <3>1. CASE loc[t].doNext
      <4>1. loc' = [loc EXCEPT ![t] = next] /\ Goto(t, "lock") /\ UNCHANGED lock /\ pc[t] = "finishResult"
        BY <1>19, <2>4, <3>1 DEF FinishResult
      <4> HIDE DEF next
      <4> QED BY <1>0, <2>2, <3>0, <4>1, GotoStep, LocStep DEF ThreadsOK
    <3>2. CASE ~loc[t].doNext
      <4>1. Leave(t) /\ UNCHANGED lock /\ pc[t] = "finishResult"
        BY <1>19, <2>4, <3>2 DEF FinishResult
      <4> QED BY <1>0, <3>0, <4>1, LeaveStep DEF ThreadsOK
    <3> QED BY <3>1, <3>2
  <2> QED BY <2>3, <2>4
<1>20. CASE TimeoutMark(t)
  <2> DEFINE l == [loc[t] EXCEPT !.abort = ev[loc[t].sp].abort]
  <2>0. loc[t].sp \in Events
    BY <1>20 DEF TimeoutMark, Control, CallInv
  <2>1. l \in Locals /\ l.call = loc[t].call /\ l.from = loc[t].from
        /\ l.sp = loc[t].sp /\ l.force = loc[t].force
    BY <1>0, <2>0 DEF ThreadsOK, Locals, TypeOK, RecordsOK, EventRecords
  <2>2. loc' = [loc EXCEPT ![t] = l] /\ Goto(t, "finishState") /\ UNCHANGED lock /\ pc[t] = "mark"
    BY <1>0, <1>20 DEF TimeoutMark, ThreadsOK, Locals
  <2> HIDE DEF l
  <2> QED BY <1>0, <2>1, <2>2, GotoStep, LocStep DEF ThreadsOK
<1> QED
  BY <1>1, <1>2, <1>3, <1>4, <1>5, <1>6, <1>7, <1>8, <1>9, <1>10, <1>11, <1>12,
     <1>13, <1>14, <1>15, <1>16, <1>17, <1>18, <1>19, <1>20, <1>cast, <1>tell, <1>read DEF Step

Outside == {"idle", "enqueue", "expire", "remove"}

\* The steps that begin a call, and those of a single thread or of none.
LEMMA OtherStep ==
  ASSUME TypeOK, Control, Next, ~\E t \in Threads : Step(t)
  PROVE  ThreadsOK' /\ (Still \/ \E t \in Threads : Path(t) /\ pc[t] \in Outside)
<1> USE DEF Path, Entered, Goes, Keep, Others, Edges, Labels, Still, Outside
<1>0. ThreadsOK /\ None \notin Threads /\ "main" \in Threads /\ "ordered" \in Threads
  BY ConstantsAssumption DEF TypeOK, Threads
<1>still. ASSUME UNCHANGED <<lock, pc, loc>> PROVE ThreadsOK' /\ Still
  BY <1>0, <1>still DEF ThreadsOK
<1>1. ASSUME NEW e \in Events, ProcessOrderedEvent(e) PROVE ThreadsOK' /\ Path("main") /\ pc["main"] \in Outside
  <2> DEFINE l == [NoLocals EXCEPT !.call = "publish", !.sp = e]
  <2>1. l \in Locals /\ l.force = FALSE /\ l.call = "publish" /\ l.sp = e
    BY NoLocalsType DEF Locals, Calls
  <2>2. /\ pc["main"] = "idle" /\ e \in Publishable /\ UNCHANGED lock
        /\ loc' = [loc EXCEPT !["main"] = l] /\ Goto("main", "enqueue")
    BY <1>1 DEF ProcessOrderedEvent
  <2> HIDE DEF l
  <2> QED BY <1>0, <2>1, <2>2, GotoStep, LocStep DEF ThreadsOK
<1>2. CASE EnqueueOrderedRecord
  <2>1. /\ pc["main"] = "enqueue" /\ UNCHANGED <<lock, loc>> /\ Goto("main", "schedule")
    BY <1>2 DEF EnqueueOrderedRecord
  <2> QED BY <1>0, <2>1, GotoStep DEF ThreadsOK
<1>3. ASSUME NEW o \in owed, NEW abort \in BOOLEAN, FinishReceiver(o, abort)
      PROVE  ThreadsOK' /\ (Still \/ (Path("main") /\ pc["main"] \in Outside))
  <2>1. CASE Matches(o.to)
    <3> DEFINE l == [NoLocals EXCEPT !.call = "finish", !.sp = Head(queue), !.abort = abort]
    <3>1. Head(queue) \in Events
      BY <2>1, HeadTailProperties DEF Matches, TypeOK, LogsOK
    <3>3. l \in Locals /\ l.force = FALSE /\ l.call = "finish" /\ l.sp \in Events
      BY <3>1, NoLocalsType DEF Locals, Calls
    <3>4. /\ pc["main"] = "idle" /\ UNCHANGED lock
          /\ loc' = [loc EXCEPT !["main"] = l] /\ Goto("main", "finishRead")
      BY <1>3, <2>1 DEF FinishReceiver
    <3> HIDE DEF l
    <3>5. ThreadsOK' /\ Others("main") /\ pc'["main"] = "finishRead" /\ loc'["main"] = l
      BY <1>0, <3>3, <3>4, GotoStep, LocStep DEF ThreadsOK
    <3>6. Entered("main")
      BY <3>3, <3>5
    <3> QED BY <3>4, <3>5, <3>6
  <2>2. CASE ~Matches(o.to)
    BY <1>3, <2>2, <1>still DEF FinishReceiver, threadVars
  <2> QED BY <2>1, <2>2
<1>4. ASSUME NEW s \in Subscribers, UnsubscribeCommonEvent(s) PROVE ThreadsOK' /\ Path("main") /\ pc["main"] \in Outside
  <2> DEFINE called == [NoLocals EXCEPT !.call = "unsub", !.from = s]
             l == [called EXCEPT !.sp = Head(queue)]
  <2>1. called \in Locals /\ called.force = FALSE /\ called.call = "unsub" /\ called.from = s
    BY NoLocalsType DEF Locals, Calls
  <2>2. CASE Matches(s)
    <3>1. Head(queue) \in Events
      BY <2>2, HeadTailProperties DEF Matches, TypeOK, LogsOK
    <3>2. l \in Locals /\ l.force = FALSE /\ l.call = "unsub" /\ l.from = s /\ l.sp \in Events
      BY <2>1, <3>1 DEF Locals, TypeOK, RecordsOK, EventRecords
    <3>3. /\ pc["main"] = "idle" /\ UNCHANGED lock
          /\ loc' = [loc EXCEPT !["main"] = l] /\ Goto("main", "finishRead")
      BY <1>4, <2>2 DEF UnsubscribeCommonEvent
    <3> HIDE DEF l, called
    <3>4. ThreadsOK' /\ Others("main") /\ pc'["main"] = "finishRead" /\ loc'["main"] = l
      BY <1>0, <3>2, <3>3, GotoStep, LocStep DEF ThreadsOK
    <3> QED BY <3>2, <3>3, <3>4
  <2>3. CASE ~Matches(s)
    <3>1. /\ pc["main"] = "idle" /\ UNCHANGED lock
          /\ loc' = [loc EXCEPT !["main"] = called] /\ Goto("main", "remove")
      BY <1>4, <2>3 DEF UnsubscribeCommonEvent
    <3> HIDE DEF called
    <3> QED BY <1>0, <2>1, <3>1, GotoStep, LocStep DEF ThreadsOK
  <2> QED BY <2>2, <2>3
<1>5. CASE RemoveSubscriber
  <2>1. /\ pc["main"] = "remove" /\ UNCHANGED lock /\ Goto("main", "idle")
        /\ loc' = [loc EXCEPT !["main"] = NoLocals]
    BY <1>5 DEF RemoveSubscriber
  <2> QED BY <1>0, <2>1, NoLocalsType, GotoStep, LocStep DEF ThreadsOK, Left
<1>6. CASE TakeStart
  <2> DEFINE l == [NoLocals EXCEPT !.call = "start"]
  <2>1. l \in Locals /\ l.force = FALSE /\ l.call = "start"
    BY NoLocalsType DEF Locals, Calls
  <2>2. /\ pc["ordered"] = "idle" /\ UNCHANGED lock
        /\ loc' = [loc EXCEPT !["ordered"] = l] /\ Goto("ordered", "lock")
    BY <1>6 DEF TakeStart
  <2> HIDE DEF l
  <2> QED BY <1>0, <2>1, <2>2, GotoStep, LocStep DEF ThreadsOK
<1>7. CASE TakeTimeout
  <2> DEFINE l == [NoLocals EXCEPT !.call = "timeout"]
  <2>1. l \in Locals /\ l.force = FALSE /\ l.call = "timeout"
    BY NoLocalsType DEF Locals, Calls
  <2>2. /\ pc["ordered"] = "idle" /\ UNCHANGED lock
        /\ loc' = [loc EXCEPT !["ordered"] = l] /\ Goto("ordered", "expire")
    BY <1>7 DEF TakeTimeout
  <2> HIDE DEF l
  <2> QED BY <1>0, <2>1, <2>2, GotoStep, LocStep DEF ThreadsOK
<1>8. CASE TimeoutCheck
  <2>0. pc["ordered"] = "expire" /\ UNCHANGED lock
    BY <1>8 DEF TimeoutCheck
  <2>1. CASE queue = <<>>
    BY <1>0, <1>8, <2>0, <2>1, LeaveStep DEF TimeoutCheck, ThreadsOK
  <2>2. CASE queue # <<>>
    <3> DEFINE e == Head(queue)
               left == TIMEOUT - ev[e].receiverAge
               l == IF left > 0 THEN [loc["ordered"] EXCEPT !.sp = e, !.due = left]
                                ELSE [loc["ordered"] EXCEPT !.sp = e]
               to == IF left > 0 THEN "arm" ELSE "mark"
    <3>1. e \in Events
      BY <2>2, HeadTailProperties DEF TypeOK, LogsOK
    <3>2. left \in 0..TIMEOUT /\ ev[e].next \in Nat
      BY <3>1, ConstantsAssumption DEF TypeOK, RecordsOK, EventRecords
    <3>3. /\ l \in Locals /\ l.call = loc["ordered"].call /\ l.from = loc["ordered"].from
          /\ l.force = loc["ordered"].force /\ l.sp \in Events
      <4> HIDE DEF left, e
      <4>0. loc["ordered"] \in Locals
        BY <1>0 DEF ThreadsOK
      <4>1. CASE left > 0
        BY ONLY <3>1, <3>2, <4>0, <4>1 DEF l, Locals
      <4>2. CASE ~(left > 0)
        BY ONLY <3>1, <3>2, <4>0, <4>2 DEF l, Locals
      <4> QED BY <4>1, <4>2
    <3>4. loc' = [loc EXCEPT !["ordered"] = l] /\ Goto("ordered", to)
      <4>1. CASE left > 0
        BY <1>0, <1>8, <2>2, <4>1 DEF TimeoutCheck, ThreadsOK, Locals
      <4>2. CASE ~(left > 0)
        BY <1>0, <1>8, <2>2, <4>2 DEF TimeoutCheck, ThreadsOK, Locals
      <4> QED BY <4>1, <4>2
    <3> HIDE DEF l, left
    <3> QED BY <1>0, <2>0, <3>3, <3>4, GotoStep, LocStep DEF ThreadsOK
  <2> QED BY <2>1, <2>2
<1>9. CASE Tick
  <2>1. pc' = pc /\ UNCHANGED lock
    BY <1>9 DEF Tick
  <2>2. loc' = [t \in Threads |-> [loc[t] EXCEPT !.due = IF @ > 0 THEN @ - 1 ELSE 0]]
    BY <1>9 DEF Tick
  <2>3. ASSUME NEW t \in Threads PROVE loc'[t] \in Locals /\ Keep(t)
    <3>1. loc[t] \in Locals /\ loc[t].due \in 0..TIMEOUT
      BY <1>0 DEF ThreadsOK, Locals
    <3> DEFINE d == IF loc[t].due > 0 THEN loc[t].due - 1 ELSE 0
    <3>2. d \in 0..TIMEOUT
      BY <3>1, ConstantsAssumption
    <3>3. loc'[t] = [loc[t] EXCEPT !.due = d]
      BY <2>2, <3>1 DEF Locals
    <3> HIDE DEF d
    <3> QED BY <3>1, <3>2, <3>3 DEF Locals
  <2> QED BY <1>0, <2>1, <2>2, <2>3 DEF ThreadsOK
<1>10. ASSUME NEW s \in Subscribers, SubscriberDied(s) \/ SubscribeCommonEvent(s) PROVE ThreadsOK' /\ Still
  BY <1>10, <1>still DEF SubscriberDied, SubscribeCommonEvent, threadVars
<1>11. ASSUME NEW u \in FreezeUids, Freeze(u) \/ Unfreeze(u) PROVE ThreadsOK' /\ Still
  BY <1>11, <1>still DEF Freeze, Unfreeze, threadVars
<1> QED
  BY <1>0, <1>1, <1>2, <1>3, <1>4, <1>5, <1>6, <1>7, <1>8, <1>9, <1>10, <1>11
     DEF Next, MainStep, OrderedStep, Calling

-----------------------------------------------------------------------------
(* Mutual exclusion *)

LEMMA NextPath ==
  ASSUME TypeOK, Control, Next
  PROVE  ThreadsOK' /\ (Still \/ \E t \in Threads : Path(t))
  BY ThreadStep, OtherStep

LEMMA StillStep ==
  ASSUME Control, Mutex, Still
  PROVE  Control' /\ Mutex' /\ \A t \in Threads : Holds(t)' <=> Holds(t)
  BY DEF Still, Keep, Control, CallInv, Mutex, Holds

\* The other thread's part of the invariant is untouched, and the lock with it.
LEMMA PathStep ==
  ASSUME ThreadsOK, LogsOK, Control, Mutex, NEW t \in Threads, Path(t)
  PROVE  Control' /\ Mutex'
<1> USE DEF Going, NextSteps, ScheduleSteps, ArmSteps, FinishSteps
<1>1. ASSUME NEW u \in Threads, u # t
      PROVE  CallInv(u)' /\ (Holds(u)' <=> Holds(u)) /\ (lock = u <=> Holds(u)) /\ u # None
  BY <1>1, ConstantsAssumption DEF Path, Others, Control, CallInv, Holds, Mutex
<1>2. loc[t].force \in BOOLEAN /\ CallInv(t) /\ (lock = t <=> Holds(t)) /\ t # None
  BY ConstantsAssumption DEF ThreadsOK, Locals, Control, Mutex
<1>3. Publishable \subseteq Events
  BY DEF Publishable
<1>4. CallInv(t)'
  <2>1. queue # <<>> => Head(queue) \in Events
    BY HeadTailProperties DEF LogsOK
  <2> QED BY <1>2, <1>3, <2>1 DEF Path, CallInv, Goes, Keep, Left, Entered, Edges
<1>5. lock' = t <=> Holds(t)'
  BY <1>2 DEF Path, CallInv, Holds, Goes, Keep, Left, Entered, Edges
<1>6. ASSUME NEW u \in Threads, u # t PROVE lock' = u <=> lock = u
  <2>1. \/ UNCHANGED lock
        \/ lock = None /\ lock' = t
        \/ lock = t /\ lock' = None
    <3>1. pc[t] \in NextSteps => lock = t
      BY <1>2 DEF Holds
    <3> QED BY <3>1 DEF Path, Goes
  <2> QED BY <1>1, <1>2, <1>6, <2>1
<1> QED BY <1>1, <1>4, <1>5, <1>6 DEF Control, Mutex

-----------------------------------------------------------------------------
(* The records of the events *)

\* What the proofs need of one record.
SoundRecords ==
    {r \in EventRecords : Len(r.delivery) = Len(r.receivers) /\ r.next <= Len(r.receivers)}

LEMMA SoundRecordsOK == RecordsOK <=> ev \in [Events -> SoundRecords]
  BY DEF RecordsOK, SoundRecords

\* Event e keeps its receivers and whose turn it is.
Unturned(e) == ev'[e].next = ev[e].next /\ ev'[e].receivers = ev[e].receivers

LEMMA RecordUpdate ==
  ASSUME RecordsOK, NEW e \in Events, NEW r \in SoundRecords, ev' = [ev EXCEPT ![e] = r]
  PROVE  /\ RecordsOK' /\ ev'[e] = r
         /\ \A f \in Events \ {e} : Unturned(f)
  BY DEF RecordsOK, SoundRecords, Unturned

\* Marking the delivery of a receiver.
LEMMA MarkDelivery ==
  ASSUME RecordsOK, NEW e \in Events, NEW i \in 1..Len(ev[e].receivers), NEW d \in Deliveries
  PROVE  LET marked == [ev[e].delivery EXCEPT ![i] = d]
         IN  marked \in Seq(Deliveries) /\ Len(marked) = Len(ev[e].receivers)
  BY ExceptSeq DEF RecordsOK, EventRecords

\* The steps of a call change a record in some fields; only LoopDispatch
\* moves nextReceiver.
LEMMA StepRecords ==
  ASSUME TypeOK, Control, Turns, NEW t \in Threads, Step(t)
  PROVE  /\ RecordsOK'
         /\ \/ \A e \in Events : Unturned(e)
            \/ /\ LoopDispatch(t) /\ ev'[Head(queue)].next = ev[Head(queue)].next + 1
               /\ ev'[Head(queue)].receivers = ev[Head(queue)].receivers
               /\ \A e \in Events \ {Head(queue)} : Unturned(e)
<1> USE DEF States, Deliveries
<1>0. RecordsOK /\ ThreadsOK /\ None \notin Subscribers /\ (queue # <<>> => Head(queue) \in Events)
  BY ConstantsAssumption, HeadTailProperties DEF TypeOK, LogsOK
<1>00. 0 \in 0..TIMEOUT
  BY ConstantsAssumption
<1>same. ASSUME UNCHANGED ev PROVE RecordsOK' /\ \A e \in Events : Unturned(e)
  BY <1>0, <1>same DEF RecordsOK, Unturned
<1>upd. ASSUME NEW e \in Events, NEW r \in EventRecords, ev' = [ev EXCEPT ![e] = r],
               r.receivers = ev[e].receivers, r.next = ev[e].next,
               Len(r.delivery) = Len(ev[e].receivers)
        PROVE  RecordsOK' /\ \A f \in Events : Unturned(f)
  BY <1>0, <1>upd, RecordUpdate DEF SoundRecords, RecordsOK, Unturned
<1>1. CASE ScheduleTest(t) \/ ScheduleSend(t) \/ ArmTest(t) \/ ArmSet(t) \/ ArmSend(t)
           \/ LockForNext(t) \/ LoopReturn(t) \/ Retire(t) \/ CastReceiver(t) \/ FinishRead(t)
  BY <1>1, <1>same DEF ScheduleTest, ScheduleSend, ArmTest, ArmSet, ArmSend, LockForNext,
                       LoopReturn, Retire, CastReceiver, FinishRead
<1>2. CASE LoopForce(t)
  <2> DEFINE e == Head(queue)
             r == [ev[e] EXCEPT !.receiverAge = 0]
  <2>1. e \in Events /\ ev' = [ev EXCEPT ![e] = r]
    BY <1>0, <1>2 DEF LoopForce
  <2> HIDE DEF e
  <2>2. /\ r \in EventRecords /\ r.receivers = ev[e].receivers /\ r.next = ev[e].next
        /\ Len(r.delivery) = Len(ev[e].receivers)
    BY <1>0, <1>00, <2>1 DEF RecordsOK, EventRecords
  <2> HIDE DEF r
  <2> QED BY <2>1, <2>2, <1>upd
<1>conclude. ASSUME NEW e \in Events, Conclude(t, e)
             PROVE  RecordsOK' /\ \A f \in Events : Unturned(f)
  <2> DEFINE r == [ev[e] EXCEPT !.state = "IDLE", !.resultTo = None]
  <2>1. ev' = [ev EXCEPT ![e] = r]
    BY <1>0, <1>conclude DEF Conclude, RecordsOK
  <2>2. /\ r \in EventRecords /\ r.receivers = ev[e].receivers /\ r.next = ev[e].next
        /\ Len(r.delivery) = Len(ev[e].receivers)
    BY <1>0 DEF RecordsOK, EventRecords
  <2> HIDE DEF r
  <2> QED BY <2>1, <2>2, <1>upd
<1>3. CASE LoopConclude(t)
  BY <1>0, <1>3, <1>conclude DEF LoopConclude
<1>4. CASE ForceConclude(t)
  BY <1>4, <1>conclude DEF ForceConclude, Control, CallInv
<1>5. CASE LoopDispatch(t)
  <2> DEFINE e == Head(queue)
             r == [ev[e] EXCEPT !.next = @ + 1]
  <2>1. e \in Events /\ ev' = [ev EXCEPT ![e] = r] /\ ~Exhausted(e)
    BY <1>0, <1>5 DEF LoopDispatch
  <2> HIDE DEF e
  <2>2. ev[e].next + 1 \in Nat /\ ev[e].next + 1 <= Len(ev[e].receivers)
    BY <1>0, <2>1, LenProperties DEF RecordsOK, EventRecords, Exhausted, NumReceivers
  <2>3. /\ r \in SoundRecords /\ r.receivers = ev[e].receivers /\ r.next = ev[e].next + 1
    BY <1>0, <2>1, <2>2 DEF RecordsOK, EventRecords, SoundRecords
  <2> HIDE DEF r
  <2> QED BY <1>0, <1>5, <2>1, <2>3, RecordUpdate DEF e
<1>6. CASE SetTime(t)
  <2> DEFINE e == loc[t].sp
             age == IF ev[e].next = 1 THEN 0 ELSE ev[e].dispatchAge
             r == [ev[e] EXCEPT !.receiverAge = 0, !.dispatchAge = age]
  <2>1. e \in Events /\ ev' = [ev EXCEPT ![e] = r]
    BY <1>0, <1>6 DEF SetTime, Control, CallInv, RecordsOK
  <2> HIDE DEF e
  <2>3. age \in Nat \cup {Never}
    BY <1>0, <2>1 DEF RecordsOK, EventRecords
  <2> HIDE DEF age
  <2>2. /\ r \in EventRecords /\ r.receivers = ev[e].receivers /\ r.next = ev[e].next
        /\ Len(r.delivery) = Len(ev[e].receivers)
    BY <1>0, <1>00, <2>1, <2>3 DEF RecordsOK, EventRecords
  <2> HIDE DEF r
  <2> QED BY <2>1, <2>2, <1>upd
<1>7. CASE NotifyOrderedEvent(t)
  <2> DEFINE e == loc[t].sp
             i == ev[e].next
             s == ev[e].receivers[i]
  <2>0. e \in Events /\ i \in 1..Len(ev[e].receivers)
    BY <1>7 DEF NotifyOrderedEvent, Control, CallInv, Turns, Giving, NextSteps, Going, NumReceivers
  <2>1. s \in Subscribers
    BY <1>0, <2>0, ElementOfSeq DEF RecordsOK, EventRecords
  <2>skip. ASSUME NEW d \in Deliveries, ev' = [ev EXCEPT ![e].delivery[i] = d]
           PROVE  RecordsOK' /\ \A f \in Events : Unturned(f)
    <3> DEFINE marked == [ev[e].delivery EXCEPT ![i] = d]
               r == [ev[e] EXCEPT !.delivery = marked]
    <3>1. marked \in Seq(Deliveries) /\ Len(marked) = Len(ev[e].receivers)
      BY <1>0, <2>0, MarkDelivery
    <3>2. ev' = [ev EXCEPT ![e] = r]
      BY <2>skip
    <3> HIDE DEF marked, e
    <3>3. /\ r \in EventRecords /\ r.receivers = ev[e].receivers /\ r.next = ev[e].next
          /\ r.delivery = marked
      BY <1>0, <2>0, <3>1 DEF RecordsOK, EventRecords
    <3> HIDE DEF r
    <3> QED BY <2>0, <3>1, <3>2, <3>3, <1>upd
  <2>give. ASSUME NEW c \in Subscribers \cup {None}, NEW st \in States,
                  ev' = [ev EXCEPT ![e].delivery[i] = "DELIVERED", ![e].cur = c, ![e].state = st]
           PROVE  RecordsOK' /\ \A f \in Events : Unturned(f)
    <3> DEFINE marked == [ev[e].delivery EXCEPT ![i] = "DELIVERED"]
               r == [ev[e] EXCEPT !.delivery = marked, !.cur = c, !.state = st]
    <3>1. marked \in Seq(Deliveries) /\ Len(marked) = Len(ev[e].receivers)
      BY <1>0, <2>0, MarkDelivery
    <3>2. ev' = [ev EXCEPT ![e] = r]
      BY <1>0, <2>0, <2>give DEF RecordsOK
    <3> HIDE DEF marked, e
    <3>3. /\ r \in EventRecords /\ r.receivers = ev[e].receivers /\ r.next = ev[e].next
          /\ r.delivery = marked
      BY <1>0, <2>0, <3>1 DEF RecordsOK, EventRecords
    <3> HIDE DEF r
    <3> QED BY <2>0, <3>1, <3>2, <3>3, <1>upd
  <2>2. \/ UNCHANGED ev
        \/ ev' = [ev EXCEPT ![e].delivery[i] = "SKIPPED"]
        \/ ev' = [ev EXCEPT ![e].delivery[i] = "DELIVERED", ![e].cur = None, ![e].state = "RECEIVEING"]
        \/ ev' = [ev EXCEPT ![e].delivery[i] = "DELIVERED", ![e].cur = s, ![e].state = "RECEIVEING"]
    BY <1>7 DEF NotifyOrderedEvent
  <2> HIDE DEF e, i, s
  <2> QED BY <1>same, <2>1, <2>skip, <2>give, <2>2
<1>8. CASE ParkFrozen(t)
  <2> DEFINE e == loc[t].sp
             i == ev[e].next
             marked == [ev[e].delivery EXCEPT ![i] = "SKIPPED"]
             r == [ev[e] EXCEPT !.delivery = marked, !.cur = None]
  <2>0. e \in Events /\ i \in 1..Len(ev[e].receivers)
    BY <1>8 DEF ParkFrozen, Control, CallInv, Turns, Giving, NextSteps, Going, NumReceivers
  <2>1. marked \in Seq(Deliveries) /\ Len(marked) = Len(ev[e].receivers)
    BY <1>0, <2>0, MarkDelivery
  <2>2. ev' = [ev EXCEPT ![e] = r]
    BY <1>0, <1>8, <2>0 DEF ParkFrozen, RecordsOK
  <2> HIDE DEF marked, e
  <2>3. /\ r \in EventRecords /\ r.receivers = ev[e].receivers /\ r.next = ev[e].next
        /\ r.delivery = marked
    BY <1>0, <2>0, <2>1 DEF RecordsOK, EventRecords
  <2> HIDE DEF r
  <2> QED BY <2>0, <2>1, <2>2, <2>3, <1>upd
<1>9. CASE CheckReceiver(t)
  <2>1. CASE UNCHANGED ev
    BY <2>1, <1>same
  <2>2. CASE ev' = [ev EXCEPT ![loc[t].sp].state = "IDLE"]
    <3> DEFINE e == loc[t].sp
               r == [ev[e] EXCEPT !.state = "IDLE"]
    <3>1. e \in Events /\ ev' = [ev EXCEPT ![e] = r]
      BY <1>9, <2>2 DEF CheckReceiver, Control, CallInv
    <3> HIDE DEF e
    <3>2. /\ r \in EventRecords /\ r.receivers = ev[e].receivers /\ r.next = ev[e].next
          /\ Len(r.delivery) = Len(ev[e].receivers)
      BY <1>0, <3>1 DEF RecordsOK, EventRecords
    <3> HIDE DEF r
    <3> QED BY <3>1, <3>2, <1>upd
  <2> QED BY <1>9, <2>1, <2>2 DEF CheckReceiver
<1>tell. CASE TellReceiver(t)
  <2> DEFINE e == loc[t].sp
             r == [ev[e] EXCEPT !.state = "RECEIVED"]
  <2>1. e \in Events /\ ev' = [ev EXCEPT ![e] = r]
    BY <1>tell DEF TellReceiver, Control, CallInv
  <2> HIDE DEF e
  <2>2. /\ r \in EventRecords /\ r.receivers = ev[e].receivers /\ r.next = ev[e].next
        /\ Len(r.delivery) = Len(ev[e].receivers)
    BY <1>0, <2>1 DEF RecordsOK, EventRecords
  <2> HIDE DEF r
  <2> QED BY <2>1, <2>2, <1>upd
<1>10. CASE FinishState(t)
  <2> DEFINE e == loc[t].sp
             r == [ev[e] EXCEPT !.state = "IDLE"]
  <2>1. e \in Events /\ ev' = [ev EXCEPT ![e] = r]
    BY <1>10 DEF FinishState, Control, CallInv
  <2> HIDE DEF e
  <2>2. /\ r \in EventRecords /\ r.receivers = ev[e].receivers /\ r.next = ev[e].next
        /\ Len(r.delivery) = Len(ev[e].receivers)
    BY <1>0, <2>1 DEF RecordsOK, EventRecords
  <2> HIDE DEF r
  <2> QED BY <2>1, <2>2, <1>upd
<1>11. CASE FinishCur(t)
  <2> DEFINE e == loc[t].sp
             r == [ev[e] EXCEPT !.cur = None]
  <2>1. e \in Events /\ ev' = [ev EXCEPT ![e] = r]
    BY <1>11 DEF FinishCur, Control, CallInv
  <2> HIDE DEF e
  <2>2. /\ r \in EventRecords /\ r.receivers = ev[e].receivers /\ r.next = ev[e].next
        /\ Len(r.delivery) = Len(ev[e].receivers)
    BY <1>0, <2>1 DEF RecordsOK, EventRecords
  <2> HIDE DEF r
  <2> QED BY <2>1, <2>2, <1>upd
<1>12. CASE FinishResult(t)
  <2> DEFINE e == loc[t].sp
             r == [ev[e] EXCEPT !.abort = AbortAfter(t)]
  <2>1. e \in Events /\ ev' = [ev EXCEPT ![e] = r]
    BY <1>0, <1>12 DEF FinishResult, Control, CallInv, RecordsOK
  <2> HIDE DEF e
  <2>2. /\ r \in EventRecords /\ r.receivers = ev[e].receivers /\ r.next = ev[e].next
        /\ Len(r.delivery) = Len(ev[e].receivers)
    <3>1. AbortAfter(t) \in BOOLEAN
      BY <1>0, <2>1 DEF AbortAfter, ThreadsOK, Locals, RecordsOK, EventRecords, e
    <3> QED BY <1>0, <2>1, <3>1 DEF RecordsOK, EventRecords
  <2> HIDE DEF r
  <2> QED BY <2>1, <2>2, <1>upd
<1>13. CASE TimeoutMark(t)
  <2> DEFINE e == loc[t].sp
             i == ev[e].next
             marked == [ev[e].delivery EXCEPT ![i] = "TIMEOUT"]
             r == [ev[e] EXCEPT !.delivery = marked]
  <2>0. e \in Events /\ i \in Nat /\ i <= Len(ev[e].receivers) /\ Len(ev[e].receivers) \in Nat
    BY <1>0, <1>13, LenProperties DEF TimeoutMark, Control, CallInv, RecordsOK, EventRecords
  <2>1. CASE i > 0
    <3>1. marked \in Seq(Deliveries) /\ Len(marked) = Len(ev[e].receivers)
      BY <1>0, <2>0, <2>1, MarkDelivery
    <3>2. ev' = [ev EXCEPT ![e] = r]
      BY <1>13, <2>1 DEF TimeoutMark
    <3> HIDE DEF marked, e
    <3>3. /\ r \in EventRecords /\ r.receivers = ev[e].receivers /\ r.next = ev[e].next
          /\ r.delivery = marked
      BY <1>0, <2>0, <3>1 DEF RecordsOK, EventRecords
    <3> HIDE DEF r
    <3> QED BY <2>0, <3>1, <3>2, <3>3, <1>upd
  <2>2. CASE ~(i > 0)
    BY <1>13, <2>2, <1>same DEF TimeoutMark
  <2> QED BY <2>1, <2>2
<1> QED
  BY <1>1, <1>2, <1>3, <1>4, <1>5, <1>6, <1>7, <1>8, <1>9, <1>10, <1>11, <1>12, <1>13,
     <1>tell DEF Step

LEMMA RankingsAreSequences == Rankings \subseteq Seq(Subscribers)
<1>1. Cardinality(Subscribers) \in Nat
  BY ConstantsAssumption, FS_CardinalityType
<1>2. ASSUME NEW n \in 0..Cardinality(Subscribers), NEW r \in [1..n -> Subscribers]
      PROVE  r \in Seq(Subscribers)
  BY <1>1, <1>2, SeqDef
<1> QED BY <1>2 DEF Rankings

LEMMA NewRecordSound ==
  ASSUME NEW e \in Events, NEW r \in Seq(Subscribers)
  PROVE  NewRecord(e, r) \in SoundRecords /\ NewRecord(e, r).next = 0
<1> DEFINE d == [i \in 1..Len(r) |-> "PENDING"]
<1>1. d \in Seq(Deliveries) /\ Len(d) = Len(r) /\ Len(r) \in Nat
  BY LenProperties DEF Deliveries
<1>2. StubListener(e) \in Subscribers \cup {None} /\ TIMEOUT \in 0..TIMEOUT
  BY ConstantsAssumption DEF StubListener
<1>3. NewRecord(e, r) = [receivers |-> r, resultTo |-> StubListener(e), cur |-> None,
     delivery |-> d, next |-> 0, state |-> "IDLE",
     abort |-> FALSE, receiverAge |-> TIMEOUT, dispatchAge |-> Never]
  BY DEF NewRecord
<1> HIDE DEF d
<1> QED BY <1>1, <1>2, <1>3 DEF SoundRecords, EventRecords, States

LEMMA AgedSound ==
  ASSUME RecordsOK, NEW e \in Events
  PROVE  /\ Aged(e) \in SoundRecords
         /\ Aged(e).next = ev[e].next /\ Aged(e).receivers = ev[e].receivers
<1> DEFINE a == Later(ev[e].receiverAge, TIMEOUT)
           b == IF ev[e].dispatchAge = Never THEN Never ELSE Later(ev[e].dispatchAge, ForceLimit(e) + 1)
<1>1. ev[e] \in SoundRecords /\ TIMEOUT \in Nat /\ Len(ev[e].receivers) \in Nat
  BY ConstantsAssumption, LenProperties DEF RecordsOK, SoundRecords, EventRecords
<1>2. ev[e].receiverAge \in 0..TIMEOUT /\ ev[e].dispatchAge \in Nat \cup {Never}
  BY <1>1 DEF SoundRecords, EventRecords
<1>3. a \in 0..TIMEOUT
  BY <1>1, <1>2 DEF Later
<1>4. ForceLimit(e) + 1 \in Nat
  <2>1. \A m, n \in Nat : 2 * m * n + 1 \in Nat
    OBVIOUS
  <2> QED BY <1>1, <2>1 DEF ForceLimit, NumReceivers
<1>5. b \in Nat \cup {Never}
  BY <1>2, <1>4 DEF Later
<1>6. Aged(e) = [ev[e] EXCEPT !.receiverAge = a, !.dispatchAge = b]
  BY <1>1 DEF Aged, SoundRecords, EventRecords
<1> HIDE DEF a, b
<1> QED BY <1>1, <1>3, <1>5, <1>6 DEF SoundRecords, EventRecords

\* The steps outside a call: only publishing changes whose turn it is.
LEMMA OtherRecords ==
  ASSUME TypeOK, Next, ~\E t \in Threads : Step(t)
  PROVE  /\ RecordsOK'
         /\ \/ \A e \in Events : Unturned(e)
            \/ \E e \in Publishable :
                 ProcessOrderedEvent(e) /\ \A f \in Events \ {e} : Unturned(f)
<1>0. RecordsOK
  BY DEF TypeOK
<1>same. ASSUME UNCHANGED ev PROVE RecordsOK' /\ \A e \in Events : Unturned(e)
  BY <1>0, <1>same DEF RecordsOK, Unturned
<1>1. ASSUME NEW e \in Events, ProcessOrderedEvent(e)
      PROVE  RecordsOK' /\ e \in Publishable /\ \A f \in Events \ {e} : Unturned(f)
  <2>1. PICK r \in Rankings : ev' = [ev EXCEPT ![e] = NewRecord(e, r)]
    BY <1>1 DEF ProcessOrderedEvent
  <2>2. NewRecord(e, r) \in SoundRecords
    BY RankingsAreSequences, NewRecordSound
  <2>3. e \in Publishable
    BY <1>1 DEF ProcessOrderedEvent
  <2> QED BY <1>0, <2>1, <2>2, <2>3, RecordUpdate
<1>2. CASE EnqueueOrderedRecord \/ RemoveSubscriber \/ TakeStart \/ TakeTimeout
  BY <1>2, <1>same DEF EnqueueOrderedRecord, RemoveSubscriber, TakeStart, TakeTimeout
<1>3. CASE TimeoutCheck
  <2>1. CASE UNCHANGED ev
    BY <2>1, <1>same
  <2>2. CASE queue # <<>> /\ ev' = [ev EXCEPT ![Head(queue)].receiverAge = 0]
    <3> DEFINE e == Head(queue)
               r == [ev[e] EXCEPT !.receiverAge = 0]
    <3>1. e \in Events /\ ev' = [ev EXCEPT ![e] = r]
      BY <2>2, HeadTailProperties DEF TypeOK, LogsOK
    <3>2. 0 \in 0..TIMEOUT
      BY ConstantsAssumption
    <3> HIDE DEF e
    <3>3. r \in SoundRecords /\ r.receivers = ev[e].receivers /\ r.next = ev[e].next
      BY <1>0, <3>1, <3>2 DEF RecordsOK, SoundRecords, EventRecords
    <3> HIDE DEF r
    <3> QED BY <1>0, <3>1, <3>3, RecordUpdate DEF Unturned
  <2> QED BY <1>3, <2>1, <2>2 DEF TimeoutCheck
<1>4. CASE Tick
  <2>1. ASSUME NEW e \in Events PROVE ev'[e] \in SoundRecords /\ Unturned(e)
    BY <1>0, <1>4, AgedSound, SoundRecordsOK DEF Tick, Unturned
  <2>2. ev' \in [Events -> SoundRecords]
    <3>1. ev' = [e \in Events |-> ev'[e]]
      BY <1>4 DEF Tick
    <3> QED BY <2>1, <3>1
  <2>3. RecordsOK'
    BY <2>2 DEF RecordsOK, SoundRecords
  <2> QED BY <2>1, <2>3
<1>5. ASSUME NEW o \in owed, NEW abort \in BOOLEAN, FinishReceiver(o, abort) PROVE UNCHANGED ev
  BY <1>5 DEF FinishReceiver
<1>6. ASSUME NEW x, \/ UnsubscribeCommonEvent(x) \/ SubscribeCommonEvent(x) \/ SubscriberDied(x)
                   \/ Freeze(x) \/ Unfreeze(x)
      PROVE  UNCHANGED ev
  BY <1>6 DEF UnsubscribeCommonEvent, SubscribeCommonEvent, SubscriberDied, Freeze, Unfreeze
<1>7. "main" \in Threads /\ "ordered" \in Threads
  BY DEF Threads
<1> QED
  BY <1>same, <1>1, <1>2, <1>3, <1>4, <1>5, <1>6, <1>7 DEF Next, MainStep, OrderedStep, Calling

-----------------------------------------------------------------------------
(* Which steps change the other variables *)

\* What the receivers have been told and owe.
toldVars == <<owed, notified>>

LEMMA Writers ==
  ASSUME Next
  PROVE  /\ UNCHANGED queueVars \/ EnqueueOrderedRecord \/ \E t \in Threads : Retire(t)
         /\ \/ UNCHANGED handlerVars
            \/ \E t \in Threads : \/ ScheduleSend(t) \/ ArmSet(t) \/ ArmSend(t)
                                 \/ LoopConclude(t) \/ ForceConclude(t) \/ Retire(t)
            \/ TakeStart \/ TakeTimeout \/ Tick
         /\ \/ UNCHANGED registryVars
            \/ \E t \in Threads : ParkFrozen(t)
            \/ RemoveSubscriber
            \/ \E s \in Subscribers : SubscribeCommonEvent(s) \/ SubscriberDied(s)
            \/ \E u \in FreezeUids : Freeze(u) \/ Unfreeze(u)
         /\ \/ UNCHANGED toldVars
            \/ \E t \in Threads : TellReceiver(t) \/ LoopConclude(t) \/ ForceConclude(t)
            \/ \E o \in owed, abort \in BOOLEAN : FinishReceiver(o, abort)
         /\ UNCHANGED crossed \/ \E t \in Threads : FinishCur(t)
<1> USE DEF queueVars, handlerVars, registryVars, clientVars, toldVars
<1>1. ASSUME NEW t \in Threads, Step(t)
      PROVE  /\ UNCHANGED queueVars \/ Retire(t)
             /\ \/ UNCHANGED handlerVars
                \/ ScheduleSend(t) \/ ArmSet(t) \/ ArmSend(t)
                \/ LoopConclude(t) \/ ForceConclude(t) \/ Retire(t)
             /\ UNCHANGED registryVars \/ ParkFrozen(t)
             /\ UNCHANGED toldVars \/ TellReceiver(t) \/ LoopConclude(t) \/ ForceConclude(t)
             /\ UNCHANGED crossed \/ FinishCur(t)
  BY <1>1 DEF Step, ScheduleTest, ScheduleSend, ArmTest, ArmSet, ArmSend, LockForNext, LoopReturn,
       LoopForce, LoopConclude, ForceConclude, Conclude, Retire, LoopDispatch, SetTime,
       NotifyOrderedEvent, CastReceiver, TellReceiver, ParkFrozen, CheckReceiver,
       FinishRead, FinishState, FinishCur, FinishResult, TimeoutMark
<1>2. CASE EnqueueOrderedRecord \/ RemoveSubscriber \/ TakeStart \/ TakeTimeout \/ TimeoutCheck \/ Tick
  BY <1>2 DEF EnqueueOrderedRecord, RemoveSubscriber, TakeStart, TakeTimeout, TimeoutCheck, Tick
<1>3. CASE Calling
  BY <1>3 DEF Calling, ProcessOrderedEvent, FinishReceiver, UnsubscribeCommonEvent,
              SubscribeCommonEvent, SubscriberDied, Freeze, Unfreeze, Forget
<1>4. "main" \in Threads /\ "ordered" \in Threads
  BY DEF Threads
<1> QED BY <1>1, <1>2, <1>3, <1>4 DEF Next, MainStep, OrderedStep

LEMMA LogsStep ==
  ASSUME IInv, Next
  PROVE  LogsOK'
<1>1. CASE UNCHANGED queueVars
  BY <1>1 DEF IInv, TypeOK, LogsOK, queueVars
<1>2. CASE EnqueueOrderedRecord
  <2>1. loc["main"].sp \in Events
    BY <1>2 DEF EnqueueOrderedRecord, IInv, Control, CallInv, Threads
  <2> QED BY <1>2, <2>1, AppendProperties DEF EnqueueOrderedRecord, IInv, TypeOK, LogsOK
<1>3. ASSUME NEW t \in Threads, Retire(t) PROVE LogsOK'
  <2>1. queue # <<>> /\ loc[t].sp = Head(queue) /\ loc[t].sp \in Events
    BY <1>3 DEF Retire, IInv, AtHead, Holds, NextSteps, Control, CallInv
  <2> DEFINE h == [ev |-> loc[t].sp, delivery |-> ev[loc[t].sp].delivery,
                   abort |-> ev[loc[t].sp].abort]
  <2>2. h \in HistoryRecords
    BY <2>1 DEF IInv, TypeOK, RecordsOK, EventRecords, ThreadsOK, Locals, HistoryRecords
  <2>3. history' = Append(history, h) /\ queue' = Tail(queue) /\ published' = published
    BY <1>3 DEF Retire
  <2> HIDE DEF h
  <2> QED BY <2>1, <2>2, <2>3, HeadTailProperties, AppendProperties DEF IInv, TypeOK, LogsOK
<1> QED BY <1>1, <1>2, <1>3, Writers

Messages == {"START", "TIMEOUT"}

LEMMA StartsAreMessages ==
  ASSUME NEW q \in Seq(Messages)
  PROVE  /\ Starts(q) \in Seq(Messages)
         /\ \A i \in 1..Len(q) : q[i] = "START" => Len(Starts(q)) > 0
         /\ \A i \in 1..Len(Starts(q)) : Starts(q)[i] = "START"
<1> DEFINE S == {j \in 1..Len(q) : q[j] = "START"}
           n == Cardinality(S)
<1>1. IsFiniteSet(S) /\ n \in Nat
  <2>1. Len(q) \in Nat
    BY LenProperties
  <2>2. IsFiniteSet(1..Len(q))
    BY <2>1, FS_Interval
  <2> QED BY <2>2, FS_Subset, FS_CardinalityType
<1>2. Starts(q) = [i \in 1..n |-> "START"]
  BY DEF Starts
<1>3. S # {} => n > 0
  BY <1>1, FS_EmptySet
<1>4. \A i \in 1..Len(q) : q[i] = "START" => S # {}
  OBVIOUS
<1> HIDE DEF S, n
<1> QED BY <1>1, <1>2, <1>3, <1>4 DEF Messages

LEMMA HandlerStep ==
  ASSUME TypeOK, Next
  PROVE  HandlerOK'
<1> USE DEF Messages
<1>0. /\ scheduled \in BOOLEAN /\ pending \in BOOLEAN /\ inbox \in Seq(Messages)
      /\ timers \in [1..TIMEOUT -> Nat] /\ TIMEOUT \in Nat \ {0} /\ ThreadsOK
  BY ConstantsAssumption DEF TypeOK, HandlerOK
<1>1. CASE UNCHANGED handlerVars
  BY <1>0, <1>1 DEF HandlerOK, handlerVars
<1>2. ASSUME NEW t \in Threads, ScheduleSend(t) PROVE HandlerOK'
  BY <1>0, <1>2, AppendProperties DEF ScheduleSend, HandlerOK
<1>3. ASSUME NEW t \in Threads, ArmSet(t) PROVE HandlerOK'
  BY <1>0, <1>3 DEF ArmSet, HandlerOK
<1>4. ASSUME NEW t \in Threads, ArmSend(t) PROVE HandlerOK'
  <2>1. loc[t].due \in 0..TIMEOUT
    BY <1>0 DEF ThreadsOK, Locals
  <2>2. CASE loc[t].due = 0
    <3>1. inbox' = Append(inbox, "TIMEOUT") /\ UNCHANGED <<scheduled, pending, timers>>
      BY <1>4, <2>2 DEF ArmSend
    <3> QED BY <1>0, <3>1, AppendProperties DEF HandlerOK
  <2>3. CASE loc[t].due # 0
    <3>1. timers' = [timers EXCEPT ![loc[t].due] = @ + 1] /\ UNCHANGED <<scheduled, pending, inbox>>
      BY <1>4, <2>3 DEF ArmSend
    <3> QED BY <1>0, <2>1, <2>3, <3>1 DEF HandlerOK
  <2> QED BY <2>2, <2>3
<1>5. ASSUME NEW t \in Threads, LoopConclude(t) \/ ForceConclude(t) PROVE HandlerOK'
  BY <1>0, <1>5 DEF LoopConclude, ForceConclude, Conclude, HandlerOK
<1>6. ASSUME NEW t \in Threads, Retire(t) PROVE HandlerOK'
  <2>1. NoTimers \in [1..TIMEOUT -> Nat]
    BY DEF NoTimers
  <2>2. Starts(inbox) \in Seq(Messages)
    BY <1>0, StartsAreMessages
  <2>3. /\ inbox' \in {inbox, Starts(inbox)} /\ timers' \in {timers, NoTimers}
        /\ UNCHANGED <<scheduled, pending>>
    BY <1>6 DEF Retire
  <2> QED BY <1>0, <2>1, <2>2, <2>3 DEF HandlerOK
<1>7. CASE TakeStart \/ TakeTimeout
  <2>1. /\ inbox # <<>> /\ inbox' = Tail(inbox) /\ UNCHANGED timers
        /\ scheduled' \in {scheduled, FALSE} /\ pending' \in {pending, FALSE}
    BY <1>7 DEF TakeStart, TakeTimeout
  <2>2. Tail(inbox) \in Seq(Messages)
    BY <1>0, <2>1, HeadTailProperties
  <2> QED BY <1>0, <2>1, <2>2 DEF HandlerOK
<1>8. CASE Tick
  <2>1. timers' \in [1..TIMEOUT -> Nat]
    <3>1. timers' = [d \in 1..TIMEOUT |-> IF d < TIMEOUT THEN timers[d + 1] ELSE 0]
      BY <1>8 DEF Tick
    <3>2. ASSUME NEW d \in 1..TIMEOUT PROVE (IF d < TIMEOUT THEN timers[d + 1] ELSE 0) \in Nat
      <4>1. d < TIMEOUT => d + 1 \in 1..TIMEOUT
        BY <1>0
      <4> QED BY <1>0, <4>1
    <3> QED BY <3>1, <3>2
  <2> DEFINE q == [i \in 1..timers[1] |-> "TIMEOUT"]
  <2>2. timers[1] \in Nat
    BY <1>0
  <2>3. q \in Seq(Messages)
    BY <2>2
  <2>4. inbox' = inbox \o q /\ UNCHANGED <<scheduled, pending>>
    BY <1>8 DEF Tick
  <2> HIDE DEF q
  <2> QED BY <1>0, <2>1, <2>3, <2>4, ConcatProperties DEF HandlerOK
<1> QED
  BY <1>1, <1>2, <1>3, <1>4, <1>5, <1>6, <1>7, <1>8, Writers

\* ORDERED_EVENT_START, once sent, is only taken out by the handler:
\* RemoveEvent(ORDERED_EVENT_TIMEOUT) and later messages leave it in the queue.
StartDue(q) == \E i \in 1..Len(q) : q[i] = "START"

LEMMA StartStays ==
  ASSUME NEW q \in Seq(Messages), NEW r \in Seq(Messages), StartDue(q)
  PROVE  StartDue(Starts(q)) /\ StartDue(q \o r)
<1>1. PICK i \in 1..Len(q) : q[i] = "START"
  BY DEF StartDue
<1>2. Len(Starts(q)) > 0 /\ \A j \in 1..Len(Starts(q)) : Starts(q)[j] = "START"
  BY <1>1, StartsAreMessages
<1>3. Len(Starts(q)) \in Nat /\ Len(q) \in Nat /\ Len(r) \in Nat
  BY StartsAreMessages, LenProperties
<1>4. Len(q \o r) = Len(q) + Len(r) /\ (q \o r)[i] = q[i]
  BY <1>1, ConcatProperties
<1>5. 1 \in 1..Len(Starts(q)) /\ i \in 1..Len(q \o r)
  BY <1>2, <1>3, <1>4
<1> QED BY <1>1, <1>2, <1>4, <1>5 DEF StartDue

LEMMA StartNotLostStep ==
  ASSUME TypeOK, StartNotLost, Next
  PROVE  StartNotLost'
<1> USE DEF Messages
<1>0. inbox \in Seq(Messages) /\ (scheduled => StartDue(inbox))
  BY DEF TypeOK, HandlerOK, StartNotLost, StartDue
<1>1. CASE UNCHANGED handlerVars
  BY <1>1 DEF StartNotLost, handlerVars
<1>2. ASSUME NEW t \in Threads, ScheduleSend(t) PROVE StartNotLost'
  <2>1. inbox' = Append(inbox, "START")
    BY <1>2 DEF ScheduleSend
  <2>2. Len(inbox') = Len(inbox) + 1 /\ inbox'[Len(inbox) + 1] = "START" /\ Len(inbox) \in Nat
    BY <1>0, <2>1, AppendProperties, LenProperties
  <2> QED BY <2>2 DEF StartNotLost
<1>3. ASSUME NEW t \in Threads, ArmSet(t) PROVE StartNotLost'
  BY <1>3 DEF ArmSet, StartNotLost
<1>4. ASSUME NEW t \in Threads, ArmSend(t) PROVE StartNotLost'
  <2>1. (inbox' = inbox \/ inbox' = Append(inbox, "TIMEOUT")) /\ UNCHANGED scheduled
    BY <1>4 DEF ArmSend
  <2>2. Append(inbox, "TIMEOUT") = inbox \o <<"TIMEOUT">> /\ <<"TIMEOUT">> \in Seq(Messages)
    BY <1>0, AppendIsConcat
  <2> QED BY <1>0, <2>1, <2>2, StartStays DEF StartNotLost, StartDue
<1>5. ASSUME NEW t \in Threads, LoopConclude(t) \/ ForceConclude(t) PROVE StartNotLost'
  BY <1>5 DEF LoopConclude, ForceConclude, Conclude, StartNotLost
<1>6. ASSUME NEW t \in Threads, Retire(t) PROVE StartNotLost'
  <2>1. inbox' \in {inbox, Starts(inbox)} /\ UNCHANGED scheduled
    BY <1>6 DEF Retire
  <2>2. <<>> \in Seq(Messages)
    BY EmptySeq
  <2> QED BY <1>0, <2>1, <2>2, StartStays DEF StartNotLost, StartDue
<1>7. CASE TakeStart
  BY <1>7 DEF TakeStart, StartNotLost
<1>8. CASE TakeTimeout
  <2>1. inbox # <<>> /\ Head(inbox) = "TIMEOUT" /\ inbox' = Tail(inbox) /\ UNCHANGED scheduled
    BY <1>8 DEF TakeTimeout
  <2>2. ASSUME scheduled PROVE StartDue(Tail(inbox))
    <3>1. PICK i \in 1..Len(inbox) : inbox[i] = "START"
      BY <1>0, <2>2 DEF StartDue
    <3>2. /\ Head(inbox) = inbox[1] /\ Len(Tail(inbox)) = Len(inbox) - 1
          /\ \A j \in 1..Len(Tail(inbox)) : Tail(inbox)[j] = inbox[j + 1]
      BY <1>0, <2>1, HeadTailProperties
    <3>3. i - 1 \in 1..Len(Tail(inbox)) /\ (i - 1) + 1 = i
      BY <1>0, <2>1, <3>1, <3>2, LenProperties
    <3> QED BY <3>1, <3>2, <3>3 DEF StartDue
  <2> QED BY <2>1, <2>2 DEF StartNotLost, StartDue
<1>9. CASE Tick
  <2> DEFINE q == [i \in 1..timers[1] |-> "TIMEOUT"]
  <2>1. timers[1] \in Nat
    BY ConstantsAssumption DEF TypeOK, HandlerOK
  <2>2. q \in Seq(Messages)
    BY <2>1
  <2>3. inbox' = inbox \o q /\ UNCHANGED scheduled
    BY <1>9 DEF Tick
  <2> HIDE DEF q
  <2> QED BY <1>0, <2>2, <2>3, StartStays DEF StartNotLost, StartDue
<1> QED
  BY <1>1, <1>2, <1>3, <1>4, <1>5, <1>6, <1>7, <1>8, <1>9, Writers

LEMMA RegistryStep ==
  ASSUME IInv, Next
  PROVE  RegistryOK'
<1>0. RegistryOK /\ RecordsOK
  BY DEF IInv, TypeOK
<1>1. CASE UNCHANGED registryVars
  BY <1>0, <1>1 DEF RegistryOK, registryVars
<1>2. ASSUME NEW t \in Threads, ParkFrozen(t) PROVE RegistryOK'
  <2> DEFINE e == loc[t].sp
             s == ev[e].receivers[ev[e].next]
  <2>1. e \in Events /\ ev[e].next \in 1..Len(ev[e].receivers)
    BY <1>2 DEF ParkFrozen, IInv, Control, CallInv, Turns, Giving, NextSteps, Going, NumReceivers
  <2>2. s \in Subscribers
    BY <1>0, <2>1, ElementOfSeq DEF RecordsOK, EventRecords
  <2>3. parked' = parked \cup {<<s, e>>} /\ UNCHANGED <<sub, frozen, replay>>
    BY <1>2 DEF ParkFrozen
  <2> HIDE DEF e, s
  <2> QED BY <1>0, <2>1, <2>2, <2>3 DEF RegistryOK
<1>3. ASSUME NEW s \in Subscribers, Forget(s) PROVE RegistryOK'
  BY <1>0, <1>3 DEF Forget, RegistryOK
<1>4. CASE RemoveSubscriber
  <2>1. loc["main"].from \in Subscribers
    BY <1>4 DEF RemoveSubscriber, IInv, Control, CallInv, Threads
  <2> QED BY <1>1, <1>3, <1>4, <2>1 DEF RemoveSubscriber
<1>5. ASSUME NEW s \in Subscribers, SubscribeCommonEvent(s) \/ SubscriberDied(s) PROVE RegistryOK'
  <2>1. CASE SubscribeCommonEvent(s)
    BY <1>0, <2>1 DEF SubscribeCommonEvent, RegistryOK
  <2>2. CASE SubscriberDied(s)
    BY <1>3, <2>2 DEF SubscriberDied
  <2> QED BY <1>5, <2>1, <2>2
<1>6. ASSUME NEW u \in FreezeUids, Freeze(u) \/ Unfreeze(u) PROVE RegistryOK'
  BY <1>0, <1>6 DEF Freeze, Unfreeze, RegistryOK
<1> QED BY <1>1, <1>2, <1>4, <1>5, <1>6, Writers

\* What Conclude does to the clients, when it is reached.
LEMMA ConcludeClients ==
  ASSUME IInv, NEW t \in Threads, LoopConclude(t) \/ ForceConclude(t)
  PROVE  /\ queue # <<>> /\ Head(queue) \in Events /\ Conclude(t, Head(queue))
         /\ Holds(t) /\ pc'[t] = "retire" /\ loc'[t].sp = Head(queue) /\ Others(t)
         /\ pc[t] \in {"loop", "settle"}
         /\ ClientsOK'
<1>1. /\ queue # <<>> /\ Conclude(t, Head(queue))
      /\ pc[t] \in {"loop", "settle"} /\ Holds(t)
  BY DEF LoopConclude, ForceConclude, IInv, AtHead, Holds, NextSteps
<1>2. Head(queue) \in Events
  BY <1>1, HeadTailProperties DEF IInv, TypeOK, LogsOK
<1>3. Path(t)
  <2>1. Step(t)
    BY DEF Step
  <2> QED BY <2>1, ThreadStep DEF IInv
<1>4. pc'[t] = "retire" /\ loc'[t].sp = Head(queue)
  BY <1>1 DEF Conclude, Goto, IInv, TypeOK, ThreadsOK, Locals
<1>5. ClientsOK'
  <2> DEFINE e == Head(queue)
  <2>1. CASE ev[e].resultTo # None
    <3> DEFINE o == [to |-> ev[e].resultTo, ev |-> e, idx |-> NumReceivers(e) + 1]
    <3>1. /\ owed' = owed \cup {o} /\ notified' = [notified EXCEPT ![e] = @ \cup {NumReceivers(e) + 1}]
          /\ UNCHANGED crossed
      BY <1>1, <2>1 DEF Conclude
    <3>2. NumReceivers(e) + 1 \in Nat
      BY <1>2, LenProperties DEF NumReceivers, IInv, TypeOK, RecordsOK, EventRecords
    <3>3. o \in Notifications
      BY <1>2, <2>1, <3>2 DEF Notifications, IInv, TypeOK, RecordsOK, EventRecords
    <3> HIDE DEF o
    <3> QED BY <1>2, <3>1, <3>2, <3>3 DEF IInv, TypeOK, ClientsOK
  <2>2. CASE ev[e].resultTo = None
    BY <1>1, <2>2 DEF Conclude, IInv, TypeOK, ClientsOK
  <2> QED BY <2>1, <2>2
<1> QED BY <1>1, <1>2, <1>3, <1>4, <1>5 DEF Path

LEMMA ClientStep ==
  ASSUME IInv, Next
  PROVE  ClientsOK'
<1>0. ClientsOK
  BY DEF IInv, TypeOK
<1>1. CASE UNCHANGED toldVars /\ UNCHANGED crossed
  BY <1>0, <1>1 DEF ClientsOK, toldVars
<1>2. ASSUME NEW t \in Threads, TellReceiver(t) PROVE ClientsOK'
  <2> DEFINE e == loc[t].sp
             i == ev[e].next
             o == [to |-> ev[e].receivers[i], ev |-> e, idx |-> i]
  <2>1. e \in Events /\ i \in 1..Len(ev[e].receivers)
    BY <1>2 DEF TellReceiver, IInv, Control, CallInv, Turns, Giving, NextSteps, Going, NumReceivers
  <2>2. ev[e].receivers[i] \in Subscribers /\ i \in Nat
    BY <2>1, ElementOfSeq DEF IInv, TypeOK, RecordsOK, EventRecords
  <2>3. o \in Notifications
    BY <2>1, <2>2 DEF Notifications
  <2>4. owed' = owed \cup {o} /\ notified' = [notified EXCEPT ![e] = @ \cup {i}] /\ UNCHANGED crossed
    BY <1>2 DEF TellReceiver
  <2> HIDE DEF e, i, o
  <2> QED BY <1>0, <2>1, <2>2, <2>3, <2>4 DEF ClientsOK
<1>cross. ASSUME NEW t \in Threads, FinishCur(t) PROVE ClientsOK'
  <2> DEFINE e == loc[t].sp
  <2>1. e \in Events
    BY <1>cross DEF FinishCur, IInv, Control, CallInv
  <2>2. ev[e].next \in Nat
    BY <2>1 DEF IInv, TypeOK, RecordsOK, EventRecords
  <2>3. /\ UNCHANGED <<owed, notified>>
        /\ crossed' = crossed \/ crossed' = [crossed EXCEPT ![e] = @ \cup {ev[e].next}]
    BY <1>cross DEF FinishCur
  <2> HIDE DEF e
  <2> QED BY <1>0, <2>1, <2>2, <2>3 DEF ClientsOK
<1>3. ASSUME NEW t \in Threads, LoopConclude(t) \/ ForceConclude(t) PROVE ClientsOK'
  BY <1>3, ConcludeClients
<1>4. ASSUME NEW o \in owed, NEW abort \in BOOLEAN, FinishReceiver(o, abort) PROVE ClientsOK'
  BY <1>0, <1>4 DEF FinishReceiver, ClientsOK
<1> QED BY <1>1, <1>2, <1>cross, <1>3, <1>4, Writers

-----------------------------------------------------------------------------
(* The inductive step *)

LEMMA ControlStep ==
  ASSUME IInv, Next
  PROVE  ThreadsOK' /\ Control' /\ Mutex'
<1>1. ThreadsOK' /\ (Still \/ \E t \in Threads : Path(t))
  BY NextPath DEF IInv
<1> QED BY <1>1, StillStep, PathStep DEF IInv, TypeOK

\* The queue keeps its head until the lock holder takes it.
LEMMA HeadStep ==
  ASSUME IInv, Next, queue # <<>>
  PROVE  \/ queue' # <<>> /\ Head(queue') = Head(queue)
         \/ \E t \in Threads : Retire(t)
<1>1. CASE UNCHANGED queueVars
  BY <1>1 DEF queueVars
<1>2. CASE EnqueueOrderedRecord
  <2>1. queue' = Append(queue, loc["main"].sp) /\ loc["main"].sp \in Events
    BY <1>2 DEF EnqueueOrderedRecord, IInv, Control, CallInv, Threads
  <2> QED BY <2>1, AppendProperties, LenProperties DEF IInv, TypeOK, LogsOK
<1> QED BY <1>1, <1>2, Writers

\* A thread that holds the lock after a step, not at "loop", was already
\* working on the record, or has just taken the front one.
LEMMA PathHolds ==
  ASSUME IInv, NEW t \in Threads, Path(t), Holds(t)', pc'[t] # "loop"
  PROVE  queue # <<>> /\ loc'[t].sp = Head(queue) /\ pc[t] # "retire"
<1> USE DEF Going, NextSteps, ScheduleSteps, ArmSteps, FinishSteps
<1>1. CallInv(t) /\ (Holds(t) /\ pc[t] # "loop" => queue # <<>> /\ loc[t].sp = Head(queue))
  BY DEF IInv, Control, AtHead
<1> QED BY <1>1 DEF Path, CallInv, Holds, Goes, Keep, Left, Entered, Edges

LEMMA AtHeadStep ==
  ASSUME IInv, Next
  PROVE  AtHead'
<1> SUFFICES ASSUME NEW u \in Threads, Holds(u)', pc'[u] # "loop"
             PROVE  queue' # <<>> /\ loc'[u].sp = Head(queue')
  BY DEF AtHead
<1>1. Mutex' /\ (Still \/ \E t \in Threads : Path(t))
  BY ControlStep, NextPath DEF IInv
<1>2. queue # <<>> /\ loc'[u].sp = Head(queue)
  <2>1. CASE Still
    BY <2>1, StillStep DEF Still, Keep, IInv, AtHead
  <2>2. ASSUME NEW t \in Threads, Path(t), t # u PROVE queue # <<>> /\ loc'[u].sp = Head(queue)
    <3>1. pc'[u] = pc[u] /\ loc'[u] = loc[u]
      BY <2>2 DEF Path, Others
    <3> QED BY <3>1 DEF IInv, AtHead, Holds
  <2>3. CASE Path(u)
    BY <2>3, PathHolds
  <2> QED BY <1>1, <2>1, <2>2, <2>3
<1>3. ASSUME NEW t \in Threads, Retire(t) PROVE FALSE
  <2>1. Path(t) /\ pc[t] = "retire" /\ pc'[t] = "loop"
    <3>1. Step(t)
      BY <1>3 DEF Step
    <3>2. pc[t] = "retire" /\ Goto(t, "loop")
      BY <1>3 DEF Retire
    <3> QED BY <3>1, <3>2, ThreadStep, GotoStep DEF IInv, TypeOK, Labels
  <2>2. Holds(t)'
    BY <2>1 DEF Holds, NextSteps
  <2> QED BY <1>1, <2>1, <2>2 DEF Mutex
<1> QED BY <1>2, <1>3, HeadStep

LEMMA TakeFirst ==
  ASSUME NEW S, NEW a \in Seq(S), NEW q \in Seq(S), q # <<>>
  PROVE  Append(a, Head(q)) \o Tail(q) = a \o q
<1> DEFINE x == Append(a, Head(q)) \o Tail(q)
           y == a \o q
<1>1. Head(q) \in S /\ Tail(q) \in Seq(S) /\ Len(Tail(q)) = Len(q) - 1
      /\ \A i \in 1..Len(Tail(q)) : Tail(q)[i] = q[i + 1]
  BY HeadTailProperties
<1>2. /\ Append(a, Head(q)) \in Seq(S) /\ Len(Append(a, Head(q))) = Len(a) + 1
      /\ \A i \in 1..Len(a) : Append(a, Head(q))[i] = a[i]
      /\ Append(a, Head(q))[Len(a) + 1] = Head(q) /\ Head(q) = q[1]
  BY <1>1, AppendProperties
<1>3. Len(a) \in Nat /\ Len(q) \in Nat \ {0}
  BY LenProperties, EmptySeq
<1>4. x \in Seq(S) /\ y \in Seq(S) /\ Len(x) = Len(a) + Len(q) /\ Len(y) = Len(x)
  BY <1>1, <1>2, <1>3, ConcatProperties
<1>5. ASSUME NEW i \in 1..Len(x) PROVE x[i] = y[i]
  <2>1. x[i] = IF i <= Len(a) + 1 THEN Append(a, Head(q))[i] ELSE Tail(q)[i - (Len(a) + 1)]
    BY <1>1, <1>2, <1>3, <1>4, ConcatProperties
  <2>2. y[i] = IF i <= Len(a) THEN a[i] ELSE q[i - Len(a)]
    BY <1>3, <1>4, ConcatProperties
  <2> QED BY <1>1, <1>2, <1>3, <1>4, <2>1, <2>2
<1> HIDE DEF x, y
<1>6. x = y
  BY <1>4, <1>5, SeqEqual
<1> QED BY <1>6 DEF x, y

LEMMA AddLast ==
  ASSUME NEW S, NEW a \in Seq(S), NEW q \in Seq(S), NEW e \in S
  PROVE  Append(a \o q, e) = a \o Append(q, e)
<1>1. /\ a \o q \in Seq(S) /\ <<e>> \in Seq(S)
      /\ Append(a \o q, e) = (a \o q) \o <<e>> /\ Append(q, e) = q \o <<e>>
  BY ConcatProperties, AppendIsConcat
<1> QED BY <1>1, ConcatAssociative

\* The events in the history.
Gone == [i \in 1..Len(history) |-> history[i].ev]

LEMMA GoneIsSequence ==
  ASSUME NEW h \in Seq(HistoryRecords)
  PROVE  LET gone == [i \in 1..Len(h) |-> h[i].ev]
         IN  gone \in Seq(Events) /\ Len(gone) = Len(h)
<1>1. Len(h) \in Nat
  BY LenProperties
<1>2. ASSUME NEW i \in 1..Len(h) PROVE h[i].ev \in Events
  <2>1. h[i] \in HistoryRecords
    BY ElementOfSeq
  <2> QED BY <2>1 DEF HistoryRecords
<1> QED BY <1>1, <1>2

\* Retire moves the front event to the end of the history.
LEMMA RetireHistory ==
  ASSUME IInv, Next, NEW t \in Threads, Retire(t)
  PROVE  /\ queue # <<>> /\ loc[t].sp = Head(queue) /\ Head(queue) \in Events
         /\ queue' = Tail(queue) /\ published' = published
         /\ Gone' = Append(Gone, Head(queue))
<1> DEFINE h == [ev |-> loc[t].sp, delivery |-> ev[loc[t].sp].delivery,
                 abort |-> ev[loc[t].sp].abort]
<1>0. /\ LogsOK /\ Gone \in Seq(Events) /\ Len(Gone) = Len(history)
  BY GoneIsSequence DEF IInv, TypeOK, LogsOK, Gone
<1>1. queue # <<>> /\ loc[t].sp = Head(queue) /\ Head(queue) \in Events
  BY <1>0, HeadTailProperties DEF Retire, IInv, AtHead, Holds, NextSteps, LogsOK
<1>2. /\ queue' = Tail(queue) /\ published' = published
      /\ history' = Append(history, h) /\ h.ev = Head(queue)
  BY <1>1 DEF Retire
<1>3. h \in HistoryRecords
  BY <1>1 DEF IInv, TypeOK, RecordsOK, EventRecords, ThreadsOK, Locals, HistoryRecords
<1> HIDE DEF h
<1>4. /\ Len(history') = Len(history) + 1 /\ Len(history) \in Nat
      /\ \A i \in 1..Len(history) : history'[i] = history[i]
      /\ history'[Len(history) + 1] = h
  BY <1>0, <1>2, <1>3, AppendProperties, LenProperties DEF LogsOK
<1>5. /\ Append(Gone, Head(queue)) \in Seq(Events)
      /\ Len(Append(Gone, Head(queue))) = Len(history) + 1
      /\ \A i \in 1..Len(history) : Append(Gone, Head(queue))[i] = history[i].ev
      /\ Append(Gone, Head(queue))[Len(history) + 1] = Head(queue)
  BY <1>0, <1>1, AppendProperties DEF Gone
<1>6. Gone' \in Seq(Events) /\ Len(Gone') = Len(history) + 1
  <2>1. history' \in Seq(HistoryRecords)
    BY LogsStep DEF LogsOK
  <2> QED BY <1>4, <2>1, GoneIsSequence DEF Gone
<1>7. \A i \in 1..Len(history) + 1 : Gone'[i] = Append(Gone, Head(queue))[i]
  BY <1>2, <1>4, <1>5 DEF Gone
<1>8. Gone' = Append(Gone, Head(queue))
  BY <1>5, <1>6, <1>7, SeqEqual
<1> QED BY <1>1, <1>2, <1>8

LEMMA QueueOrderStep ==
  ASSUME IInv, Next
  PROVE  QueueOrder'
<1>0. /\ LogsOK /\ queue \in Seq(Events) /\ published = Gone \o queue
      /\ Gone \in Seq(Events) /\ Len(Gone) = Len(history)
  BY GoneIsSequence DEF IInv, TypeOK, LogsOK, QueueOrder, Gone
<1>1. CASE UNCHANGED queueVars
  BY <1>1 DEF queueVars, IInv, QueueOrder
<1>2. CASE EnqueueOrderedRecord
  <2> DEFINE e == loc["main"].sp
  <2>1. e \in Events
    BY <1>2 DEF EnqueueOrderedRecord, IInv, Control, CallInv, Threads
  <2>2. queue' = Append(queue, e) /\ published' = Append(published, e) /\ history' = history
    BY <1>2 DEF EnqueueOrderedRecord
  <2> HIDE DEF e
  <2>3. published' = Gone \o queue'
    <3>1. Append(Gone \o queue, e) = Gone \o Append(queue, e)
      BY ONLY <1>0, <2>1, AddLast
    <3> QED BY <1>0, <2>2, <3>1
  <2> QED BY <2>2, <2>3 DEF QueueOrder, Gone
<1>3. ASSUME NEW t \in Threads, Retire(t) PROVE QueueOrder'
  <2>1. published' = Gone' \o queue'
    BY <1>0, <1>3, RetireHistory, TakeFirst DEF LogsOK
  <2> QED BY <2>1 DEF QueueOrder, Gone
<1> QED BY <1>1, <1>2, <1>3, Writers

\* Events in the queue are published, and differ from each other.
LEMMA QueueDistinct ==
  ASSUME IInv
  PROVE  /\ \A i \in 1..Len(queue) : queue[i] \in Events \ Publishable
         /\ \A i, j \in 1..Len(queue) : queue[i] = queue[j] => i = j
<1> DEFINE n == Len(Gone)
<1>1. /\ queue \in Seq(Events) /\ Gone \in Seq(Events) /\ published = Gone \o queue
  BY GoneIsSequence DEF IInv, TypeOK, LogsOK, QueueOrder, Gone
<1>2. /\ n \in Nat /\ Len(queue) \in Nat /\ Len(published) = n + Len(queue)
      /\ \A i \in 1..Len(queue) : queue[i] \in Events /\ published[n + i] = queue[i]
  BY ONLY <1>1, ConcatProperties, LenProperties, ElementOfSeq
<1> HIDE DEF n
<1>3. ASSUME NEW i \in 1..Len(queue) PROVE n + i \in 1..Len(published)
  BY <1>2
<1>4. ASSUME NEW i \in 1..Len(queue), NEW j \in 1..Len(queue), queue[i] = queue[j] PROVE i = j
  <2>1. n + i = n + j
    BY <1>2, <1>3, <1>4 DEF IInv, Fresh
  <2> QED BY <1>2, <2>1
<1>5. ASSUME NEW i \in 1..Len(queue) PROVE queue[i] \in Events \ Publishable
  BY <1>2, <1>3 DEF Publishable
<1> QED BY <1>4, <1>5

LEMMA HeadOfQueue ==
  ASSUME IInv, queue # <<>>
  PROVE  Head(queue) \in Events \ Publishable /\ 1 \in 1..Len(queue) /\ Head(queue) = queue[1]
  BY QueueDistinct, HeadTailProperties, EmptySeq DEF IInv, TypeOK, LogsOK

\* Only one thread can be inside ProcessNextOrderedEvent.
LEMMA OneHolder ==
  ASSUME Mutex, NEW t \in Threads, NEW u \in Threads, Holds(t), Holds(u)
  PROVE  t = u
  BY DEF Mutex

\* How the set of notified receivers grows.
LEMMA NotifiedStep ==
  ASSUME IInv, Next
  PROVE  \/ UNCHANGED notified
         \/ \E t \in Threads :
              /\ Holds(t) /\ pc[t] # "retire" /\ queue # <<>>
              /\ \/ /\ pc'[t] = "check" /\ ev[Head(queue)].next \in 1..NumReceivers(Head(queue))
                    /\ ev[Head(queue)].next \notin notified[Head(queue)]
                    /\ notified' = [notified EXCEPT ![Head(queue)] = @ \cup {ev[Head(queue)].next}]
                 \/ /\ pc'[t] = "retire" /\ loc'[t].sp = Head(queue)
                    /\ notified' = [notified EXCEPT ![Head(queue)] = @ \cup {NumReceivers(Head(queue)) + 1}]
<1>1. CASE UNCHANGED toldVars
  BY <1>1 DEF toldVars
<1>2. ASSUME NEW t \in Threads, TellReceiver(t)
      PROVE  /\ Holds(t) /\ pc[t] = "tell" /\ queue # <<>>
             /\ pc'[t] = "check" /\ ev[Head(queue)].next \in 1..NumReceivers(Head(queue))
             /\ ev[Head(queue)].next \notin notified[Head(queue)]
             /\ notified' = [notified EXCEPT ![Head(queue)] = @ \cup {ev[Head(queue)].next}]
  <2>1. /\ pc[t] = "tell" /\ Goto(t, "check")
        /\ notified' = [notified EXCEPT ![loc[t].sp] = @ \cup {ev[loc[t].sp].next}]
    BY <1>2 DEF TellReceiver
  <2>2. Holds(t) /\ Giving(t)
    BY <2>1 DEF Holds, NextSteps, Giving, IInv, Control, CallInv, Going
  <2>3. queue # <<>> /\ loc[t].sp = Head(queue)
    BY <2>1, <2>2 DEF IInv, AtHead
  <2> QED BY <2>1, <2>2, <2>3, GotoStep DEF IInv, Turns, TypeOK, Labels
<1>3. ASSUME NEW t \in Threads, LoopConclude(t) \/ ForceConclude(t), ~UNCHANGED notified
      PROVE  /\ Holds(t) /\ pc[t] # "retire" /\ queue # <<>>
             /\ pc'[t] = "retire" /\ loc'[t].sp = Head(queue)
             /\ notified' = [notified EXCEPT ![Head(queue)] = @ \cup {NumReceivers(Head(queue)) + 1}]
  BY <1>3, ConcludeClients DEF Conclude, toldVars
<1>4. ASSUME NEW o \in owed, NEW abort \in BOOLEAN, FinishReceiver(o, abort) PROVE UNCHANGED notified
  BY <1>4 DEF FinishReceiver
<1> QED BY <1>1, <1>2, <1>3, <1>4, Writers

\* A receiver that is notified comes after all that were.
LEMMA NotifyStepHolds ==
  ASSUME IInv, Next, NEW e \in Events
  PROVE  NotifyStep(e)
<1> SUFFICES ASSUME notified'[e] # notified[e]
             PROVE  /\ queue # <<>> /\ e = Head(queue)
                    /\ \E i \in notified'[e] :
                          notified'[e] = notified[e] \cup {i} /\ \A j \in notified[e] : j < i
  BY DEF NotifyStep
<1>1. notified \in [Events -> SUBSET Nat] /\ RecordsOK
  BY DEF IInv, TypeOK, ClientsOK
<1>2. PICK t \in Threads :
         /\ Holds(t) /\ pc[t] # "retire" /\ queue # <<>>
         /\ \/ /\ ev[Head(queue)].next \in 1..NumReceivers(Head(queue))
               /\ ev[Head(queue)].next \notin notified[Head(queue)]
               /\ notified' = [notified EXCEPT ![Head(queue)] = @ \cup {ev[Head(queue)].next}]
            \/ notified' = [notified EXCEPT ![Head(queue)] = @ \cup {NumReceivers(Head(queue)) + 1}]
  BY NotifiedStep
<1>3. e = Head(queue) /\ queue # <<>> /\ e = queue[1] /\ 1 \in 1..Len(queue)
  BY <1>1, <1>2, HeadOfQueue
<1>4. ~Retiring(e)
  BY <1>2, OneHolder DEF Retiring, Holds, NextSteps, IInv
<1>5. NumReceivers(e) + 1 \notin notified[e]
  BY <1>3, <1>4 DEF IInv, Turns
<1>6. /\ ev[e].next \in Nat /\ NumReceivers(e) \in Nat /\ ev[e].next <= NumReceivers(e)
  BY <1>1, LenProperties DEF RecordsOK, EventRecords, NumReceivers
<1>7. \A j \in notified[e] : j \in 1..ev[e].next
  BY <1>5 DEF IInv, Turns
<1>8. CASE /\ ev[e].next \notin notified[e]
           /\ notified'[e] = notified[e] \cup {ev[e].next}
  BY <1>3, <1>6, <1>7, <1>8
<1>9. CASE notified'[e] = notified[e] \cup {NumReceivers(e) + 1}
  <2>1. \A j \in notified[e] : j < NumReceivers(e) + 1
    BY <1>6, <1>7
  <2> QED BY <1>3, <1>9, <2>1
<1> QED BY <1>1, <1>2, <1>3, <1>8, <1>9

LEMMA RecordsStep ==
  ASSUME IInv, Next
  PROVE  /\ RecordsOK'
         /\ \/ \A e \in Events : Unturned(e)
            \/ \E t \in Threads :
                 /\ LoopDispatch(t) /\ ev'[Head(queue)].next = ev[Head(queue)].next + 1
                 /\ ev'[Head(queue)].receivers = ev[Head(queue)].receivers
                 /\ \A e \in Events \ {Head(queue)} : Unturned(e)
            \/ \E e \in Publishable :
                 ProcessOrderedEvent(e) /\ \A f \in Events \ {e} : Unturned(f)
<1>1. CASE \E t \in Threads : Step(t)
  BY <1>1, StepRecords DEF IInv
<1>2. CASE ~\E t \in Threads : Step(t)
  BY <1>2, OtherRecords DEF IInv
<1> QED BY <1>1, <1>2

\* Threads leave "retire" and reach "setTime" by one action each.
LEMMA Landmarks ==
  ASSUME IInv, Next, NEW t \in Threads
  PROVE  /\ pc[t] = "retire" => Retire(t) \/ (pc'[t] = "retire" /\ loc'[t].sp = loc[t].sp)
         /\ pc[t] # "setTime" /\ pc'[t] = "setTime" => LoopDispatch(t)
<1>0. pc \in [Threads -> Labels] /\ loc \in [Threads -> Locals]
  BY DEF IInv, TypeOK, ThreadsOK
<1>1. ASSUME NEW u \in Threads, Step(u), u # t PROVE pc'[t] = pc[t] /\ loc'[t] = loc[t]
  BY <1>1, ThreadStep DEF Path, Others, IInv
<1>2. ASSUME Step(t), pc[t] = "retire" PROVE Retire(t)
  BY <1>2 DEF Step, ScheduleTest, ScheduleSend, ArmTest, ArmSet, ArmSend, LockForNext, LoopReturn,
       LoopForce, LoopConclude, ForceConclude, LoopDispatch, SetTime,
       NotifyOrderedEvent, CastReceiver, TellReceiver, ParkFrozen, CheckReceiver, FinishRead, FinishState, FinishCur, FinishResult, TimeoutMark
<1>3. ASSUME Step(t), pc[t] # "setTime", pc'[t] = "setTime" PROVE LoopDispatch(t)
  <2>1. Path(t)
    BY <1>3, ThreadStep DEF IInv
  <2>2. pc[t] = "loop"
    BY <1>3, <2>1 DEF Path, Edges, Left, Entered, ScheduleSteps, ArmSteps
  <2>3. ~Goto(t, "mark") /\ ~Goto(t, "retire") /\ ~Leave(t)
    BY <1>0, <1>3 DEF Goto, Leave
  <2> QED BY <1>3, <2>2, <2>3
       DEF Step, ScheduleTest, ScheduleSend, ArmTest, ArmSet, ArmSend, LockForNext, LoopReturn,
       LoopForce, LoopConclude, ForceConclude, Conclude, Retire, SetTime,
       NotifyOrderedEvent, CastReceiver, TellReceiver, ParkFrozen, CheckReceiver, FinishRead, FinishState, FinishCur, FinishResult, TimeoutMark
<1>4. CASE ~\E u \in Threads : Step(u)
  <2>1. Still \/ \E u \in Threads : Path(u) /\ pc[u] \in Outside
    BY <1>4, OtherStep DEF IInv
  <2>2. CASE Still
    BY <2>2 DEF Still, Keep
  <2>3. ASSUME NEW u \in Threads, u # t, Path(u) PROVE pc'[t] = pc[t] /\ loc'[t] = loc[t]
    BY <2>3 DEF Path, Others
  <2>4. CASE Path(t) /\ pc[t] \in Outside
    BY <2>4 DEF Path, Edges, Entered, Left, Outside, ScheduleSteps, ArmSteps
  <2> QED BY <2>1, <2>2, <2>3, <2>4
<1>5. CASE Step(t)
  BY <1>2, <1>3, <1>5
<1>6. CASE \E u \in Threads : Step(u) /\ u # t
  BY <1>1, <1>6
<1> QED BY <1>4, <1>5, <1>6

\* An event that was published stays so.
LEMMA PublishableShrinks ==
  ASSUME IInv, Next
  PROVE  Publishable' \subseteq Publishable
<1>0. published \in Seq(Events) /\ Len(published) \in Nat
  BY LenProperties DEF IInv, TypeOK, LogsOK
<1>1. CASE UNCHANGED published
  BY <1>1 DEF Publishable
<1>2. ASSUME NEW e \in Events, published' = Append(published, e)
      PROVE  Publishable' \subseteq Publishable
  <2>1. /\ Len(published') = Len(published) + 1
        /\ \A i \in 1..Len(published) : published'[i] = published[i]
    BY <1>0, <1>2, AppendProperties
  <2> QED BY <1>0, <2>1 DEF Publishable
<1>3. UNCHANGED published \/ \E e \in Events : published' = Append(published, e)
  BY Writers DEF queueVars, Retire, EnqueueOrderedRecord, IInv, Control, CallInv, Threads
<1> QED BY <1>1, <1>2, <1>3

LEMMA FreshStep ==
  ASSUME IInv, Next
  PROVE  Fresh'
<1>0. /\ published \in Seq(Events) /\ Len(published) \in Nat /\ Threads = {"main", "ordered"}
      /\ notified \in [Events -> SUBSET Nat] /\ pc \in [Threads -> Labels]
  BY LenProperties DEF IInv, TypeOK, LogsOK, Threads, ClientsOK, ThreadsOK
<1>1. Publishable' \subseteq Publishable
  BY PublishableShrinks
<1>2. ASSUME NEW e \in Publishable' PROVE notified'[e] = {}
  <2>1. notified[e] = {} /\ e \in Publishable /\ e \in Events
    BY <1>1 DEF IInv, Fresh, Publishable
  <2>2. queue # <<>> => e # Head(queue)
    BY <2>1, HeadOfQueue
  <2> QED BY <2>1, <2>2, NotifyStepHolds DEF NotifyStep
<1>3. CASE UNCHANGED published
  <2>1. Publishable' = Publishable
    BY <1>3 DEF Publishable
  <2>2. pc'["main"] = "enqueue" => loc'["main"].sp \in Publishable
    <3>1. Still \/ Path("main") \/ Path("ordered")
      BY <1>0, NextPath DEF IInv
    <3>2. CASE Still
      BY <1>0, <3>2 DEF Still, Keep, IInv, Fresh
    <3>3. CASE Path("ordered")
      BY <1>0, <3>3 DEF Path, Others, IInv, Fresh
    <3>4. CASE Path("main")
      BY <3>4 DEF Path, Edges, Entered, Left
    <3> QED BY <3>1, <3>2, <3>3, <3>4
  <2> QED BY <1>2, <1>3, <2>1, <2>2 DEF IInv, Fresh
<1>4. CASE EnqueueOrderedRecord
  <2> DEFINE e == loc["main"].sp
  <2>1. e \in Publishable /\ e \in Events /\ published' = Append(published, e) /\ pc'["main"] = "schedule"
    BY <1>0, <1>4 DEF EnqueueOrderedRecord, Goto, IInv, Fresh, Publishable
  <2> HIDE DEF e
  <2>2. /\ Len(published') = Len(published) + 1 /\ published'[Len(published) + 1] = e
        /\ \A i \in 1..Len(published) : published'[i] = published[i] /\ published[i] # e
    BY <1>0, <2>1, AppendProperties DEF Publishable
  <2>3. ASSUME NEW i \in 1..Len(published'), NEW j \in 1..Len(published'), published'[i] = published'[j]
        PROVE  i = j
    <3>1. /\ i \in 1..Len(published) \/ i = Len(published) + 1
          /\ j \in 1..Len(published) \/ j = Len(published) + 1
      BY <1>0, <2>2
    <3> QED BY <2>2, <2>3, <3>1 DEF IInv, Fresh
  <2> QED BY <1>2, <2>1, <2>3 DEF Fresh
<1> QED BY <1>3, <1>4, Writers DEF queueVars, Retire

\* The three parts of Turns, one after the other.
LEMMA NotifiedUpToNext ==
  ASSUME IInv, Next, NEW e \in Events, NEW j \in notified'[e]
  PROVE  j \in 1..ev'[e].next \/ j = NumReceivers(e)' + 1
<1>1. RecordsOK /\ RecordsOK' /\ notified \in [Events -> SUBSET Nat]
  BY RecordsStep DEF IInv, TypeOK, ClientsOK
<1>2. /\ ev[e].next \in Nat /\ ev'[e].next \in Nat
  BY <1>1 DEF RecordsOK, EventRecords
<1>3. CASE j \in notified[e]
  <2>1. /\ ev'[e].receivers = ev[e].receivers
        /\ ev'[e].next \in {ev[e].next, ev[e].next + 1}
    <3>1. e \notin Publishable
      BY <1>3 DEF IInv, Fresh
    <3> QED BY <3>1, RecordsStep DEF Unturned
  <2>2. j \in 1..ev[e].next \/ j = NumReceivers(e) + 1
    BY <1>3 DEF IInv, Turns
  <2> QED BY <1>2, <1>3, <2>1, <2>2 DEF NumReceivers
<1>4. CASE j \notin notified[e]
  <2>1. PICK t \in Threads :
           /\ Holds(t) /\ pc'[t] \in {"check", "retire"} /\ queue # <<>>
           /\ \/ /\ ev[Head(queue)].next \in 1..NumReceivers(Head(queue))
                 /\ notified' = [notified EXCEPT ![Head(queue)] = @ \cup {ev[Head(queue)].next}]
              \/ notified' = [notified EXCEPT ![Head(queue)] = @ \cup {NumReceivers(Head(queue)) + 1}]
    BY <1>4, NotifiedStep
  <2>2. e = Head(queue) /\ e \notin Publishable
    BY <1>1, <1>4, <2>1, HeadOfQueue
  <2>3. Unturned(e)
    <3>1. ASSUME NEW u \in Threads, LoopDispatch(u) PROVE FALSE
      <4>1. pc[u] = "loop" /\ Goto(u, "setTime")
        BY <3>1 DEF LoopDispatch
      <4>2. u = t
        BY <2>1, <4>1, OneHolder DEF Holds, NextSteps, IInv
      <4> QED BY <2>1, <4>1, <4>2, GotoStep DEF IInv, TypeOK, Labels
    <3> QED BY <2>2, <3>1, RecordsStep
  <2>4. \/ j = ev[e].next /\ ev[e].next \in 1..NumReceivers(e)
        \/ j = NumReceivers(e) + 1
    BY <1>1, <1>4, <2>1, <2>2
  <2> QED BY <1>2, <2>3, <2>4 DEF Unturned, NumReceivers
<1> QED BY <1>3, <1>4

LEMMA LastNotifiedRetires ==
  ASSUME IInv, Next, NEW i \in 1..Len(queue'),
         Len(ev'[queue'[i]].receivers) + 1 \in notified'[queue'[i]]
  PROVE  \E t \in Threads : pc'[t] = "retire" /\ loc'[t].sp = queue'[i]
<1> DEFINE e == queue'[i]
<1>0. /\ queue \in Seq(Events) /\ queue' \in Seq(Events) /\ Len(queue) \in Nat
      /\ notified \in [Events -> SUBSET Nat] /\ Threads = {"main", "ordered"} /\ e \in Events
  BY LogsStep, LenProperties, ElementOfSeq DEF IInv, TypeOK, LogsOK, ClientsOK, Threads
\* The event was in the queue: one that is enqueued has not been notified.
<1>1. e \notin Publishable
  <2>1. e \in Publishable => notified'[e] = {}
    <3>1. e \in Publishable => notified[e] = {} /\ (queue # <<>> => e # Head(queue))
      BY HeadOfQueue DEF IInv, Fresh
    <3> QED BY <1>0, <3>1, NotifyStepHolds DEF NotifyStep
  <2> QED BY <2>1
<1>2. ev'[e].receivers = ev[e].receivers
  BY <1>0, <1>1, RecordsStep DEF Unturned
<1>3. PICK k \in 1..Len(queue) : queue[k] = e /\ (k # 1 \/ ~\E t \in Threads : Retire(t))
  <2>1. CASE UNCHANGED queueVars /\ ~\E t \in Threads : Retire(t)
    BY <2>1 DEF queueVars
  <2>2. CASE EnqueueOrderedRecord
    <3>1. /\ loc["main"].sp \in Publishable /\ loc["main"].sp \in Events
          /\ queue' = Append(queue, loc["main"].sp) /\ pc["main"] = "enqueue" /\ lock = None
      BY <2>2 DEF EnqueueOrderedRecord, IInv, Fresh, Publishable
    <3>2. i \in 1..Len(queue) /\ queue[i] = e
      BY <1>0, <1>1, <3>1, AppendProperties
    <3>3. ASSUME NEW t \in Threads, Retire(t) PROVE FALSE
      BY <3>1, <3>3, ConstantsAssumption DEF Retire, IInv, Mutex, Holds, NextSteps
    <3> QED BY <3>2, <3>3
  <2>3. ASSUME NEW t \in Threads, Retire(t)
        PROVE  \E k \in 1..Len(queue) : queue[k] = e /\ k # 1
    <3>1. queue # <<>> /\ queue' = Tail(queue)
      BY <2>3 DEF Retire, IInv, AtHead, Holds, NextSteps
    <3>2. i + 1 \in 1..Len(queue) /\ queue[i + 1] = e /\ i + 1 # 1
      BY <1>0, <3>1, HeadTailProperties
    <3> QED BY <3>2
  <2> QED BY <2>1, <2>2, <2>3, Writers
<1> HIDE DEF e
<1>4. CASE NumReceivers(e) + 1 \in notified[e]
  <2>1. PICK u \in Threads : pc[u] = "retire" /\ loc[u].sp = e
    BY <1>3, <1>4 DEF IInv, Turns, Retiring
  <2>2. e = queue[1] /\ 1 \in 1..Len(queue)
    BY <2>1, HeadOfQueue DEF IInv, AtHead, Holds, NextSteps
  <2>3. k = 1
    BY <1>3, <2>2, QueueDistinct
  <2>4. pc'[u] = "retire" /\ loc'[u].sp = e
    BY <1>3, <2>1, <2>3, Landmarks
  <2> QED BY <2>4 DEF e
<1>5. CASE NumReceivers(e) + 1 \notin notified[e]
  <2>0. NumReceivers(e) + 1 \in notified'[e]
    BY <1>2 DEF NumReceivers, e
  <2>1. PICK t \in Threads :
           /\ queue # <<>>
           /\ \/ /\ ev[Head(queue)].next \in 1..NumReceivers(Head(queue))
                 /\ notified' = [notified EXCEPT ![Head(queue)] = @ \cup {ev[Head(queue)].next}]
              \/ pc'[t] = "retire" /\ loc'[t].sp = Head(queue)
    BY <1>5, <2>0, NotifiedStep
  <2>2. e = Head(queue)
    BY <1>0, <1>5, <2>0, NotifyStepHolds DEF NotifyStep, e
  <2>3. NumReceivers(e) \in Nat
    BY <1>0, LenProperties DEF NumReceivers, IInv, TypeOK, RecordsOK, EventRecords, e
  <2>4. pc'[t] = "retire" /\ loc'[t].sp = e
    BY <1>0, <1>5, <2>0, <2>1, <2>2, <2>3
  <2> QED BY <2>4 DEF e
<1> QED BY <1>4, <1>5

LEMMA GivingStep ==
  ASSUME IInv, Next, NEW t \in Threads, Giving(t)'
  PROVE  /\ ev'[loc'[t].sp].next \in 1..Len(ev'[loc'[t].sp].receivers)
         /\ ev'[loc'[t].sp].next \notin notified'[loc'[t].sp]
<1>0. /\ RecordsOK' /\ RecordsOK /\ ThreadsOK' /\ Control' /\ Mutex' /\ ThreadsOK
      /\ notified \in [Events -> SUBSET Nat]
  BY RecordsStep, ControlStep DEF IInv, TypeOK, ClientsOK
\* Either the turn begins with this step, or it goes on.
<1>1. LoopDispatch(t) \/ (Giving(t) /\ loc'[t].sp = loc[t].sp)
  <2>1. CASE Still
    BY <2>1 DEF Still, Keep, Giving
  <2>2. ASSUME NEW u \in Threads, u # t, Path(u) PROVE Giving(t) /\ loc'[t].sp = loc[t].sp
    BY <2>2 DEF Path, Others, Giving
  <2>3. CASE Path(t)
    <3>1. CASE pc'[t] = "setTime"
      <4>1. pc[t] # "setTime"
        BY <2>3, <3>1 DEF Path, Edges, Left, Entered
      <4> QED BY <3>1, <4>1, Landmarks
    <3>2. CASE pc'[t] # "setTime"
      <4>1. CallInv(t)
        BY DEF IInv, Control
      <4> QED BY <2>3, <3>2, <4>1 DEF Path, Edges, Left, Entered, Giving, ArmSteps, Goes, Keep,
                                        CallInv, NextSteps, Going
    <3> QED BY <3>1, <3>2
  <2> QED BY <2>1, <2>2, <2>3, NextPath DEF IInv
<1>2. CASE LoopDispatch(t)
  <2> DEFINE e == Head(queue)
  <2>1. /\ pc[t] = "loop" /\ queue # <<>> /\ loc' = [loc EXCEPT ![t].sp = e, ![t].timer = pending]
        /\ ev' = [ev EXCEPT ![e].next = @ + 1] /\ UNCHANGED notified /\ ~Exhausted(e)
    BY <1>2 DEF LoopDispatch, clientVars
  <2>2. e \in Events /\ loc'[t].sp = e /\ ~Retiring(e) /\ e = queue[1] /\ 1 \in 1..Len(queue)
    <3>1. Holds(t)
      BY <2>1 DEF Holds, NextSteps
    <3>2. e \in Events /\ e = queue[1] /\ 1 \in 1..Len(queue)
      BY <2>1, HeadOfQueue DEF IInv
    <3>3. ~Retiring(e)
      <4>1. ASSUME NEW u \in Threads, pc[u] = "retire" PROVE FALSE
        <5>1. Holds(u)
          BY <4>1 DEF Holds, NextSteps
        <5> QED BY <2>1, <3>1, <4>1, <5>1, OneHolder DEF IInv
      <4> QED BY <4>1 DEF Retiring
    <3>4. loc'[t].sp = e
      <4>1. loc[t] \in Locals /\ t \in DOMAIN loc
        BY <1>0 DEF ThreadsOK
      <4> HIDE DEF e
      <4> QED BY <2>1, <4>1 DEF Locals
    <3> QED BY <3>2, <3>3, <3>4
  <2>3. /\ ev'[e].next = ev[e].next + 1 /\ ev'[e].receivers = ev[e].receivers
        /\ ev[e].next \in Nat /\ Len(ev[e].receivers) \in Nat /\ ev'[e].next <= Len(ev[e].receivers)
    BY <1>0, <2>1, <2>2, LenProperties DEF RecordsOK, EventRecords
  <2>4. ev'[e].next \notin notified[e]
    BY <2>2, <2>3 DEF IInv, Turns, NumReceivers
  <2> HIDE DEF e
  <2> QED BY <2>1, <2>2, <2>3, <2>4 DEF NumReceivers
<1>3. CASE Giving(t) /\ loc'[t].sp = loc[t].sp
  <2> DEFINE e == loc[t].sp
  <2>1. Holds(t) /\ pc[t] # "loop"
    BY <1>3 DEF Giving, Holds, NextSteps, ArmSteps, IInv, Control, CallInv
  <2>2. queue # <<>> /\ e = Head(queue) /\ e \in Events /\ e \notin Publishable
    BY <2>1, HeadOfQueue DEF IInv, AtHead
  <2>3. UNCHANGED notified
    <3>1. ASSUME NEW u \in Threads, Holds(u), pc'[u] \in {"check", "retire"} PROVE FALSE
      BY <2>1, <3>1, OneHolder DEF IInv, Giving, ArmSteps
    <3> QED BY <3>1, NotifiedStep
  <2>4. Unturned(e)
    <3>1. ASSUME NEW u \in Threads, LoopDispatch(u) PROVE FALSE
      <4>1. Holds(u) /\ pc[u] = "loop"
        BY <3>1 DEF LoopDispatch, Holds, NextSteps
      <4> QED BY <2>1, <4>1, OneHolder DEF IInv
    <3> QED BY <2>2, <3>1, RecordsStep
  <2> QED BY <1>3, <2>3, <2>4 DEF Unturned, NumReceivers, IInv, Turns
<1> QED BY <1>1, <1>2, <1>3

LEMMA TurnsStep ==
  ASSUME IInv, Next
  PROVE  Turns'
<1>1. \A e \in Events : \A j \in notified'[e] : j \in 1..ev'[e].next \/ j = NumReceivers(e)' + 1
  BY NotifiedUpToNext
<1>2. \A i \in 1..Len(queue') :
         Len(ev'[queue'[i]].receivers) + 1 \in notified'[queue'[i]] => \E t \in Threads : pc'[t] = "retire" /\ loc'[t].sp = queue'[i]
  BY LastNotifiedRetires
<1>3. \A t \in Threads : Giving(t)' =>
         /\ ev'[loc'[t].sp].next \in 1..Len(ev'[loc'[t].sp].receivers)
         /\ ev'[loc'[t].sp].next \notin notified'[loc'[t].sp]
  BY GivingStep
<1> QED BY <1>1, <1>2, <1>3 DEF Turns, Retiring, NumReceivers

LEMMA InitIInv == Init => IInv
<1> SUFFICES ASSUME Init PROVE IInv
  OBVIOUS
<1> USE DEF Init
<1>1. RecordsOK
  <2>1. \A e \in Events : NewRecord(e, <<>>) \in SoundRecords
    BY NewRecordSound, EmptySeq
  <2> QED BY <2>1 DEF RecordsOK, SoundRecords
<1>2. LogsOK
  BY EmptySeq DEF LogsOK
<1>3. HandlerOK
  BY EmptySeq DEF HandlerOK, NoTimers
<1>4. RegistryOK /\ ClientsOK
  BY DEF RegistryOK, ClientsOK
<1>5. ThreadsOK
  BY NoLocalsType DEF ThreadsOK, Labels
<1>6. \A t \in Threads : pc[t] = "idle" /\ loc[t] = NoLocals /\ ~Holds(t) /\ t # None
  BY NoLocalsType, ConstantsAssumption
     DEF Holds, NextSteps, ScheduleSteps, ArmSteps, FinishSteps, Threads
<1>7. Control
  BY <1>6, NoLocalsType DEF Control, CallInv, NextSteps, ArmSteps, FinishSteps
<1>8. Mutex /\ AtHead
  BY <1>6 DEF Mutex, AtHead
<1>9. QueueOrder
  <2>1. [i \in 1..Len(history) |-> history[i].ev] = <<>>
    BY EmptySeq
  <2> QED BY <2>1, EmptySeq, ConcatEmptySeq DEF QueueOrder
<1>10. Fresh
  BY <1>6 DEF Fresh, Publishable, Threads
<1>11. Turns
  BY <1>6 DEF Turns, Giving, ArmSteps
<1> QED
  BY <1>1, <1>2, <1>3, <1>4, <1>5, <1>7, <1>8, <1>9, <1>10, <1>11 DEF IInv, TypeOK

LEMMA NextIInv == IInv /\ [Next]_vars => IInv'
<1>1. CASE Next
  <2> SUFFICES ASSUME IInv PROVE IInv'
    BY <1>1
  <2>1. TypeOK'
    BY <1>1, RecordsStep, LogsStep, HandlerStep, RegistryStep, ClientStep, ControlStep DEF TypeOK, IInv
  <2> QED BY <1>1, <2>1, ControlStep, AtHeadStep, QueueOrderStep, FreshStep, TurnsStep DEF IInv
<1>2. CASE UNCHANGED vars
  <2> SUFFICES ASSUME IInv, UNCHANGED vars PROVE IInv'
    BY <1>2
  <2>1. /\ ev' = ev /\ queue' = queue /\ history' = history /\ published' = published
        /\ lock' = lock /\ notified' = notified /\ owed' = owed /\ crossed' = crossed
        /\ pc' = pc /\ loc' = loc
    BY DEF vars, queueVars, clientVars, threadVars
  <2>2. UNCHANGED handlerVars /\ UNCHANGED registryVars
    BY DEF vars
  <2>3. TypeOK'
    <3>1. RecordsOK' /\ LogsOK' /\ ClientsOK' /\ ThreadsOK'
      BY <2>1 DEF IInv, TypeOK, RecordsOK, LogsOK, ClientsOK, ThreadsOK
    <3>2. HandlerOK' /\ RegistryOK'
      BY <2>2 DEF IInv, TypeOK, HandlerOK, RegistryOK, handlerVars, registryVars
    <3> QED BY <3>1, <3>2 DEF TypeOK
  <2>4. Control'
    BY <2>1 DEF IInv, Control, CallInv
  <2>5. Mutex' /\ AtHead'
    BY <2>1 DEF IInv, Mutex, AtHead, Holds
  <2>6. QueueOrder'
    BY <2>1 DEF IInv, QueueOrder
  <2>7. Fresh'
    BY <2>1 DEF IInv, Fresh, Publishable
  <2>8. Turns'
    BY <2>1 DEF IInv, Turns, Giving, Retiring, NumReceivers
  <2> QED BY <2>3, <2>4, <2>5, <2>6, <2>7, <2>8 DEF IInv
<1> QED BY <1>1, <1>2

\* IInv is inductive and true at the start, so it holds in every reachable state.
THEOREM Invariant == Spec => []IInv
  BY InitIInv, NextIInv, PTL DEF Spec

-----------------------------------------------------------------------------
(* The theorems *)

\* Every variable keeps its type: the records stay well formed, nextReceiver
\* stays within the receivers of its event.
THEOREM TypeCorrect == Spec => []TypeOK
<1>1. IInv => TypeOK
  BY DEF IInv
<1> QED BY <1>1, Invariant, PTL

\* orderedMutex_ excludes the threads from ProcessNextOrderedEvent: not both of
\* them are between its lock and its return.
THEOREM MutualExclusion ==
  Spec => [](\A t, u \in Threads : Holds(t) /\ Holds(u) => t = u)
<1>1. IInv => \A t, u \in Threads : Holds(t) /\ Holds(u) => t = u
  BY OneHolder DEF IInv
<1> QED BY <1>1, Invariant, PTL

\* orderedEventQueue_ is a FIFO: events are retired in the order in which they
\* were enqueued, none twice and none lost.
THEOREM QueueIsFifo == Spec => []QueueOrder
<1>1. IInv => QueueOrder
  BY DEF IInv
<1> QED BY <1>1, Invariant, PTL

\* Receivers of the front event only are notified, each once, in the order of
\* the queue's snapshot, the last subscriber after all of them.
THEOREM NotifiedInOrder == Spec => NotifyInOrder
<1>1. IInv /\ [Next]_vars => [\A e \in Events : NotifyStep(e)]_vars
  <2> SUFFICES ASSUME IInv, [Next]_vars PROVE [\A e \in Events : NotifyStep(e)]_vars
    OBVIOUS
  <2>1. CASE Next
    BY <2>1, NotifyStepHolds
  <2>2. CASE UNCHANGED vars
    BY <2>2
  <2> QED BY <2>1, <2>2
<1> QED BY <1>1, Invariant, PTL DEF Spec, NotifyInOrder

\* ScheduleOrderedCommonEvent never trusts a scheduled_ flag whose
\* ORDERED_EVENT_START has already been handled or removed.
THEOREM StartIsNotLost == Spec => []StartNotLost
<1>1. Init => StartNotLost
  BY DEF Init, StartNotLost
<1>2. IInv /\ StartNotLost /\ [Next]_vars => StartNotLost'
  <2>1. ASSUME IInv, StartNotLost, Next PROVE StartNotLost'
    BY <2>1, StartNotLostStep DEF IInv
  <2>2. ASSUME StartNotLost, UNCHANGED vars PROVE StartNotLost'
    BY <2>2 DEF vars, handlerVars, StartNotLost
  <2> QED BY <2>1, <2>2
<1> QED BY <1>1, <1>2, Invariant, PTL DEF Spec


-----------------------------------------------------------------------------
(* Which steps of a call write which fields of a record *)

Concluding(t) == LoopConclude(t) \/ ForceConclude(t)

\* A field changes in the record the thread works on, by the named actions.
Writes(t, e) ==
    /\ ev'[e].resultTo = ev[e].resultTo \/ (Concluding(t) /\ e = Head(queue))
    /\ \/ ev'[e].cur = ev[e].cur
       \/ e = loc[t].sp /\ (NotifyOrderedEvent(t) \/ ParkFrozen(t) \/ FinishCur(t))
    /\ \/ ev'[e].state = ev[e].state
       \/ Concluding(t) /\ e = Head(queue)
       \/ /\ e = loc[t].sp
          /\ NotifyOrderedEvent(t) \/ TellReceiver(t) \/ CheckReceiver(t) \/ FinishState(t)
    /\ ev'[e].abort = ev[e].abort \/ (e = loc[t].sp /\ FinishResult(t))
    /\ ev'[e].dispatchAge = ev[e].dispatchAge \/ (e = loc[t].sp /\ SetTime(t))
    /\ \/ ev'[e].delivery = ev[e].delivery
       \/ e = loc[t].sp /\ (NotifyOrderedEvent(t) \/ ParkFrozen(t) \/ TimeoutMark(t))

\* The record changes in its delivery states, its curReceiver and its state.
Marked(e, i, delivery, cur, state) ==
    /\ ev'[e].delivery = [ev[e].delivery EXCEPT ![i] = delivery]
    /\ ev'[e].cur = cur /\ ev'[e].state = state
    /\ ev'[e].resultTo = ev[e].resultTo /\ ev'[e].abort = ev[e].abort
    /\ ev'[e].dispatchAge = ev[e].dispatchAge
    /\ \A f \in Events \ {e} : ev'[f] = ev[f]

\* An assignment to the delivery state of a receiver, curReceiver and state.
LEMMA MarkedBy ==
  ASSUME ev \in [Events -> EventRecords], NEW e \in Events, NEW i, NEW d, NEW c, NEW st,
         ev' = [ev EXCEPT ![e].delivery[i] = d, ![e].cur = c, ![e].state = st]
  PROVE  Marked(e, i, d, c, st)
<1>1. /\ ev'[e] = [ev[e] EXCEPT !.delivery[i] = d, !.cur = c, !.state = st]
      /\ \A f \in Events \ {e} : ev'[f] = ev[f]
  OBVIOUS
<1>2. ev[e] \in EventRecords
  OBVIOUS
<1> QED BY <1>1, <1>2 DEF Marked, EventRecords

\* The three ways NotifyOrderedEvent ends.
LEMMA NotifyOutcome ==
  ASSUME IInv, NEW t \in Threads, NotifyOrderedEvent(t)
  PROVE  LET e == loc[t].sp
             i == ev[e].next
             s == ev[e].receivers[i]
         IN  /\ e \in Events /\ UNCHANGED clientVars
             /\ \/ <<s, e>> \notin Permitted /\ Marked(e, i, "SKIPPED", ev[e].cur, ev[e].state)
                   /\ Goto(t, "check")
                \/ s \in frozen /\ UNCHANGED ev /\ Goto(t, "park")
                \/ /\ Goto(t, "cast")
                   /\ Marked(e, i, "DELIVERED", IF sub[s] = "live" THEN s ELSE None, "RECEIVEING")
<1> DEFINE e == loc[t].sp
           i == ev[e].next
           s == ev[e].receivers[i]
<1>1. e \in Events /\ ev \in [Events -> EventRecords]
  BY DEF NotifyOrderedEvent, IInv, Control, CallInv, TypeOK, RecordsOK
<1> HIDE DEF e
<1>2. CASE <<s, e>> \notin Permitted /\ Goto(t, "check")
           /\ ev' = [ev EXCEPT ![e].delivery[i] = "SKIPPED"]
  <2>1. Marked(e, i, "SKIPPED", ev[e].cur, ev[e].state)
    BY <1>1, <1>2 DEF Marked, EventRecords
  <2> QED BY <1>1, <1>2, <2>1 DEF NotifyOrderedEvent, e
<1>3. CASE s \in frozen /\ UNCHANGED ev /\ Goto(t, "park")
  BY <1>1, <1>3 DEF NotifyOrderedEvent, e
<1>4. CASE /\ Goto(t, "cast")
           /\ ev' = [ev EXCEPT ![e].delivery[i] = "DELIVERED",
                               ![e].cur = IF sub[s] = "live" THEN s ELSE None,
                               ![e].state = "RECEIVEING"]
  <2> DEFINE c == IF sub[s] = "live" THEN s ELSE None
  <2>1. ev' = [ev EXCEPT ![e].delivery[i] = "DELIVERED", ![e].cur = c, ![e].state = "RECEIVEING"]
    BY <1>4
  <2> HIDE DEF c
  <2>2. Marked(e, i, "DELIVERED", c, "RECEIVEING")
    BY <1>1, <2>1, MarkedBy
  <2> QED BY <1>1, <1>4, <2>2 DEF NotifyOrderedEvent, e, c
<1>5. /\ UNCHANGED clientVars
      /\ \/ <<s, e>> \notin Permitted /\ Goto(t, "check")
            /\ ev' = [ev EXCEPT ![e].delivery[i] = "SKIPPED"]
         \/ s \in frozen /\ UNCHANGED ev /\ Goto(t, "park")
         \/ /\ Goto(t, "cast")
            /\ ev' = [ev EXCEPT ![e].delivery[i] = "DELIVERED",
                                ![e].cur = IF sub[s] = "live" THEN s ELSE None,
                                ![e].state = "RECEIVEING"]
  BY Zenon DEF NotifyOrderedEvent, e
<1> QED BY <1>2, <1>3, <1>4, <1>5

LEMMA StepWrites ==
  ASSUME IInv, NEW t \in Threads, Step(t), NEW e \in Events
  PROVE  Writes(t, e)
<1>0. ev \in [Events -> EventRecords]
  BY DEF IInv, TypeOK, RecordsOK
<1>1. CASE UNCHANGED ev
  BY <1>1 DEF Writes
<1>2. CASE LoopForce(t)
  BY <1>0, <1>2 DEF LoopForce, EventRecords, Writes
<1>3. CASE Concluding(t)
  <2>1. ev' = [ev EXCEPT ![Head(queue)].state = "IDLE", ![Head(queue)].resultTo = None]
    BY <1>3, ConcludeClients DEF Concluding, Conclude
  <2> QED BY <1>0, <1>3, <2>1 DEF EventRecords, Writes
<1>4. CASE LoopDispatch(t)
  BY <1>0, <1>4 DEF LoopDispatch, EventRecords, Writes
<1>5. CASE SetTime(t)
  BY <1>0, <1>5 DEF SetTime, EventRecords, Writes
<1>6. CASE NotifyOrderedEvent(t)
  BY <1>6, NotifyOutcome DEF Writes, Marked
<1>tell. CASE TellReceiver(t)
  BY <1>0, <1>tell DEF TellReceiver, EventRecords, Writes
<1>7. CASE ParkFrozen(t)
  BY <1>0, <1>7 DEF ParkFrozen, EventRecords, Writes
<1>8. CASE CheckReceiver(t)
  <2>1. UNCHANGED ev \/ ev' = [ev EXCEPT ![loc[t].sp].state = "IDLE"]
    BY <1>8 DEF CheckReceiver
  <2>2. CASE ev' = [ev EXCEPT ![loc[t].sp].state = "IDLE"]
    BY <1>0, <1>8, <2>2 DEF EventRecords, Writes
  <2> QED BY <1>1, <2>1, <2>2
<1>9. CASE FinishState(t)
  BY <1>0, <1>9 DEF FinishState, EventRecords, Writes
<1>10. CASE FinishCur(t)
  BY <1>0, <1>10 DEF FinishCur, EventRecords, Writes
<1>11. CASE FinishResult(t)
  BY <1>0, <1>11 DEF FinishResult, EventRecords, Writes
<1>12. CASE TimeoutMark(t)
  BY <1>0, <1>12 DEF TimeoutMark, EventRecords, Writes
<1>13. CASE ScheduleTest(t) \/ ScheduleSend(t) \/ ArmTest(t) \/ ArmSet(t) \/ ArmSend(t)
            \/ LockForNext(t) \/ LoopReturn(t) \/ Retire(t) \/ CastReceiver(t) \/ FinishRead(t)
  BY <1>1, <1>13 DEF ScheduleTest, ScheduleSend, ArmTest, ArmSet, ArmSend, LockForNext,
                       LoopReturn, Retire, CastReceiver, FinishRead
<1> QED
  BY <1>2, <1>3, <1>4, <1>5, <1>6, <1>7, <1>8, <1>9, <1>10, <1>11, <1>12, <1>13, <1>tell
     DEF Step, Concluding

\* The fields are as they were; a clock that was not started still is not.
Quiet(e) ==
    /\ ev'[e].resultTo = ev[e].resultTo /\ ev'[e].cur = ev[e].cur
    /\ ev'[e].state = ev[e].state /\ ev'[e].abort = ev[e].abort
    /\ ev'[e].delivery = ev[e].delivery
    /\ ev[e].dispatchAge = Never => ev'[e].dispatchAge = Never

Renewed(e) ==
    /\ e \in Publishable /\ ProcessOrderedEvent(e)
    /\ \E r \in Rankings : IsSnapshot(e, r) /\ ev'[e] = NewRecord(e, r)

LEMMA RecordWrites ==
  ASSUME IInv, Next, NEW e \in Events
  PROVE  Quiet(e) \/ Renewed(e) \/ \E t \in Threads : Step(t) /\ Writes(t, e)
<1>0. ev \in [Events -> EventRecords]
  BY DEF IInv, TypeOK, RecordsOK
<1>1. CASE UNCHANGED ev
  BY <1>1 DEF Quiet
<1>2. ASSUME NEW t \in Threads, Step(t) PROVE Writes(t, e)
  BY <1>2, StepWrites
<1>3. ASSUME NEW f \in Events, ProcessOrderedEvent(f) PROVE Quiet(e) \/ Renewed(e)
  BY <1>0, <1>3 DEF ProcessOrderedEvent, Quiet, Renewed
<1>4. CASE TimeoutCheck
  <2>1. UNCHANGED ev \/ ev' = [ev EXCEPT ![Head(queue)].receiverAge = 0]
    BY <1>4 DEF TimeoutCheck
  <2>2. CASE ev' = [ev EXCEPT ![Head(queue)].receiverAge = 0]
    BY <1>0, <2>2 DEF Quiet, EventRecords
  <2> QED BY <1>1, <2>1, <2>2
<1>5. CASE Tick
  BY <1>0, <1>5 DEF Tick, Aged, Quiet, EventRecords
<1>6. CASE EnqueueOrderedRecord \/ RemoveSubscriber \/ TakeStart \/ TakeTimeout
  BY <1>1, <1>6 DEF EnqueueOrderedRecord, RemoveSubscriber, TakeStart, TakeTimeout
<1>7. ASSUME NEW o \in owed, NEW abort \in BOOLEAN, FinishReceiver(o, abort) PROVE UNCHANGED ev
  BY <1>7 DEF FinishReceiver
<1>8. ASSUME NEW x, \/ UnsubscribeCommonEvent(x) \/ SubscribeCommonEvent(x) \/ SubscriberDied(x)
                   \/ Freeze(x) \/ Unfreeze(x)
      PROVE  UNCHANGED ev
  BY <1>8 DEF UnsubscribeCommonEvent, SubscribeCommonEvent, SubscriberDied, Freeze, Unfreeze
<1>9. "main" \in Threads /\ "ordered" \in Threads
  BY DEF Threads
<1> QED
  BY <1>1, <1>2, <1>3, <1>4, <1>5, <1>6, <1>7, <1>8, <1>9 DEF Next, MainStep, OrderedStep, Calling

LEMMA RenewedFacts ==
  ASSUME NEW e \in Events, Renewed(e)
  PROVE  /\ ev'[e].next = 0 /\ ev'[e].resultTo = StubListener(e) /\ ev'[e].cur = None
         /\ ev'[e].state = "IDLE" /\ ev'[e].abort = FALSE /\ ev'[e].dispatchAge = Never
         /\ \A i \in 1..Len(ev'[e].receivers) :
                ev'[e].delivery[i] = "PENDING" /\ sub[ev'[e].receivers[i]] = "live"
<1>1. PICK r \in Rankings : IsSnapshot(e, r) /\ ev'[e] = NewRecord(e, r)
  BY DEF Renewed
<1>2. /\ ev'[e].receivers = r /\ ev'[e].delivery = [i \in 1..Len(r) |-> "PENDING"]
      /\ ev'[e].next = 0 /\ ev'[e].resultTo = StubListener(e) /\ ev'[e].cur = None
      /\ ev'[e].state = "IDLE" /\ ev'[e].abort = FALSE /\ ev'[e].dispatchAge = Never
  BY <1>1 DEF NewRecord
<1> QED BY <1>1, <1>2 DEF IsSnapshot

\* In a renewed record no receiver has been given its turn.
LEMMA RenewedMarks ==
  ASSUME NEW e \in Events, Renewed(e), NEW i \in 1..Len(ev'[e].receivers)
  PROVE  ev'[e].next = 0 /\ ev'[e].delivery[i] = "PENDING"
<1>1. PICK r \in Rankings : ev'[e] = NewRecord(e, r)
  BY DEF Renewed
<1>2. /\ ev'[e].receivers = r /\ ev'[e].delivery = [j \in 1..Len(r) |-> "PENDING"]
      /\ ev'[e].next = 0
  BY <1>1 DEF NewRecord
<1> QED BY <1>2

-----------------------------------------------------------------------------
(* Who moves a thread *)

Rests(t) ==
    /\ pc'[t] = pc[t] /\ Keep(t)
    /\ loc'[t].abort = loc[t].abort /\ loc'[t].doNext = loc[t].doNext
    /\ loc'[t].timer = loc[t].timer

MainCall ==
    \/ EnqueueOrderedRecord \/ RemoveSubscriber
    \/ \E e \in Events : ProcessOrderedEvent(e)
    \/ \E o \in owed, abort \in BOOLEAN : FinishReceiver(o, abort)
    \/ \E s \in Subscribers : UnsubscribeCommonEvent(s)

HandlerCall == TakeStart \/ TakeTimeout \/ TimeoutCheck

LEMMA Actors ==
  ASSUME IInv, Next, NEW t \in Threads
  PROVE  Rests(t) \/ Step(t) \/ (t = "main" /\ MainCall) \/ (t = "ordered" /\ HandlerCall)
<1> USE DEF Rests, Keep
<1>0. /\ pc \in [Threads -> Labels] /\ loc \in [Threads -> Locals]
      /\ Threads = {"main", "ordered"}
  BY DEF IInv, TypeOK, ThreadsOK, Threads
<1>1. ASSUME NEW u \in Threads, Step(u), u # t PROVE Rests(t)
  BY <1>1, ThreadStep DEF Path, Others, IInv
<1>2. CASE MainCall /\ t = "ordered"
  BY <1>0, <1>2 DEF MainCall, Goto, ProcessOrderedEvent, EnqueueOrderedRecord, RemoveSubscriber,
                    FinishReceiver, UnsubscribeCommonEvent, threadVars
<1>3. CASE HandlerCall /\ t = "main"
  BY <1>0, <1>3 DEF HandlerCall, Goto, Leave, TakeStart, TakeTimeout, TimeoutCheck
<1>4. CASE Tick
  BY <1>0, <1>4 DEF Tick, Locals
<1>5. ASSUME NEW x, SubscribeCommonEvent(x) \/ SubscriberDied(x) \/ Freeze(x) \/ Unfreeze(x)
      PROVE  Rests(t)
  BY <1>5 DEF SubscribeCommonEvent, SubscriberDied, Freeze, Unfreeze, threadVars
<1> QED
  BY <1>0, <1>1, <1>2, <1>3, <1>4, <1>5
     DEF Next, MainStep, OrderedStep, Calling, MainCall, HandlerCall

\* The step of a thread inside a call is the one of its label.
LEMMA StepAt ==
  ASSUME NEW t \in Threads, Step(t)
  PROVE  /\ pc[t] = "schedule" => ScheduleTest(t)
         /\ pc[t] = "send" => ScheduleSend(t)
         /\ pc[t] = "arm" => ArmTest(t)
         /\ pc[t] = "armSet" => ArmSet(t)
         /\ pc[t] = "armSend" => ArmSend(t)
         /\ pc[t] = "lock" => LockForNext(t)
         /\ pc[t] = "setTime" => SetTime(t)
         /\ pc[t] = "loop" => LoopReturn(t) \/ LoopForce(t) \/ LoopConclude(t) \/ LoopDispatch(t)
         /\ pc[t] = "settle" => ForceConclude(t)
         /\ pc[t] = "retire" => Retire(t)
         /\ pc[t] = "notify" => NotifyOrderedEvent(t)
         /\ pc[t] = "cast" => CastReceiver(t)
         /\ pc[t] = "tell" => TellReceiver(t)
         /\ pc[t] = "park" => ParkFrozen(t)
         /\ pc[t] = "check" => CheckReceiver(t)
         /\ pc[t] = "mark" => TimeoutMark(t)
         /\ pc[t] = "finishRead" => FinishRead(t)
         /\ pc[t] = "finishState" => FinishState(t)
         /\ pc[t] = "finishCur" => FinishCur(t)
         /\ pc[t] = "finishResult" => FinishResult(t)
         /\ pc[t] \notin {"idle", "enqueue", "expire", "remove"}
  BY DEF Step, ScheduleTest, ScheduleSend, ArmTest, ArmSet, ArmSend, LockForNext, LoopReturn,
       LoopForce, LoopConclude, ForceConclude, Retire, LoopDispatch, SetTime, NotifyOrderedEvent,
       CastReceiver, TellReceiver, ParkFrozen, CheckReceiver, FinishRead, FinishState, FinishCur, FinishResult, TimeoutMark

\* What is known while a turn is being given.
LEMMA GivingFacts ==
  ASSUME IInv, NEW t \in Threads, Giving(t)
  PROVE  /\ Holds(t) /\ pc[t] \notin {"loop", "retire", "settle"}
         /\ queue # <<>> /\ loc[t].sp = Head(queue) /\ loc[t].sp \in Events \ Publishable
         /\ ev[loc[t].sp].next \in 1..NumReceivers(loc[t].sp)
         /\ ev[loc[t].sp].next \notin notified[loc[t].sp]
<1>1. Holds(t) /\ pc[t] \notin {"loop", "retire", "settle"}
  BY DEF Giving, Holds, NextSteps, ArmSteps, IInv, Control, CallInv
<1> QED BY <1>1, HeadOfQueue DEF IInv, AtHead, Turns

\* Two threads that hold the lock are one.
LEMMA HolderIs ==
  ASSUME IInv, NEW t \in Threads, NEW u \in Threads, Holds(t),
         Holds(u) \/ Giving(u) \/ pc[u] \in NextSteps
  PROVE  u = t
  BY OneHolder, GivingFacts DEF Holds, IInv

LEMMA ReceiversStay ==
  ASSUME IInv, Next, NEW e \in Events
  PROVE  Renewed(e) \/ ev'[e].receivers = ev[e].receivers
<1>1. ASSUME ProcessOrderedEvent(e), e \in Publishable PROVE Renewed(e)
  BY <1>1 DEF ProcessOrderedEvent, Renewed, IInv, TypeOK, RecordsOK
<1> QED BY <1>1, RecordsStep DEF Unturned

\* nextReceiver moves by one, in LoopDispatch.
LEMMA NextMoves ==
  ASSUME IInv, Next, NEW e \in Events
  PROVE  \/ Renewed(e) \/ ev'[e].next = ev[e].next
         \/ /\ queue # <<>> /\ e = Head(queue) /\ ev'[e].next = ev[e].next + 1
            /\ \E t \in Threads : LoopDispatch(t)
<1>1. ASSUME ProcessOrderedEvent(e), e \in Publishable PROVE Renewed(e)
  BY <1>1 DEF ProcessOrderedEvent, Renewed, IInv, TypeOK, RecordsOK
<1> QED BY <1>1, RecordsStep DEF Unturned, LoopDispatch

\* Who is notified, by which step.
LEMMA NotifiedBy ==
  ASSUME IInv, Next
  PROVE  \/ UNCHANGED notified
         \/ /\ queue # <<>>
            /\ \E t \in Threads :
                 \/ /\ TellReceiver(t) /\ loc[t].sp = Head(queue)
                    /\ notified' = [notified EXCEPT ![Head(queue)] = @ \cup {ev[Head(queue)].next}]
                 \/ /\ Concluding(t) /\ ev[Head(queue)].resultTo # None
                    /\ notified' = [notified EXCEPT ![Head(queue)] = @ \cup {NumReceivers(Head(queue)) + 1}]
<1>1. CASE UNCHANGED toldVars
  BY <1>1 DEF toldVars
<1>2. ASSUME NEW t \in Threads, TellReceiver(t), ~UNCHANGED toldVars
      PROVE  /\ queue # <<>> /\ loc[t].sp = Head(queue)
             /\ notified' = [notified EXCEPT ![loc[t].sp] = @ \cup {ev[loc[t].sp].next}]
  <2>1. Giving(t)
    BY <1>2 DEF TellReceiver, Giving, IInv, Control, CallInv, NextSteps, Going
  <2> QED BY <1>2, <2>1, GivingFacts DEF TellReceiver
<1>3. ASSUME NEW t \in Threads, Concluding(t), ~UNCHANGED toldVars
      PROVE  /\ queue # <<>> /\ ev[Head(queue)].resultTo # None
             /\ notified' = [notified EXCEPT ![Head(queue)] = @ \cup {NumReceivers(Head(queue)) + 1}]
  BY <1>3, ConcludeClients DEF Conclude, Concluding, toldVars
<1>4. ASSUME NEW o \in owed, NEW abort \in BOOLEAN, FinishReceiver(o, abort) PROVE UNCHANGED notified
  BY <1>4 DEF FinishReceiver
<1> QED BY <1>1, <1>2, <1>3, <1>4, Writers DEF Concluding

LEMMA NotifiedGrows ==
  ASSUME IInv, Next, NEW e \in Events
  PROVE  \/ notified'[e] = notified[e]
         \/ /\ queue # <<>> /\ e = Head(queue)
            /\ \E t \in Threads :
                 \/ /\ TellReceiver(t) /\ loc[t].sp = e
                    /\ notified'[e] = notified[e] \cup {ev[e].next}
                 \/ Concluding(t) /\ notified'[e] = notified[e] \cup {NumReceivers(e) + 1}
<1>0. notified \in [Events -> SUBSET Nat]
  BY DEF IInv, TypeOK, ClientsOK
<1> QED BY <1>0, NotifiedBy

\* A turn goes on until one of these steps ends it.
LEMMA GivingStays ==
  ASSUME IInv, Next, NEW t \in Threads, Giving(t)
  PROVE  \/ Giving(t)' /\ loc'[t].sp = loc[t].sp
         \/ ParkFrozen(t)
         \/ NotifyOrderedEvent(t) /\ pc'[t] = "check"
         \/ CastReceiver(t) /\ pc'[t] = "check"
         \/ TellReceiver(t)
<1>1. CASE Rests(t)
  BY <1>1 DEF Rests, Keep, Giving
<1>2. CASE Step(t)
  <2>1. Path(t)
    BY <1>2, ThreadStep DEF IInv
  <2>2. \/ Giving(t)' /\ loc'[t].sp = loc[t].sp
        \/ pc[t] \in {"notify", "cast", "tell", "park"} /\ pc'[t] = "check"
    BY <2>1 DEF Giving, Path, Goes, Keep, Left, Entered, Edges, ArmSteps, ScheduleSteps
  <2> QED BY <1>2, <2>2, StepAt
<1>3. ~(t = "main" /\ MainCall)
  BY DEF MainCall, Giving, ArmSteps, EnqueueOrderedRecord, RemoveSubscriber, ProcessOrderedEvent,
         FinishReceiver, UnsubscribeCommonEvent
<1>4. ~(t = "ordered" /\ HandlerCall)
  BY DEF HandlerCall, Giving, ArmSteps, TakeStart, TakeTimeout, TimeoutCheck
<1> QED BY <1>1, <1>2, <1>3, <1>4, Actors

\* Retired events are neither in the queue nor publishable.
LEMMA GoneApart ==
  ASSUME IInv, NEW h \in 1..Len(history)
  PROVE  /\ history[h].ev \in Events \ Publishable
         /\ queue # <<>> => history[h].ev # Head(queue)
         /\ \A i \in 1..Len(queue) : history[h].ev # queue[i]
<1> DEFINE n == Len(Gone)
<1>1. /\ queue \in Seq(Events) /\ Gone \in Seq(Events) /\ published = Gone \o queue
      /\ n = Len(history) /\ Len(history) \in Nat /\ Gone[h] = history[h].ev
  BY GoneIsSequence, LenProperties DEF IInv, TypeOK, LogsOK, QueueOrder, Gone
<1>2. /\ Len(published) = n + Len(queue) /\ published[h] = Gone[h] /\ Gone[h] \in Events
      /\ \A i \in 1..Len(queue) : published[n + i] = queue[i]
  <2>1. /\ Len(published) = n + Len(queue) /\ n \in Nat /\ Len(queue) \in Nat
        /\ \A i \in 1..(n + Len(queue)) :
               published[i] = (IF i <= n THEN Gone[i] ELSE queue[i - n])
    <3>1. /\ Len(Gone \o queue) = Len(Gone) + Len(queue)
          /\ \A i \in 1..(Len(Gone) + Len(queue)) :
                 (Gone \o queue)[i] = (IF i <= Len(Gone) THEN Gone[i] ELSE queue[i - Len(Gone)])
      <4>1. queue \in Seq(Events) /\ Gone \in Seq(Events)
        BY <1>1
      <4> QED BY ONLY <4>1, ConcatProperties, Zenon
    <3>2. Len(Gone) \in Nat /\ Len(queue) \in Nat
      BY ONLY <1>1, LenProperties
    <3> QED BY <1>1, <3>1, <3>2
  <2>2. h \in 1..n /\ Gone[h] \in Events
    BY <1>1, ElementOfSeq
  <2> HIDE DEF n
  <2> QED BY <2>1, <2>2
<1>3. history[h].ev = published[h] /\ h \in 1..Len(published) /\ published[h] \in Events
  BY <1>1, <1>2, LenProperties
<1>4. ASSUME NEW i \in 1..Len(queue) PROVE history[h].ev # queue[i]
  <2>1. n + i \in 1..Len(published) /\ h # n + i
    BY <1>1, <1>2, LenProperties
  <2> HIDE DEF n
  <2>2. published[n + i] = queue[i]
    BY <1>2
  <2>3. \A j, k \in 1..Len(published) : published[j] = published[k] => j = k
    BY DEF IInv, Fresh
  <2> QED BY <1>3, <2>1, <2>2, <2>3
<1>5. queue # <<>> => history[h].ev # Head(queue)
  BY <1>4, HeadOfQueue
<1>6. published[h] \notin Publishable
  BY <1>3 DEF Publishable
<1> QED BY <1>3, <1>4, <1>5, <1>6

-----------------------------------------------------------------------------
(* An event does not end before it began *)

\* An event that is not published has had no turn.
Unstarted == \A e \in Publishable : ev[e].next = 0

\* The last subscriber is told before the record forgets it.
LastIsTold ==
    \A e \in Events :
        /\ ev[e].resultTo \in {None, StubListener(e)}
        /\ ev[e].resultTo = StubListener(e) \/ NumReceivers(e) + 1 \in notified[e]

\* Where a call carries an abort, and where it is forced to go on.
Carrying == {"finishRead", "finishState", "finishCur", "finishResult"}

Flags ==
    \A t \in Threads :
        /\ loc[t].abort = TRUE => pc[t] \in Carrying
        /\ loc[t].force = TRUE => pc[t] \in FinishSteps \cup ScheduleSteps \cup {"settle"}
        /\ pc[t] = "settle" => loc[t].force = TRUE

\* Only an event whose first receiver had its turn is aborted, has a current
\* receiver, or is timed.
BegunRecords ==
    \A e \in Events :
        ev[e].abort = TRUE \/ ev[e].cur # None \/ ev[e].dispatchAge # Never => ev[e].next > 0

BegunCalls ==
    \A t \in Threads :
        loc[t].abort = TRUE \/ loc[t].force = TRUE => ev[loc[t].sp].next > 0

Over(e) == ev[e].next > 0 \/ ev[e].next = NumReceivers(e)

ReadyToRetire ==
    \A t \in Threads :
        pc[t] = "retire" => ev[loc[t].sp].resultTo = None /\ Over(loc[t].sp)

PInv == Unstarted /\ LastIsTold /\ Flags /\ BegunRecords /\ BegunCalls /\ ReadyToRetire

LEMMA NextStays ==
  ASSUME IInv, Unstarted, Next, NEW e \in Events, ev[e].next > 0
  PROVE  ev'[e].next > 0
<1>1. ev[e].next \in Nat /\ e \notin Publishable
  BY DEF IInv, TypeOK, RecordsOK, EventRecords, Unstarted
<1> QED BY <1>1, NextMoves DEF Renewed

LEMMA UnstartedStep ==
  ASSUME IInv, Unstarted, Next
  PROVE  Unstarted'
<1>1. ASSUME NEW e \in Publishable' PROVE ev'[e].next = 0
  <2>1. e \in Publishable /\ e \in Events
    BY PublishableShrinks DEF Publishable
  <2>2. queue # <<>> => e # Head(queue)
    BY <2>1, HeadOfQueue
  <2>3. Renewed(e) => ev'[e].next = 0
    BY DEF Renewed, NewRecord
  <2> QED BY <2>1, <2>2, <2>3, NextMoves DEF Unstarted
<1> QED BY <1>1 DEF Unstarted

LEMMA LastIsToldStep ==
  ASSUME IInv, LastIsTold, Next
  PROVE  LastIsTold'
<1> SUFFICES ASSUME NEW e \in Events
             PROVE  /\ ev'[e].resultTo \in {None, StubListener(e)}
                    /\ ev'[e].resultTo = StubListener(e) \/ Len(ev'[e].receivers) + 1 \in notified'[e]
  BY DEF LastIsTold, NumReceivers, StubListener
<1>1. CASE Renewed(e)
  BY <1>1 DEF Renewed, NewRecord
<1>2. CASE ~Renewed(e)
  <2>1. ev'[e].receivers = ev[e].receivers /\ notified[e] \subseteq notified'[e]
    BY <1>2, ReceiversStay, NotifiedGrows
  <2>2. CASE ev'[e].resultTo = ev[e].resultTo
    BY <2>1, <2>2 DEF LastIsTold, NumReceivers
  <2>3. ASSUME NEW t \in Threads, Concluding(t), e = Head(queue)
        PROVE  /\ ev'[e].resultTo = None
               /\ ev[e].resultTo = None \/ NumReceivers(e) + 1 \in notified'[e]
    <3>1. /\ ev' = [ev EXCEPT ![e].state = "IDLE", ![e].resultTo = None]
          /\ \/ ev[e].resultTo = None
             \/ notified' = [notified EXCEPT ![e] = @ \cup {NumReceivers(e) + 1}]
      BY <2>3, ConcludeClients DEF Concluding, Conclude
    <3>2. ev \in [Events -> EventRecords] /\ notified \in [Events -> SUBSET Nat]
      BY DEF IInv, TypeOK, RecordsOK, ClientsOK
    <3> QED BY <3>1, <3>2 DEF EventRecords
  <2> QED BY <1>2, <2>1, <2>2, <2>3, RecordWrites DEF Writes, Quiet, LastIsTold, NumReceivers
<1> QED BY <1>1, <1>2

LEMMA BegunRecordsStep ==
  ASSUME IInv, PInv, Next
  PROVE  BegunRecords'
<1> SUFFICES ASSUME NEW e \in Events,
                    ev'[e].abort = TRUE \/ ev'[e].cur # None \/ ev'[e].dispatchAge # Never
             PROVE  ev'[e].next > 0
  BY DEF BegunRecords
<1>0. ev \in [Events -> EventRecords]
  BY DEF IInv, TypeOK, RecordsOK
<1>1. ~Renewed(e)
  BY RenewedFacts
<1>2. CASE Quiet(e)
  <2>1. ev[e].next > 0
    BY <1>2 DEF Quiet, PInv, BegunRecords
  <2> QED BY <2>1, NextStays DEF PInv
<1>3. ASSUME NEW t \in Threads, Step(t), Writes(t, e) PROVE ev[e].next > 0
  <2>1. CASE e = loc[t].sp /\ (NotifyOrderedEvent(t) \/ ParkFrozen(t) \/ SetTime(t))
    <3>1. Giving(t)
      BY <2>1 DEF NotifyOrderedEvent, ParkFrozen, SetTime, Giving, IInv, Control, CallInv, NextSteps, Going
    <3> QED BY <2>1, <3>1, GivingFacts
  <2>2. CASE FinishCur(t) /\ e = loc[t].sp
    <3>1. ev'[e].cur = None /\ ev'[e].abort = ev[e].abort /\ ev'[e].dispatchAge = ev[e].dispatchAge
      BY <1>0, <2>2 DEF FinishCur, EventRecords
    <3> QED BY <3>1 DEF PInv, BegunRecords
  <2>3. CASE FinishResult(t) /\ e = loc[t].sp
    <3>1. /\ ev'[e].cur = ev[e].cur /\ ev'[e].abort \in {loc[t].abort, ev[e].abort}
          /\ ev'[e].dispatchAge = ev[e].dispatchAge
      BY <1>0, <2>3 DEF FinishResult, AbortAfter, EventRecords
    <3> QED BY <2>3, <3>1 DEF PInv, BegunRecords, BegunCalls
  <2>4. CASE /\ ev'[e].cur = ev[e].cur /\ ev'[e].abort = ev[e].abort
             /\ ev'[e].dispatchAge = ev[e].dispatchAge
    BY <2>4 DEF PInv, BegunRecords
  <2> QED BY <1>3, <2>1, <2>2, <2>3, <2>4 DEF Writes
<1> QED BY <1>1, <1>2, <1>3, NextStays, RecordWrites DEF PInv

LEMMA LeaveClears ==
  ASSUME ThreadsOK, NEW t \in Threads, Leave(t)
  PROVE  loc'[t].abort = FALSE /\ loc'[t].doNext = FALSE
<1>1. t \in DOMAIN loc
  BY DEF ThreadsOK
<1>2. CASE loc[t].call = "unsub"
  BY <1>1, <1>2 DEF Leave, NoLocals
<1>3. CASE loc[t].call # "unsub"
  BY <1>1, <1>3 DEF Leave, NoLocals
<1> QED BY <1>2, <1>3

\* A call carries an abort on to FinishResult, or takes it from the record.
LEMMA AbortStep ==
  ASSUME IInv, Flags, NEW t \in Threads, Step(t), loc'[t].abort = TRUE
  PROVE  /\ loc'[t].sp = loc[t].sp
         /\ \/ loc[t].abort = TRUE /\ pc'[t] \in {"finishState", "finishCur", "finishResult"}
            \/ TimeoutMark(t) /\ pc'[t] = "finishState" /\ loc'[t].abort = ev[loc[t].sp].abort
<1>0. ThreadsOK /\ pc \in [Threads -> Labels] /\ loc \in [Threads -> Locals] /\ TRUE # FALSE
  BY DEF IInv, TypeOK, ThreadsOK
<1>1. ~Leave(t)
  BY <1>0, LeaveClears
<1>2. CASE TimeoutMark(t)
  BY <1>0, <1>2 DEF TimeoutMark, Goto, Locals
<1>read. CASE FinishRead(t)
  BY <1>0, <1>read DEF FinishRead, Goto, Locals
<1>3. CASE FinishState(t)
  BY <1>0, <1>3 DEF FinishState, Goto, Locals
<1>4. CASE FinishCur(t)
  BY <1>0, <1>4 DEF FinishCur, Goto
<1>5. ~FinishResult(t)
  <2>1. ASSUME FinishResult(t) PROVE loc'[t].abort = FALSE
    BY <1>0, <1>1, <2>1 DEF FinishResult, Locals
  <2> QED BY <1>0, <2>1
<1>6. ASSUME pc[t] \notin Carrying \cup {"mark"}
      PROVE  FALSE
  <2>1. loc[t].abort = FALSE
    BY <1>0, <1>6 DEF Flags, Carrying, Locals
  <2>2. CASE ScheduleTest(t) \/ ScheduleSend(t)
    BY <1>0, <1>1, <2>1, <2>2 DEF ScheduleTest, ScheduleSend, AfterSchedule
  <2>3. CASE ArmTest(t) \/ ArmSet(t) \/ ArmSend(t)
    BY <1>0, <1>1, <2>1, <2>3 DEF ArmTest, ArmSet, ArmSend, AfterArm, Locals
  <2>4. CASE LockForNext(t) \/ LoopReturn(t) \/ NotifyOrderedEvent(t) \/ CastReceiver(t)
            \/ TellReceiver(t) \/ ParkFrozen(t) \/ CheckReceiver(t)
    BY <1>0, <1>1, <2>1, <2>4
       DEF LockForNext, LoopReturn, NotifyOrderedEvent, CastReceiver, TellReceiver, ParkFrozen, CheckReceiver
  <2>5. CASE LoopForce(t) \/ Retire(t) \/ LoopDispatch(t)
    BY <1>0, <2>1, <2>5 DEF LoopForce, Retire, LoopDispatch, Locals
  <2>6. CASE LoopConclude(t) \/ ForceConclude(t)
    <3>1. PICK e : loc' = [loc EXCEPT ![t].sp = e, ![t].force = FALSE, ![t].timer = pending]
      BY <2>6 DEF LoopConclude, ForceConclude, Conclude
    <3> QED BY <1>0, <2>1, <3>1 DEF Locals
  <2>7. CASE SetTime(t)
    BY <1>0, <2>1, <2>7 DEF SetTime, Locals
  <2> QED
    BY <1>6, <2>2, <2>3, <2>4, <2>5, <2>6, <2>7
       DEF Step, Carrying, FinishRead, FinishState, FinishCur, FinishResult, TimeoutMark
<1> QED BY <1>2, <1>3, <1>4, <1>5, <1>6, <1>read, StepAt DEF Carrying

\* How a finish gets to FinishReceiver with an abort; an unsubscription has none.
LEMMA MainCallEnters ==
  ASSUME IInv, MainCall
  PROVE  \/ loc'["main"].abort = FALSE \/ (Rests("main") \/ EnqueueOrderedRecord)
         \/ /\ pc'["main"] = "finishRead" /\ queue # <<>> /\ loc'["main"].sp = Head(queue)
            /\ ev[Head(queue)].cur # None
<1>0. /\ pc \in [Threads -> Labels] /\ loc \in [Threads -> Locals] /\ "main" \in Threads
      /\ None \notin Subscribers /\ owed \subseteq Notifications
  BY ConstantsAssumption DEF IInv, TypeOK, ThreadsOK, ClientsOK, Threads
<1>1. ASSUME NEW e \in Events, ProcessOrderedEvent(e) PROVE loc'["main"].abort = FALSE
  BY <1>0, <1>1 DEF ProcessOrderedEvent, NoLocals
<1>2. CASE RemoveSubscriber
  BY <1>0, <1>2 DEF RemoveSubscriber, NoLocals
<1>3. ASSUME NEW o \in owed, NEW abort \in BOOLEAN, FinishReceiver(o, abort)
      PROVE  \/ Rests("main")
             \/ /\ pc'["main"] = "finishRead" /\ queue # <<>> /\ loc'["main"].sp = Head(queue)
                /\ ev[Head(queue)].cur # None
  <2>1. CASE Matches(o.to)
    <3>1. /\ pc' = [pc EXCEPT !["main"] = "finishRead"]
          /\ loc' = [loc EXCEPT !["main"] = [NoLocals EXCEPT !.call = "finish",
                         !.sp = Head(queue), !.abort = abort]]
      BY <1>3, <2>1 DEF FinishReceiver, Goto
    <3>2. loc'["main"].sp = Head(queue) /\ pc'["main"] = "finishRead"
      BY <1>0, <3>1 DEF NoLocals
    <3>3. queue # <<>> /\ ev[Head(queue)].cur = o.to
      BY <2>1 DEF Matches
    <3>4. o.to # None
      BY <1>0, <1>3 DEF Notifications
    <3> QED BY <3>2, <3>3, <3>4
  <2>2. CASE ~Matches(o.to)
    BY <1>3, <2>2 DEF FinishReceiver, Rests, Keep, threadVars
  <2> QED BY <2>1, <2>2
<1>4. ASSUME NEW s \in Subscribers, UnsubscribeCommonEvent(s) PROVE loc'["main"].abort = FALSE
  <2>1. CASE Matches(s)
    BY <1>0, <1>4, <2>1 DEF UnsubscribeCommonEvent, NoLocals
  <2>2. CASE ~Matches(s)
    BY <1>0, <1>4, <2>2 DEF UnsubscribeCommonEvent, NoLocals
  <2> QED BY <2>1, <2>2
<1> QED BY <1>1, <1>2, <1>3, <1>4 DEF MainCall

LEMMA HandlerClears ==
  ASSUME IInv, Flags, HandlerCall
  PROVE  loc'["ordered"].abort = FALSE
<1>0. /\ ThreadsOK /\ pc \in [Threads -> Labels] /\ loc \in [Threads -> Locals] /\ "ordered" \in Threads
  BY DEF IInv, TypeOK, ThreadsOK, Threads
<1>1. CASE TakeStart \/ TakeTimeout
  BY <1>0, <1>1 DEF TakeStart, TakeTimeout, NoLocals
<1>2. CASE TimeoutCheck
  <2>1. loc["ordered"].abort = FALSE
    BY <1>0, <1>2 DEF TimeoutCheck, Flags, Carrying, Locals
  <2>2. \/ Leave("ordered")
        \/ \E e : loc' = [loc EXCEPT !["ordered"].sp = e]
        \/ \E e, d : loc' = [loc EXCEPT !["ordered"].sp = e, !["ordered"].due = d]
    BY <1>2 DEF TimeoutCheck
  <2>3. CASE Leave("ordered")
    BY <1>0, <2>3, LeaveClears
  <2>4. CASE \E e : loc' = [loc EXCEPT !["ordered"].sp = e]
    BY <1>0, <2>1, <2>4 DEF Locals
  <2>5. CASE \E e, d : loc' = [loc EXCEPT !["ordered"].sp = e, !["ordered"].due = d]
    BY <1>0, <2>1, <2>5 DEF Locals
  <2> QED BY <2>2, <2>3, <2>4, <2>5
<1> QED BY <1>1, <1>2 DEF HandlerCall

LEMMA FlagsStep ==
  ASSUME IInv, PInv, Next
  PROVE  Flags'
<1> SUFFICES ASSUME NEW t \in Threads
             PROVE  /\ loc'[t].abort = TRUE => pc'[t] \in Carrying
                    /\ loc'[t].force = TRUE => pc'[t] \in FinishSteps \cup ScheduleSteps \cup {"settle"}
                    /\ pc'[t] = "settle" => loc'[t].force = TRUE
  BY DEF Flags
<1>0. /\ pc \in [Threads -> Labels] /\ loc \in [Threads -> Locals] /\ TRUE # FALSE
      /\ Threads = {"main", "ordered"}
  BY DEF IInv, TypeOK, ThreadsOK, Threads
<1>1. ASSUME loc'[t].abort = TRUE PROVE pc'[t] \in Carrying
  <2>1. CASE Rests(t)
    BY <1>1, <2>1 DEF Rests, PInv, Flags
  <2>2. CASE Step(t)
    BY <1>1, <2>2, AbortStep DEF PInv, Carrying
  <2>3. CASE t = "main" /\ MainCall
    <3>1. ~EnqueueOrderedRecord
      BY <1>0, <1>1, <2>3 DEF EnqueueOrderedRecord, PInv, Flags, Carrying
    <3> QED BY <1>0, <1>1, <2>1, <2>3, <3>1, MainCallEnters DEF Carrying
  <2>4. CASE t = "ordered" /\ HandlerCall
    BY <1>0, <1>1, <2>4, HandlerClears DEF PInv
  <2> QED BY <2>1, <2>2, <2>3, <2>4, Actors
<1>2. /\ loc'[t].force = TRUE => pc'[t] \in FinishSteps \cup ScheduleSteps \cup {"settle"}
      /\ pc'[t] = "settle" => loc'[t].force = TRUE
  <2>0. /\ loc[t].force = TRUE => pc[t] \in FinishSteps \cup ScheduleSteps \cup {"settle"}
        /\ pc[t] = "settle" => loc[t].force = TRUE
        /\ loc[t].force \in BOOLEAN
    BY <1>0 DEF PInv, Flags, Locals
  <2>1. CASE Still
    BY <2>0, <2>1 DEF Still, Keep
  <2>2. ASSUME NEW u \in Threads, u # t, Path(u) PROVE pc'[t] = pc[t] /\ loc'[t] = loc[t]
    BY <2>2 DEF Path, Others
  <2>3. CASE Path(t)
    BY <1>0, <2>0, <2>3 DEF Path, Goes, Keep, Left, Entered, Edges, ArmSteps, ScheduleSteps, FinishSteps
  <2> QED BY <2>0, <2>1, <2>2, <2>3, NextPath DEF IInv
<1> QED BY <1>1, <1>2

\* A call is forced on by LoopForce, and stays with its record.
LEMMA ForceStep ==
  ASSUME IInv, PInv, Next, NEW t \in Threads, loc'[t].force = TRUE
  PROVE  \/ loc[t].force = TRUE /\ loc'[t].sp = loc[t].sp
         \/ LoopForce(t) /\ loc'[t].sp = Head(queue) /\ queue # <<>>
<1>0. /\ ThreadsOK /\ pc \in [Threads -> Labels] /\ loc \in [Threads -> Locals] /\ TRUE # FALSE
      /\ loc[t].force \in BOOLEAN
  BY DEF IInv, TypeOK, ThreadsOK, Locals
<1>1. pc'[t] \in FinishSteps \cup ScheduleSteps \cup {"settle"}
  BY FlagsStep DEF Flags
<1>2. loc[t].force = TRUE => pc[t] \in FinishSteps \cup ScheduleSteps \cup {"settle"}
  BY DEF PInv, Flags
<1>3. CASE Rests(t)
  BY <1>3 DEF Rests, Keep
<1>4. CASE Step(t)
  <2>1. Path(t)
    BY <1>4, ThreadStep DEF IInv
  <2>2. CASE pc[t] = "loop"
    <3>1. pc'[t] \notin {"idle", "remove", "retire", "setTime"}
      BY <1>1 DEF FinishSteps, ScheduleSteps
    <3>2. LoopForce(t)
      BY <1>0, <1>4, <2>2, <3>1, StepAt, LeaveStep, ConcludeClients
         DEF LoopReturn, LoopDispatch, Goto, Left, IInv
    <3> QED BY <1>0, <3>2 DEF LoopForce, Locals
  <2>3. CASE pc[t] # "loop"
    BY <1>0, <1>1, <1>2, <2>1, <2>3
       DEF Path, Goes, Keep, Left, Entered, Edges, ArmSteps, ScheduleSteps, FinishSteps
  <2> QED BY <2>2, <2>3
<1>5. CASE (t = "main" /\ MainCall) \/ (t = "ordered" /\ HandlerCall)
  <2>1. pc[t] \in {"idle", "enqueue", "remove", "expire"}
    BY <1>5 DEF MainCall, HandlerCall, EnqueueOrderedRecord, RemoveSubscriber, ProcessOrderedEvent,
                FinishReceiver, UnsubscribeCommonEvent, TakeStart, TakeTimeout, TimeoutCheck
  <2>2. CASE Path(t)
    BY <1>0, <1>1, <1>2, <2>1, <2>2
       DEF Path, Goes, Keep, Left, Entered, Edges, ArmSteps, ScheduleSteps, FinishSteps
  <2>3. CASE ~Path(t)
    <3>1. Still \/ \E u \in Threads : Path(u)
      BY NextPath DEF IInv
    <3>2. CASE Still
      BY <3>2 DEF Still, Keep
    <3>3. ASSUME NEW u \in Threads, Path(u) PROVE loc'[t] = loc[t]
      BY <2>3, <3>3 DEF Path, Others
    <3> QED BY <3>1, <3>2, <3>3
  <2> QED BY <2>2, <2>3
<1> QED BY <1>3, <1>4, <1>5, Actors

LEMMA OverdueBegan ==
  ASSUME IInv, BegunRecords, NEW e \in Events, Overdue(e)
  PROVE  ev[e].next > 0
<1>1. ev[e].receivers \in Seq(Subscribers) /\ ev[e].dispatchAge \in Nat \cup {Never} /\ TIMEOUT \in Nat
  BY ConstantsAssumption DEF IInv, TypeOK, RecordsOK, EventRecords
<1>2. ForceLimit(e) \in Nat
  <2>1. Len(ev[e].receivers) \in Nat
    BY <1>1, LenProperties
  <2>2. \A m, n \in Nat : m * n \in Nat
    OBVIOUS
  <2>3. 2 * TIMEOUT \in Nat
    BY <1>1
  <2> QED BY <2>1, <2>2, <2>3 DEF ForceLimit, NumReceivers
<1>3. ev[e].dispatchAge # Never
  BY <1>2 DEF Overdue, Never
<1> QED BY <1>3 DEF BegunRecords

LEMMA BegunCallsStep ==
  ASSUME IInv, PInv, Next
  PROVE  BegunCalls'
<1> SUFFICES ASSUME NEW t \in Threads, loc'[t].abort = TRUE \/ loc'[t].force = TRUE
             PROVE  ev'[loc'[t].sp].next > 0
  BY DEF BegunCalls
<1>0. Threads = {"main", "ordered"} /\ TRUE # FALSE
  BY DEF Threads
<1>1. ASSUME loc[t].abort = TRUE \/ loc[t].force = TRUE
      PROVE  loc[t].sp \in Events /\ ev[loc[t].sp].next > 0
  <2>1. pc[t] \notin {"idle", "lock", "loop", "expire", "remove"}
    BY <1>1 DEF PInv, Flags, FinishSteps, ScheduleSteps, Carrying
  <2> QED BY <1>1, <2>1 DEF PInv, BegunCalls, IInv, Control, CallInv
<1>2. ASSUME queue # <<>> PROVE Head(queue) \in Events
  BY <1>2, HeadOfQueue
<1>3. CASE loc'[t].force = TRUE
  <2>1. CASE LoopForce(t) /\ loc'[t].sp = Head(queue) /\ queue # <<>>
    BY <1>2, <2>1, OverdueBegan, NextStays DEF LoopForce, PInv
  <2> QED BY <1>1, <1>3, <2>1, ForceStep, NextStays DEF PInv
<1>4. CASE loc'[t].abort = TRUE
  <2>1. CASE Rests(t)
    BY <1>1, <1>4, <2>1, NextStays DEF Rests, Keep, PInv
  <2>2. CASE Step(t)
    <3>1. CASE loc[t].abort = TRUE
      BY <1>1, <1>4, <2>2, <3>1, AbortStep, NextStays DEF PInv
    <3>2. CASE loc[t].abort # TRUE
      <4>1. /\ TimeoutMark(t) /\ loc'[t].sp = loc[t].sp
            /\ loc'[t].abort = ev[loc[t].sp].abort
        BY <1>4, <2>2, <3>2, AbortStep DEF PInv
      <4>2. loc[t].sp \in Events
        BY <4>1 DEF TimeoutMark, IInv, Control, CallInv
      <4>3. ev[loc[t].sp].next > 0
        BY <1>4, <4>1, <4>2 DEF PInv, BegunRecords
      <4> QED BY <4>1, <4>2, <4>3, NextStays DEF PInv
    <3> QED BY <3>1, <3>2
  <2>3. CASE t = "main" /\ MainCall
    <3>1. ~EnqueueOrderedRecord \/ (loc[t].abort = TRUE /\ loc'[t].sp = loc[t].sp)
      BY <1>4, <2>3 DEF EnqueueOrderedRecord
    <3>2. CASE queue # <<>> /\ loc'[t].sp = Head(queue) /\ ev[Head(queue)].cur # None
      BY <1>2, <3>2, NextStays DEF PInv, BegunRecords
    <3> QED BY <1>0, <1>1, <1>4, <2>1, <2>3, <3>1, <3>2, MainCallEnters, NextStays DEF PInv
  <2>4. CASE t = "ordered" /\ HandlerCall
    BY <1>0, <1>4, <2>4, HandlerClears DEF PInv
  <2> QED BY <2>1, <2>2, <2>3, <2>4, Actors
<1> QED BY <1>3, <1>4

LEMMA ReadyToRetireStep ==
  ASSUME IInv, PInv, Next
  PROVE  ReadyToRetire'
<1> SUFFICES ASSUME NEW t \in Threads, pc'[t] = "retire"
             PROVE  /\ ev'[loc'[t].sp].resultTo = None
                    /\ \/ ev'[loc'[t].sp].next > 0
                       \/ ev'[loc'[t].sp].next = Len(ev'[loc'[t].sp].receivers)
  BY DEF ReadyToRetire, Over, NumReceivers
<1>0. ev \in [Events -> EventRecords] /\ RecordsOK
  BY DEF IInv, TypeOK, RecordsOK
<1>1. CASE Concluding(t)
  <2> DEFINE e == Head(queue)
  <2>1. /\ e \in Events /\ loc'[t].sp = e
        /\ ev' = [ev EXCEPT ![e].state = "IDLE", ![e].resultTo = None]
    BY <1>1, ConcludeClients DEF Concluding, Conclude
  <2>2. ev[e].next > 0 \/ ev[e].next = NumReceivers(e)
    <3>1. CASE LoopConclude(t)
      <4>1. ev[e].next >= NumReceivers(e) \/ ev[e].abort = TRUE
        BY <1>0, <2>1, <3>1 DEF LoopConclude, Exhausted, EventRecords
      <4>2. /\ ev[e].next <= NumReceivers(e) /\ ev[e].next \in Nat /\ NumReceivers(e) \in Nat
        BY <1>0, <2>1, LenProperties DEF RecordsOK, NumReceivers, EventRecords
      <4> QED BY <2>1, <4>1, <4>2 DEF PInv, BegunRecords
    <3>2. CASE ForceConclude(t)
      <4>1. loc[t].sp = e /\ loc[t].force = TRUE
        BY <3>2 DEF ForceConclude, PInv, Flags, IInv, AtHead, Holds, NextSteps
      <4> QED BY <4>1 DEF PInv, BegunCalls
    <3> QED BY <1>1, <3>1, <3>2 DEF Concluding
  <2>3. /\ ev'[e].resultTo = None /\ ev'[e].next = ev[e].next
        /\ ev'[e].receivers = ev[e].receivers
    BY <1>0, <2>1 DEF EventRecords
  <2> QED BY <2>1, <2>2, <2>3 DEF NumReceivers
<1>2. CASE pc[t] = "retire" /\ ~Retire(t)
  <2> DEFINE e == loc[t].sp
  <2>1. /\ loc'[t].sp = e /\ Holds(t) /\ queue # <<>> /\ e = Head(queue)
        /\ e \in Events \ Publishable
    BY <1>2, Landmarks, HeadOfQueue DEF IInv, AtHead, Holds, NextSteps
  <2>2. ASSUME NEW u \in Threads, Concluding(u) \/ LoopDispatch(u) PROVE FALSE
    <3>1. pc[u] \in {"loop", "settle"}
      BY <2>2 DEF Concluding, LoopConclude, ForceConclude, LoopDispatch
    <3> QED BY <1>2, <2>1, <3>1, HolderIs DEF NextSteps
  <2>3. ~Renewed(e)
    BY <2>1 DEF Renewed
  <2>4. ev'[e].resultTo = ev[e].resultTo
    BY <2>1, <2>2, <2>3, RecordWrites DEF Quiet, Writes
  <2>5. ev'[e].next = ev[e].next /\ ev'[e].receivers = ev[e].receivers
    BY <2>1, <2>2, <2>3, NextMoves, ReceiversStay
  <2> QED BY <1>2, <2>1, <2>4, <2>5 DEF PInv, ReadyToRetire, Over, NumReceivers
<1>3. Concluding(t) \/ (pc[t] = "retire" /\ ~Retire(t))
  <2>0. pc \in [Threads -> Labels]
    BY DEF IInv, TypeOK, ThreadsOK
  <2>1. ~Retire(t)
    BY <2>0 DEF Retire, Goto
  <2>2. CASE pc[t] # "retire"
    <3>1. ~Rests(t) /\ Path(t)
      BY <2>2, NextPath DEF Rests, Still, Path, Others, IInv
    <3>2. pc[t] \in {"loop", "settle"}
      BY <2>2, <3>1 DEF Path, Goes, Left, Entered, Edges, ArmSteps, ScheduleSteps
    <3>3. Step(t)
      BY <3>1, <3>2, Actors DEF MainCall, HandlerCall, EnqueueOrderedRecord, RemoveSubscriber,
           ProcessOrderedEvent, FinishReceiver, UnsubscribeCommonEvent, TakeStart, TakeTimeout, TimeoutCheck
    <3>4. ThreadsOK /\ Control
      BY DEF IInv, TypeOK
    <3> QED BY <2>0, <3>2, <3>3, <3>4, StepAt, LeaveStep
            DEF LoopReturn, LoopForce, LoopDispatch, Goto, Left, Concluding
  <2> QED BY <2>1, <2>2
<1> QED BY <1>1, <1>2, <1>3

LEMMA InitPInv == Init => PInv
<1> SUFFICES ASSUME Init PROVE PInv
  OBVIOUS
<1>1. ASSUME NEW e \in Events
      PROVE  /\ ev[e].next = 0 /\ ev[e].resultTo = StubListener(e) /\ ev[e].cur = None
             /\ ev[e].abort = FALSE /\ ev[e].dispatchAge = Never
  BY DEF Init, NewRecord
<1>2. \A t \in Threads : pc[t] = "idle" /\ loc[t].abort = FALSE /\ loc[t].force = FALSE
  BY DEF Init, NoLocals
<1>3. Unstarted
  BY <1>1 DEF Unstarted, Publishable
<1>4. LastIsTold
  BY <1>1 DEF LastIsTold
<1>5. BegunRecords
  BY <1>1 DEF BegunRecords
<1>6. Flags /\ BegunCalls /\ ReadyToRetire
  BY <1>2 DEF Flags, BegunCalls, ReadyToRetire
<1> QED BY <1>3, <1>4, <1>5, <1>6 DEF PInv

LEMMA NextPInv == IInv /\ PInv /\ [Next]_vars => PInv'
<1>1. ASSUME IInv, PInv, Next PROVE PInv'
  BY <1>1, UnstartedStep, LastIsToldStep, FlagsStep, BegunRecordsStep, BegunCallsStep,
     ReadyToRetireStep DEF PInv
<1>2. ASSUME PInv, UNCHANGED vars PROVE PInv'
  <2>1. ev' = ev /\ pc' = pc /\ loc' = loc /\ published' = published /\ notified' = notified
    BY <1>2 DEF vars, queueVars, clientVars, toldVars, threadVars
  <2>2. Unstarted' /\ BegunRecords' /\ BegunCalls'
    BY <1>2, <2>1 DEF PInv, Unstarted, Publishable, BegunRecords, BegunCalls
  <2>3. LastIsTold' /\ Flags' /\ ReadyToRetire'
    BY <1>2, <2>1 DEF PInv, LastIsTold, StubListener, Flags, ReadyToRetire, Over, NumReceivers
  <2> QED BY <2>2, <2>3 DEF PInv
<1> QED BY <1>1, <1>2

LEMMA PInvariant == Spec => []PInv
  BY InitPInv, NextPInv, Invariant, PTL DEF Spec

-----------------------------------------------------------------------------
(* The refinement: every step is a step of the promise, or stutters *)

Size == [e \in Events |-> IF IsPublished(e) THEN NumReceivers(e) ELSE 0]
Turn == [e \in Events |-> ev[e].next]
Done == [i \in 1..Len(history) |-> history[i].ev]

LEMMA Waits ==
  ASSUME IInv, NEW i \in 1..Len(queue)
  PROVE  queue[i] \in Events /\ IsPublished(queue[i])
  BY QueueDistinct DEF IsPublished, Publishable

\* The record of a published event keeps its receivers.
LEMMA SizeStays ==
  ASSUME IInv, Next, UNCHANGED published
  PROVE  UNCHANGED Size
<1>1. ASSUME NEW e \in Events PROVE IsPublished(e)' = IsPublished(e)
  BY DEF IsPublished
<1>2. ASSUME NEW e \in Events, IsPublished(e) PROVE ev'[e].receivers = ev[e].receivers
  BY <1>2, ReceiversStay DEF Renewed, Publishable, IsPublished
<1> QED BY <1>1, <1>2 DEF Size, NumReceivers

LEMMA TurnStays ==
  ASSUME IInv, PInv, Next, ~\E t \in Threads : LoopDispatch(t)
  PROVE  UNCHANGED Turn
<1>1. ASSUME NEW e \in Events PROVE ev'[e].next = ev[e].next
  BY NextMoves, RenewedFacts DEF Renewed, PInv, Unstarted
<1> QED BY <1>1 DEF Turn

LEMMA AcceptMaps ==
  ASSUME IInv, PInv, Next, EnqueueOrderedRecord
  PROVE  \E e \in Events : Promise!Accept(e)
<1> DEFINE e == loc["main"].sp
<1>1. /\ e \in Publishable /\ e \in Events
      /\ queue' = Append(queue, e) /\ published' = Append(published, e)
      /\ UNCHANGED <<ev, history, notified>>
  BY DEF EnqueueOrderedRecord, clientVars, IInv, Fresh, Publishable
<1> HIDE DEF e
<1>2. \A i \in 1..Len(queue) : queue[i] # e
  BY <1>1, QueueDistinct
<1>3. \A i \in 1..Len(Done) : Done[i] # e
  <2>1. history \in Seq(HistoryRecords) /\ Len(history) \in Nat
    BY LenProperties DEF IInv, TypeOK, LogsOK
  <2>2. Len(Done) = Len(history) /\ \A i \in 1..Len(history) : Done[i] = history[i].ev
    BY <2>1 DEF Done
  <2> QED BY <1>1, <2>2, GoneApart
<1>4. ASSUME NEW f \in Events PROVE IsPublished(f)' <=> IsPublished(f) \/ f = e
  <2>1. published \in Seq(Events) /\ Len(published) \in Nat
    BY LenProperties DEF IInv, TypeOK, LogsOK
  <2>2. /\ Len(published') = Len(published) + 1 /\ published'[Len(published) + 1] = e
        /\ \A i \in 1..Len(published) : published'[i] = published[i]
    BY <1>1, <2>1, AppendProperties
  <2> QED BY <2>1, <2>2 DEF IsPublished
<1>5. /\ NumReceivers(e) \in Nat
      /\ Size' = [Size EXCEPT ![e] = NumReceivers(e)] /\ Size'[e] = NumReceivers(e)
  <2>1. NumReceivers(e) \in Nat
    BY <1>1, LenProperties DEF NumReceivers, IInv, TypeOK, RecordsOK, EventRecords
  <2>2. \A f \in Events : NumReceivers(f)' = NumReceivers(f)
    BY <1>1 DEF NumReceivers
  <2>3. Size' = [f \in Events |-> IF IsPublished(f) \/ f = e THEN NumReceivers(f) ELSE 0]
    BY <1>4, <2>2 DEF Size
  <2> QED BY <1>1, <2>1, <2>3 DEF Size
<1>6. Promise!Accept(e)
  BY <1>1, <1>2, <1>3, <1>5 DEF Promise!Accept, Size, Done
<1> QED BY <1>1, <1>6

\* Nobody retires the event while another thread works on it.
LEMMA NotRetiring ==
  ASSUME IInv, NEW t \in Threads, Holds(t), pc[t] # "retire", queue # <<>>
  PROVE  NumReceivers(Head(queue)) + 1 \notin notified[Head(queue)]
<1>1. \A u \in Threads : pc[u] # "retire"
  BY HolderIs DEF NextSteps
<1> QED BY <1>1, HeadOfQueue DEF IInv, Turns, Retiring

LEMMA GiveTurnMaps ==
  ASSUME IInv, PInv, Next, NEW t \in Threads, LoopDispatch(t), NEW e \in Events, e = Head(queue)
  PROVE  Promise!GiveTurn(e)
<1>1. /\ queue # <<>> /\ pc[t] = "loop" /\ ev' = [ev EXCEPT ![e].next = @ + 1] /\ ~Exhausted(e)
      /\ UNCHANGED <<queue, history, published, notified>>
  BY DEF LoopDispatch, queueVars, clientVars
<1>2. e \in Events /\ IsPublished(e)
  BY <1>1, HeadOfQueue, Waits
<1>3. NumReceivers(e) + 1 \notin notified[e]
  BY <1>1, NotRetiring DEF Holds, NextSteps
<1>4. Turn[e] < Size[e] /\ Size[e] = NumReceivers(e)
  <2>1. ev[e].next \in Nat /\ NumReceivers(e) \in Nat
    BY <1>2, LenProperties DEF NumReceivers, IInv, TypeOK, RecordsOK, EventRecords
  <2> QED BY <1>1, <1>2, <2>1 DEF Exhausted, Turn, Size
<1>5. Turn' = [Turn EXCEPT ![e] = @ + 1]
  <2>1. ev \in [Events -> EventRecords]
    BY DEF IInv, TypeOK, RecordsOK
  <2>2. \A f \in Events : ev'[f].next = (IF f = e THEN ev[f].next + 1 ELSE ev[f].next)
    BY <1>1, <1>2, <2>1 DEF EventRecords
  <2> QED BY <1>2, <2>2 DEF Turn
<1>6. UNCHANGED Size
  BY <1>1, SizeStays
<1> QED
  BY <1>1, <1>3, <1>4, <1>5, <1>6 DEF Promise!GiveTurn, Promise!Last, Turn, Size, Done

LEMMA TellMaps ==
  ASSUME IInv, PInv, Next, NEW t \in Threads, TellReceiver(t),
         NEW e \in Events, queue # <<>>, e = Head(queue), loc[t].sp = e,
         notified' = [notified EXCEPT ![e] = @ \cup {ev[e].next}]
  PROVE  Promise!Tell(e)
<1>1. IsPublished(e) /\ UNCHANGED <<queue, history, published>>
  <2>1. IsPublished(e)
    BY HeadOfQueue, Waits
  <2>2. UNCHANGED queueVars
    BY DEF TellReceiver
  <2> QED BY <2>1, <2>2 DEF queueVars
<1>2. pc[t] = "tell" /\ Giving(t)
  BY DEF TellReceiver, Giving, IInv, Control, CallInv, NextSteps, Going
<1>3. NumReceivers(e) + 1 \notin notified[e]
  BY <1>2, GivingFacts, NotRetiring
<1>4. /\ ev[e].next > 0 /\ ev[e].next \notin notified[e]
  <2>1. ev[e].next \in 1..NumReceivers(e) /\ NumReceivers(e) \in Nat
    BY <1>1, <1>2, GivingFacts, LenProperties DEF NumReceivers, IInv, TypeOK, RecordsOK, EventRecords
  <2> QED BY <1>1, <1>2, <2>1, GivingFacts
<1>5. UNCHANGED Turn
  <2>1. ~\E u \in Threads : LoopDispatch(u)
    BY <1>2, GivingFacts, HolderIs DEF LoopDispatch, NextSteps
  <2> QED BY <2>1, TurnStays
<1>6. UNCHANGED Size
  BY <1>1, SizeStays
<1>7. Size[e] = NumReceivers(e) /\ Turn[e] = ev[e].next
  BY <1>1 DEF Size, Turn
<1> QED
  BY <1>1, <1>3, <1>4, <1>5, <1>6, <1>7 DEF Promise!Tell, Promise!Last, Turn, Size, Done

LEMMA TellLastMaps ==
  ASSUME IInv, PInv, Next, NEW t \in Threads, Concluding(t),
         NEW e \in Events, queue # <<>>, e = Head(queue), ev[e].resultTo # None,
         notified' = [notified EXCEPT ![e] = @ \cup {NumReceivers(e) + 1}]
  PROVE  Promise!TellLast(e)
<1>1. /\ e \in Events /\ IsPublished(e) /\ queue # <<>> /\ Holds(t) /\ pc[t] # "retire"
      /\ pc'[t] = "retire" /\ loc'[t].sp = e
      /\ notified' = [notified EXCEPT ![e] = @ \cup {NumReceivers(e) + 1}]
      /\ UNCHANGED <<queue, history, published>>
  BY HeadOfQueue, Waits, ConcludeClients DEF Concluding, Conclude, queueVars
<1>2. StubListener(e) # None
  BY <1>1 DEF PInv, LastIsTold
<1>3. NumReceivers(e) + 1 \notin notified[e]
  BY <1>1, NotRetiring
<1>4. UNCHANGED Turn
  <2>1. ~\E u \in Threads : LoopDispatch(u)
    <3>1. ASSUME NEW u \in Threads, LoopDispatch(u) PROVE FALSE
      <4>1. u = t
        BY <1>1, <3>1, HolderIs DEF LoopDispatch, NextSteps
      <4>2. pc'[t] = "setTime"
        BY <3>1, <4>1 DEF LoopDispatch, Goto, IInv, TypeOK, ThreadsOK
      <4> QED BY <1>1, <4>2
    <3> QED BY <3>1
  <2> QED BY <2>1, TurnStays
<1>5. UNCHANGED Size
  BY <1>1, SizeStays
<1>6. Size[e] = NumReceivers(e) /\ Turn[e] = ev[e].next
  BY <1>1 DEF Size, Turn
<1>7. Turn[e] = Size[e] \/ Turn[e] > 0
  <2>1. ev'[e].next > 0 \/ ev'[e].next = Len(ev'[e].receivers)
    BY <1>1, ReadyToRetireStep DEF ReadyToRetire, Over, NumReceivers
  <2>2. ev'[e].next = ev[e].next /\ ev'[e].receivers = ev[e].receivers
    <3>1. e \notin Publishable
      BY <1>1 DEF IsPublished, Publishable
    <3> QED BY <1>1, <1>4, <3>1, ReceiversStay DEF Turn, Renewed
  <2> QED BY <1>6, <2>1, <2>2 DEF NumReceivers
<1> QED
  BY <1>1, <1>2, <1>3, <1>4, <1>5, <1>6, <1>7
     DEF Promise!TellLast, Promise!Over, Promise!Last, Turn, Size, Done

LEMMA RetireMaps ==
  ASSUME IInv, PInv, Next, NEW t \in Threads, Retire(t), NEW e \in Events, e = Head(queue)
  PROVE  Promise!Retire(e)
<1>1. /\ pc[t] = "retire" /\ queue' = Tail(queue)
      /\ UNCHANGED <<ev, published, notified>>
  BY DEF Retire, clientVars
<1>2. Holds(t) /\ queue # <<>> /\ loc[t].sp = e /\ e \in Events /\ IsPublished(e)
  BY <1>1, HeadOfQueue, Waits DEF Holds, NextSteps, IInv, AtHead
<1>3. ev[e].resultTo = None /\ Over(e)
  BY <1>1, <1>2 DEF PInv, ReadyToRetire
<1>4. StubListener(e) # None => NumReceivers(e) + 1 \in notified[e]
  BY <1>2, <1>3 DEF PInv, LastIsTold
<1>5. Size[e] = NumReceivers(e) /\ Turn[e] = ev[e].next
  BY <1>2 DEF Size, Turn
<1>6. UNCHANGED Size /\ UNCHANGED Turn
  BY <1>1, SizeStays DEF Turn
<1>7. Done' = Append(Done, e)
  BY RetireHistory DEF Done, Gone
<1> QED
  BY <1>1, <1>2, <1>3, <1>4, <1>5, <1>6, <1>7
     DEF Promise!Retire, Promise!Over, Promise!Last, Turn, Size, Done, Over

\* A step that touches neither the queue, the logs, the turns nor the clients.
LEMMA PromiseStutters ==
  ASSUME IInv, PInv, Next, UNCHANGED queueVars, UNCHANGED notified,
         ~\E t \in Threads : LoopDispatch(t)
  PROVE  UNCHANGED Promise!vars
<1>1. UNCHANGED Size /\ UNCHANGED Turn /\ UNCHANGED Done
  BY SizeStays, TurnStays DEF queueVars, Done
<1>2. queue' = queue /\ notified' = notified
  BY DEF queueVars
<1> QED BY <1>1, <1>2 DEF Promise!vars, Size, Turn, Done

LEMMA StepKeepsPromise ==
  ASSUME IInv, PInv, Next
  PROVE  Promise!Next \/ UNCHANGED Promise!vars
<1>1. CASE EnqueueOrderedRecord
  BY <1>1, AcceptMaps DEF Promise!Next
<1>2. ASSUME queue # <<>>,
             \E t \in Threads : Retire(t) \/ LoopDispatch(t) \/ ~UNCHANGED notified
      PROVE  Promise!Next
  <2>1. PICK e \in Events : e = Head(queue)
    BY <1>2, HeadOfQueue
  <2>2. Promise!Retire(e) \/ Promise!GiveTurn(e) \/ Promise!Tell(e) \/ Promise!TellLast(e)
    BY <1>2, <2>1, RetireMaps, GiveTurnMaps, NotifiedBy, TellMaps, TellLastMaps
  <2> QED BY <2>2 DEF Promise!Next
<1>3. ASSUME \E t \in Threads : Retire(t) \/ LoopDispatch(t) \/ ~UNCHANGED notified
      PROVE  queue # <<>>
  BY <1>3, NotifiedBy, RetireHistory DEF LoopDispatch
<1>4. CASE UNCHANGED queueVars /\ UNCHANGED notified /\ ~\E t \in Threads : LoopDispatch(t)
  BY <1>4, PromiseStutters
<1> QED BY <1>1, <1>2, <1>3, <1>4, Writers DEF Threads

LEMMA InitPromise == Init => Promise!Init
<1> SUFFICES ASSUME Init PROVE Promise!Init
  OBVIOUS
<1>1. queue = <<>> /\ history = <<>> /\ published = <<>> /\ notified = [e \in Events |-> {}]
  BY DEF Init
<1>2. \A e \in Events : ev[e].next = 0 /\ ~IsPublished(e)
  BY <1>1 DEF Init, NewRecord, IsPublished
<1>3. [i \in 1..Len(history) |-> history[i].ev] = <<>>
  BY <1>1
<1> QED BY <1>1, <1>2, <1>3 DEF Promise!Init

\* ProcessNextOrderedEvent, run by two threads against unlocked finishes,
\* timeouts, unsubscriptions and deaths, implements the promise: one event at a
\* time in the order of publishing, its receivers in turn, each told at most
\* once, the last subscriber after them and before the event is retired.
THEOREM PromiseIsKept == Spec => KeepsPromise
<1>1. IInv /\ PInv /\ [Next]_vars => [Promise!Next]_Promise!vars
  <2> SUFFICES ASSUME IInv, PInv, [Next]_vars PROVE Promise!Next \/ UNCHANGED Promise!vars
    OBVIOUS
  <2>1. CASE Next
    BY <2>1, StepKeepsPromise
  <2>2. CASE UNCHANGED vars
    <3>1. ev' = ev /\ queue' = queue /\ history' = history /\ published' = published /\ notified' = notified
      BY <2>2 DEF vars, queueVars, clientVars, toldVars
    <3> QED BY <3>1 DEF Promise!vars, IsPublished, NumReceivers
  <2> QED BY <2>1, <2>2
<1> QED BY <1>1, InitPromise, Invariant, PInvariant, PTL DEF Spec, KeepsPromise, Promise!Spec

-----------------------------------------------------------------------------
(* What becomes of each receiver *)

\* A thread is giving the turn to receiver nextReceiver of e.
TurnGiven(e) == \E t \in Threads : Giving(t) /\ loc[t].sp = e

\* A thread is about to tell receiver nextReceiver of e.
BeingTold(e) == \E t \in Threads : pc[t] \in {"cast", "tell"} /\ loc[t].sp = e

-----------------------------------------------------------------------------
(* The delivery states of an event that is still in the queue *)

\* A receiver is PENDING until its turn; after its turn it is not, and one
\* that was or is being told is DELIVERED, or TIMEOUT once its time ran out.
Marks ==
    \A e \in Events : \A i \in 1..NumReceivers(e) :
        /\ i > ev[e].next => ev[e].delivery[i] = "PENDING"
        /\ i <= ev[e].next /\ ev[e].delivery[i] = "PENDING" => i = ev[e].next /\ TurnGiven(e)
        /\ i \in notified[e] \/ (i = ev[e].next /\ BeingTold(e))
              => ev[e].delivery[i] \in {"DELIVERED", "TIMEOUT"}

\* Only the state of receiver nextReceiver changes, and never to PENDING.
LEMMA DeliveryMoves ==
  ASSUME IInv, Next, NEW e \in Events, ~Renewed(e)
  PROVE  \/ ev'[e].delivery = ev[e].delivery
         \/ /\ ev[e].next > 0 /\ ev'[e].next = ev[e].next
            /\ \E d \in Deliveries \ {"PENDING"} :
                 /\ ev'[e].delivery = [ev[e].delivery EXCEPT ![ev[e].next] = d]
                 /\ d = "SKIPPED" => UNCHANGED notified /\ ev[e].next \notin notified[e]
<1>0. ev \in [Events -> EventRecords]
  BY DEF IInv, TypeOK, RecordsOK
<1>1. CASE Quiet(e)
  BY <1>1 DEF Quiet
<1>2. ASSUME NEW t \in Threads, e = loc[t].sp, NotifyOrderedEvent(t) \/ ParkFrozen(t)
      PROVE  Giving(t) /\ ev[e].next > 0 /\ ev[e].next \notin notified[e]
  <2>1. Giving(t)
    BY <1>2 DEF NotifyOrderedEvent, ParkFrozen, Giving, IInv, Control, CallInv, NextSteps, Going
  <2> QED BY <1>2, <2>1, GivingFacts
<1>3. ASSUME NEW t \in Threads, e = loc[t].sp, NotifyOrderedEvent(t)
      PROVE  \/ ev'[e].delivery = ev[e].delivery
             \/ \E d \in Deliveries \ {"PENDING"} :
                  /\ ev'[e].delivery = [ev[e].delivery EXCEPT ![ev[e].next] = d]
                  /\ d = "SKIPPED" => UNCHANGED notified
  <2>1. /\ "SKIPPED" \in Deliveries \ {"PENDING"} /\ "DELIVERED" \in Deliveries \ {"PENDING"}
        /\ "DELIVERED" # "SKIPPED"
    BY DEF Deliveries
  <2>2. \/ Marked(e, ev[e].next, "SKIPPED", ev[e].cur, ev[e].state) /\ UNCHANGED clientVars
        \/ UNCHANGED ev
        \/ \E cur, state : Marked(e, ev[e].next, "DELIVERED", cur, state)
    BY <1>3, NotifyOutcome
  <2>3. CASE UNCHANGED ev
    BY <2>3
  <2>4. CASE Marked(e, ev[e].next, "SKIPPED", ev[e].cur, ev[e].state) /\ UNCHANGED clientVars
    BY <2>1, <2>4 DEF Marked, clientVars
  <2>5. CASE \E cur, state : Marked(e, ev[e].next, "DELIVERED", cur, state)
    BY <2>1, <2>5 DEF Marked
  <2> QED BY <2>2, <2>3, <2>4, <2>5
<1>4. ASSUME NEW t \in Threads, e = loc[t].sp, ParkFrozen(t)
      PROVE  ev'[e].delivery = [ev[e].delivery EXCEPT ![ev[e].next] = "SKIPPED"] /\ UNCHANGED notified
  BY <1>0, <1>4 DEF ParkFrozen, EventRecords, clientVars
<1>5. ASSUME NEW t \in Threads, e = loc[t].sp, TimeoutMark(t)
      PROVE  \/ ev'[e].delivery = ev[e].delivery
             \/ /\ ev[e].next > 0
                /\ ev'[e].delivery = [ev[e].delivery EXCEPT ![ev[e].next] = "TIMEOUT"]
  BY <1>0, <1>5 DEF TimeoutMark, EventRecords
<1>6. ASSUME NEW t \in Threads, e = loc[t].sp,
             NotifyOrderedEvent(t) \/ ParkFrozen(t) \/ TimeoutMark(t)
      PROVE  ev'[e].next = ev[e].next
  <2>1. CASE NotifyOrderedEvent(t)
    <3>1. \/ UNCHANGED ev
          \/ ev' = [ev EXCEPT ![e].delivery[ev[e].next] = "SKIPPED"]
          \/ \E c : ev' = [ev EXCEPT ![e].delivery[ev[e].next] = "DELIVERED", ![e].cur = c,
                                     ![e].state = "RECEIVEING"]
      BY <1>6, <2>1, Zenon DEF NotifyOrderedEvent
    <3> QED BY <1>0, <3>1 DEF EventRecords
  <2>2. CASE ParkFrozen(t)
    BY <1>0, <1>6, <2>2 DEF ParkFrozen, EventRecords
  <2>3. CASE TimeoutMark(t)
    BY <1>0, <1>6, <2>3 DEF TimeoutMark, EventRecords
  <2> QED BY <1>6, <2>1, <2>2, <2>3
<1>7. \A d \in {"SKIPPED", "TIMEOUT"} : d \in Deliveries \ {"PENDING"}
  BY DEF Deliveries
<1> QED
  BY <1>1, <1>2, <1>3, <1>4, <1>5, <1>6, <1>7, RecordWrites DEF Writes

\* The next turn begins: the receiver is PENDING and its turn is being given.
LEMMA DispatchTurns ==
  ASSUME IInv, Next, NEW t \in Threads, LoopDispatch(t)
  PROVE  LET e == Head(queue)
         IN  /\ e \in Events \ Publishable /\ Holds(t) /\ pc[t] = "loop" /\ TurnGiven(e)'
             /\ ev'[e].next = ev[e].next + 1 /\ ev'[e].delivery = ev[e].delivery
             /\ UNCHANGED <<notified, sub, parked, replay>>
             /\ \A f \in Events : ~(Giving(t) /\ loc[t].sp = f)
             /\ \A f \in Events \ {e} : ev'[f] = ev[f]
<1> DEFINE e == Head(queue)
<1>0. /\ ev \in [Events -> EventRecords] /\ pc \in [Threads -> Labels] /\ loc \in [Threads -> Locals]
      /\ "timeout" \notin Going
  BY DEF IInv, TypeOK, RecordsOK, ThreadsOK, Going
<1>1. e \in Events \ Publishable /\ Holds(t) /\ pc[t] = "loop"
  BY HeadOfQueue DEF LoopDispatch, Holds, NextSteps
<1>2. /\ ev'[e].next = ev[e].next + 1 /\ ev'[e].delivery = ev[e].delivery
      /\ \A f \in Events \ {e} : ev'[f] = ev[f]
  BY <1>0, <1>1 DEF LoopDispatch, EventRecords
<1>3. UNCHANGED <<notified, sub, parked, replay>>
  BY DEF LoopDispatch, clientVars, registryVars
<1>4. pc'[t] = "setTime" /\ loc'[t].sp = e /\ loc'[t].call = loc[t].call
  BY <1>0 DEF LoopDispatch, Goto, Locals
<1>5. TurnGiven(e)'
  <2>1. loc[t].call # "timeout"
    BY <1>0, <1>1 DEF IInv, Control, CallInv, NextSteps
  <2>2. Giving(t)'
    BY <1>4, <2>1 DEF Giving
  <2>3. loc'[t].sp = Head(queue')
    BY <1>4 DEF LoopDispatch, queueVars
  <2> QED BY <2>2, <2>3 DEF TurnGiven
<1> QED BY <1>1, <1>2, <1>3, <1>5 DEF Giving, ArmSteps

\* A turn that is being given is no longer given only when one of these steps
\* ended it.
LEMMA TurnEnds ==
  ASSUME IInv, Next, NEW e \in Events, TurnGiven(e), ~TurnGiven(e)'
  PROVE  \E t \in Threads : /\ Giving(t) /\ loc[t].sp = e
                            /\ \/ ParkFrozen(t) \/ TellReceiver(t)
                               \/ NotifyOrderedEvent(t) /\ pc'[t] = "check"
                               \/ CastReceiver(t) /\ pc'[t] = "check"
  BY GivingStays DEF TurnGiven

\* A receiver is about to be told once NotifyOrderedEvent has come to it.
LEMMA TellingBegins ==
  ASSUME IInv, Next, NEW e \in Events, NEW t \in Threads,
         pc'[t] \in {"cast", "tell"}, loc'[t].sp = e
  PROVE  /\ loc[t].sp = e /\ Giving(t)
         /\ pc[t] \in {"cast", "tell"} \/ (NotifyOrderedEvent(t) /\ pc'[t] = "cast")
         /\ pc[t] = "tell" => pc'[t] = "tell"
<1>0. CallInv(t)
  BY DEF IInv, Control
<1>1. CASE Rests(t)
  BY <1>0, <1>1 DEF Rests, Keep, Giving, CallInv, NextSteps, Going
<1>2. CASE Step(t)
  <2>1. Path(t)
    BY <1>2, ThreadStep DEF IInv
  <2>2. /\ loc[t].sp = e
        /\ (pc[t] = "notify" /\ pc'[t] = "cast") \/ pc[t] = "cast"
    BY <2>1 DEF Path, Goes, Keep, Left, Entered, Edges, ArmSteps, ScheduleSteps
  <2> QED BY <1>0, <1>2, <2>2, StepAt DEF Giving, CallInv, NextSteps, Going
<1>3. ~((t = "main" /\ MainCall) \/ (t = "ordered" /\ HandlerCall))
  <2>1. ASSUME Path(t), pc[t] \in Outside PROVE FALSE
    BY <2>1 DEF Path, Goes, Keep, Left, Entered, Edges, ArmSteps, ScheduleSteps, Outside
  <2>2. ASSUME (t = "main" /\ MainCall) \/ (t = "ordered" /\ HandlerCall) PROVE pc[t] \in Outside
    BY <2>2 DEF MainCall, HandlerCall, EnqueueOrderedRecord, RemoveSubscriber, ProcessOrderedEvent,
                FinishReceiver, UnsubscribeCommonEvent, TakeStart, TakeTimeout, TimeoutCheck, Outside
  <2>3. ASSUME ~Path(t) PROVE Rests(t) \/ Step(t) \/ (pc'[t] = pc[t])
    <3>1. Still \/ \E u \in Threads : Path(u)
      BY NextPath DEF IInv
    <3>2. ASSUME NEW u \in Threads, Path(u) PROVE pc'[t] = pc[t]
      BY <2>3, <3>2 DEF Path, Others
    <3>3. CASE Still
      BY <3>3 DEF Still
    <3> QED BY <3>1, <3>2, <3>3
  <2>4. ASSUME pc[t] \in Outside, pc'[t] = pc[t] PROVE FALSE
    BY <2>4 DEF Outside
  <2>5. ASSUME pc[t] \in Outside, Rests(t) \/ Step(t) PROVE FALSE
    BY <2>5, StepAt DEF Outside, Rests
  <2> QED BY <2>1, <2>2, <2>3, <2>4, <2>5
<1> QED BY <1>1, <1>2, <1>3, Actors

\* The receiver about to be told is marked DELIVERED, or TIMEOUT by now.
LEMMA BeingToldMarks ==
  ASSUME IInv, Marks, Next, NEW e \in Events, BeingTold(e)'
  PROVE  ev'[e].delivery[ev'[e].next] \in {"DELIVERED", "TIMEOUT"}
<1>1. PICK t \in Threads :
         /\ loc[t].sp = e /\ Giving(t)
         /\ pc[t] \in {"cast", "tell"} \/ (NotifyOrderedEvent(t) /\ pc'[t] = "cast")
  BY TellingBegins DEF BeingTold
<1> DEFINE i == ev[e].next
<1>2. i \in 1..NumReceivers(e) /\ i \in DOMAIN ev[e].delivery /\ e \notin Publishable
  BY <1>1, GivingFacts, LenProperties DEF IInv, TypeOK, RecordsOK, EventRecords, NumReceivers
<1>3. ~Renewed(e) /\ ev'[e].next = i
  <2>1. ~\E u \in Threads : LoopDispatch(u)
    BY <1>1, HolderIs, GivingFacts DEF LoopDispatch, NextSteps
  <2> QED BY <1>2, <2>1, NextMoves DEF Renewed
<1>4. CASE NotifyOrderedEvent(t) /\ pc'[t] = "cast"
  <2>1. ~Goto(t, "park") /\ ~Goto(t, "check")
    BY <1>4 DEF Goto, IInv, TypeOK, ThreadsOK
  <2>2. ev'[e].delivery = [ev[e].delivery EXCEPT ![i] = "DELIVERED"]
    BY <1>1, <1>4, <2>1, NotifyOutcome DEF Marked
  <2> QED BY <1>2, <1>3, <2>2
<1>5. CASE pc[t] \in {"cast", "tell"}
  <2>1. ev[e].delivery[i] \in {"DELIVERED", "TIMEOUT"}
    BY <1>1, <1>2, <1>5 DEF Marks, BeingTold
  <2>2. ASSUME NEW u \in Threads, NotifyOrderedEvent(u) \/ ParkFrozen(u) PROVE FALSE
    <3>1. pc[u] \in {"notify", "park"}
      BY <2>2 DEF NotifyOrderedEvent, ParkFrozen
    <3> QED BY <1>1, <1>5, <3>1, HolderIs, GivingFacts DEF NextSteps
  <2>3. ASSUME NEW u \in Threads, e = loc[u].sp, TimeoutMark(u)
        PROVE  ev'[e].delivery = [ev[e].delivery EXCEPT ![i] = "TIMEOUT"] \/ ev'[e].delivery = ev[e].delivery
    BY <2>3 DEF TimeoutMark, IInv, TypeOK, RecordsOK, EventRecords
  <2>4. \/ ev'[e].delivery = ev[e].delivery
        \/ ev'[e].delivery = [ev[e].delivery EXCEPT ![i] = "TIMEOUT"]
    BY <1>3, <2>2, <2>3, RecordWrites DEF Quiet, Writes
  <2> QED BY <1>2, <1>3, <2>1, <2>4
<1> QED BY <1>1, <1>4, <1>5

LEMMA MarksStep ==
  ASSUME IInv, Marks, Next
  PROVE  Marks'
<1> SUFFICES ASSUME NEW e \in Events, NEW i \in 1..Len(ev'[e].receivers)
             PROVE  /\ i > ev'[e].next => ev'[e].delivery[i] = "PENDING"
                    /\ i <= ev'[e].next /\ ev'[e].delivery[i] = "PENDING"
                          => i = ev'[e].next /\ TurnGiven(e)'
                    /\ i \in notified'[e] => ev'[e].delivery[i] \in {"DELIVERED", "TIMEOUT"}
  BY BeingToldMarks DEF Marks, NumReceivers
<1>0. /\ ev \in [Events -> EventRecords] /\ ev[e].next \in Nat /\ Len(ev[e].receivers) \in Nat
      /\ Len(ev[e].delivery) = Len(ev[e].receivers)
      /\ \A f \in Publishable : notified[f] = {}
  BY LenProperties DEF IInv, TypeOK, RecordsOK, EventRecords, Fresh
<1>1. CASE Renewed(e)
  <2>1. ev'[e].next = 0 /\ ev'[e].delivery[i] = "PENDING"
    BY <1>1, RenewedMarks
  <2>2. notified'[e] = {}
    <3>1. e \in Publishable /\ (queue # <<>> => e # Head(queue))
      BY <1>1, HeadOfQueue DEF Renewed
    <3> QED BY <1>0, <3>1, NotifiedGrows
  <2>3. i >= 1
    <3>1. ev'[e].receivers \in Seq(Subscribers)
      BY RecordsStep DEF RecordsOK, EventRecords
    <3> QED BY <3>1, LenProperties
  <2> QED BY <2>1, <2>2, <2>3
<1>2. ASSUME ~Renewed(e), NEW t \in Threads, LoopDispatch(t), e = Head(queue)
      PROVE  /\ i > ev'[e].next => ev'[e].delivery[i] = "PENDING"
             /\ i <= ev'[e].next /\ ev'[e].delivery[i] = "PENDING"
                   => i = ev'[e].next /\ TurnGiven(e)'
             /\ i \in notified'[e] => ev'[e].delivery[i] \in {"DELIVERED", "TIMEOUT"}
  <2>1. /\ ev'[e].next = ev[e].next + 1 /\ ev'[e].delivery = ev[e].delivery
        /\ TurnGiven(e)' /\ notified' = notified
    <3>1. TurnGiven(Head(queue))' <=> TurnGiven(e)'
      BY <1>2 DEF TurnGiven, LoopDispatch, queueVars
    <3> QED BY <1>2, <3>1, DispatchTurns
  <2>2. ~TurnGiven(e)
    <3>1. ASSUME NEW u \in Threads, Giving(u), loc[u].sp = e PROVE FALSE
      BY <1>2, <3>1, DispatchTurns, HolderIs
    <3> QED BY <3>1 DEF TurnGiven
  <2>3. i \in 1..NumReceivers(e)
    BY <1>2, ReceiversStay DEF NumReceivers
  <2> QED BY <1>0, <2>1, <2>2, <2>3 DEF Marks
<1>3. CASE ~Renewed(e) /\ ev'[e].next = ev[e].next
  <2>0. i \in 1..NumReceivers(e) /\ i \in Nat
    BY <1>0, <1>3, ReceiversStay DEF NumReceivers
  <2>n. ASSUME i \in notified'[e], i \notin notified[e]
        PROVE  \E t \in Threads : /\ TellReceiver(t) /\ loc[t].sp = e /\ i = ev[e].next
    BY <1>0, <2>n, <2>0, NotifiedGrows DEF NumReceivers
  <2>1. CASE ev'[e].delivery = ev[e].delivery
    <3>1. ASSUME i <= ev[e].next, ev[e].delivery[i] = "PENDING" PROVE TurnGiven(e)'
      <4>1. i = ev[e].next /\ TurnGiven(e)
        BY <2>0, <3>1 DEF Marks
      <4>2. ASSUME NEW t \in Threads, loc[t].sp = e, ParkFrozen(t) PROVE FALSE
        <5>1. ev'[e].delivery = [ev[e].delivery EXCEPT ![i] = "SKIPPED"]
          BY <1>0, <4>1, <4>2 DEF ParkFrozen, EventRecords
        <5>2. i \in DOMAIN ev[e].delivery
          BY <1>0, <2>0, LenProperties DEF NumReceivers, EventRecords
        <5> QED BY <2>1, <3>1, <5>1, <5>2
      <4>3. ASSUME NEW t \in Threads, loc[t].sp = e, NotifyOrderedEvent(t), pc'[t] = "check" PROVE FALSE
        <5>1. PICK d \in {"SKIPPED", "DELIVERED"} : ev'[e].delivery = [ev[e].delivery EXCEPT ![i] = d]
          <6>1. ~Goto(t, "park")
            BY <4>3 DEF Goto, IInv, TypeOK, ThreadsOK
          <6>2. \/ Marked(e, i, "SKIPPED", ev[e].cur, ev[e].state)
                \/ \E cur, state : Marked(e, i, "DELIVERED", cur, state)
            BY <4>1, <4>3, <6>1, NotifyOutcome
          <6> QED BY <6>2 DEF Marked
        <5>2. i \in DOMAIN ev[e].delivery
          BY <1>0, <2>0, LenProperties DEF NumReceivers, EventRecords
        <5> QED BY <2>1, <3>1, <5>1, <5>2
      <4>4. ASSUME NEW t \in Threads, loc[t].sp = e, CastReceiver(t) \/ TellReceiver(t) PROVE FALSE
        BY <2>0, <3>1, <4>1, <4>4 DEF CastReceiver, TellReceiver, BeingTold, Marks
      <4> QED BY <4>1, <4>2, <4>3, <4>4, TurnEnds
    <3>2. ASSUME i \in notified'[e] PROVE ev[e].delivery[i] \in {"DELIVERED", "TIMEOUT"}
      <4>1. CASE i \in notified[e]
        BY <2>0, <4>1 DEF Marks
      <4>2. CASE i \notin notified[e]
        <5>1. PICK t \in Threads : /\ TellReceiver(t) /\ loc[t].sp = e /\ i = ev[e].next
          BY <2>n, <3>2, <4>2
        <5> QED BY <2>0, <5>1 DEF TellReceiver, BeingTold, Marks
      <4> QED BY <4>1, <4>2
    <3> QED BY <1>3, <2>0, <2>1, <3>1, <3>2 DEF Marks
  <2>2. CASE ev'[e].delivery # ev[e].delivery
    <3>1. PICK d \in Deliveries \ {"PENDING"} :
              /\ ev'[e].delivery = [ev[e].delivery EXCEPT ![ev[e].next] = d]
              /\ d = "SKIPPED" => UNCHANGED notified /\ ev[e].next \notin notified[e]
      BY <1>3, <2>2, DeliveryMoves
    <3>2. ev'[e].delivery[i] = (IF i = ev[e].next THEN d ELSE ev[e].delivery[i])
      <4>1. i \in DOMAIN ev[e].delivery
        BY <1>0, <2>0, LenProperties DEF NumReceivers, EventRecords
      <4> QED BY <3>1, <4>1
    <3>3. d \in {"DELIVERED", "TIMEOUT", "SKIPPED"}
      BY DEF Deliveries
    <3>4. CASE i = ev[e].next
      BY <1>3, <2>0, <3>1, <3>2, <3>3, <3>4
    <3>5. CASE i # ev[e].next
      BY <1>3, <2>0, <2>n, <3>2, <3>5 DEF Marks
    <3> QED BY <3>4, <3>5
  <2> QED BY <2>1, <2>2
<1> QED BY <1>1, <1>2, <1>3, NextMoves

-----------------------------------------------------------------------------
(* The history *)

LEMMA HistoryTruthfulStep ==
  ASSUME IInv, Marks, HistoryTruthful, Next
  PROVE  HistoryTruthful'
<1> SUFFICES ASSUME NEW h \in 1..Len(history'), NEW i \in 1..Len(history'[h].delivery)
             PROVE  LET e == history'[h].ev
                        delivery == history'[h].delivery
                    IN  /\ delivery[i] = "PENDING" <=> i > ev'[e].next
                        /\ i \in notified'[e] => delivery[i] \in {"DELIVERED", "TIMEOUT"}
  BY DEF HistoryTruthful
<1>0. history \in Seq(HistoryRecords) /\ Len(history) \in Nat
  BY LenProperties DEF IInv, TypeOK, LogsOK
<1>1. ASSUME h \in 1..Len(history), history'[h] = history[h]
      PROVE  LET e == history'[h].ev
                 delivery == history'[h].delivery
             IN  /\ delivery[i] = "PENDING" <=> i > ev'[e].next
                 /\ i \in notified'[e] => delivery[i] \in {"DELIVERED", "TIMEOUT"}
  <2> DEFINE e == history[h].ev
  <2>1. e \in Events \ Publishable /\ (queue # <<>> => e # Head(queue))
    BY <1>1, GoneApart
  <2>2. ev'[e].next = ev[e].next /\ notified'[e] = notified[e]
    BY <2>1, NextMoves, NotifiedGrows DEF Renewed
  <2> QED BY <1>1, <2>2 DEF HistoryTruthful
<1>2. CASE UNCHANGED queueVars \/ EnqueueOrderedRecord
  BY <1>0, <1>1, <1>2 DEF queueVars, EnqueueOrderedRecord
<1>3. ASSUME NEW t \in Threads, Retire(t)
      PROVE  LET e == history'[h].ev
                 delivery == history'[h].delivery
             IN  /\ delivery[i] = "PENDING" <=> i > ev'[e].next
                 /\ i \in notified'[e] => delivery[i] \in {"DELIVERED", "TIMEOUT"}
  <2> DEFINE r == [ev |-> loc[t].sp, delivery |-> ev[loc[t].sp].delivery, abort |-> ev[loc[t].sp].abort]
             e == loc[t].sp
  <2>1. /\ history' = Append(history, r) /\ ev' = ev /\ notified' = notified
        /\ e \in Events /\ e = Head(queue) /\ queue # <<>> /\ Holds(t) /\ pc[t] = "retire"
    BY <1>3, RetireHistory DEF Retire, clientVars, Holds, NextSteps
  <2>2. r \in HistoryRecords
    BY <2>1 DEF HistoryRecords, IInv, TypeOK, RecordsOK, EventRecords
  <2>r. r.ev = e /\ r.delivery = ev[e].delivery
    OBVIOUS
  <2> HIDE DEF r
  <2>3. /\ Len(history') = Len(history) + 1 /\ history'[Len(history) + 1] = r
        /\ \A j \in 1..Len(history) : history'[j] = history[j]
    BY <1>0, <2>1, <2>2, AppendProperties
  <2>4. CASE h = Len(history) + 1
    <3>1. ~TurnGiven(e)
      <4>1. ASSUME NEW u \in Threads, Giving(u) PROVE FALSE
        <5>1. u = t
          BY <2>1, <4>1, HolderIs
        <5> QED BY <2>1, <4>1, <5>1 DEF Giving, ArmSteps
      <4> QED BY <4>1 DEF TurnGiven
    <3>2. i \in 1..NumReceivers(e) /\ ev[e].next \in Nat /\ NumReceivers(e) \in Nat
      BY <2>1, <2>r, <2>3, <2>4, LenProperties DEF NumReceivers, IInv, TypeOK, RecordsOK, EventRecords
    <3> QED BY <2>1, <2>r, <2>3, <2>4, <3>1, <3>2 DEF Marks
  <2>5. CASE h # Len(history) + 1
    BY <1>0, <1>1, <2>3, <2>5
  <2> QED BY <2>4, <2>5
<1> QED BY <1>1, <1>2, <1>3, Writers

-----------------------------------------------------------------------------
(* Nobody is passed over *)

\* Only registered subscribers are receivers.
Known == \A e \in Events : \A i \in 1..NumReceivers(e) : sub[ev[e].receivers[i]] # "new"

\* A subscription that was made is not undone but by going, once and for all.
LEMMA SubMoves ==
  ASSUME IInv, Next, NEW s \in Subscribers
  PROVE  /\ sub[s] # "new" => sub'[s] # "new"
         /\ sub[s] = "gone" => sub'[s] = "gone"
<1>0. sub \in [Subscribers -> {"new", "live", "gone"}]
  BY DEF IInv, TypeOK, RegistryOK
<1>1. CASE UNCHANGED sub
  BY <1>1
<1>2. ASSUME NEW x, Forget(x) PROVE sub'[s] = sub[s] \/ sub'[s] = "gone"
  BY <1>0, <1>2 DEF Forget
<1>3. ASSUME NEW x, SubscribeCommonEvent(x) PROVE sub'[s] = sub[s] \/ sub[s] = "new"
  BY <1>0, <1>3 DEF SubscribeCommonEvent
<1>4. \/ UNCHANGED sub \/ \E x : Forget(x) \/ SubscribeCommonEvent(x)
  BY Writers DEF registryVars, ParkFrozen, RemoveSubscriber, SubscriberDied, Freeze, Unfreeze
<1> QED BY <1>1, <1>2, <1>3, <1>4

\* An event kept for a frozen subscriber stays kept, or is handed to it, until
\* the subscriber has gone.
LEMMA KeptMoves ==
  ASSUME IInv, Next, NEW s \in Subscribers, NEW e \in Events, sub[s] # "new",
         <<s, e>> \in parked \cup replay
  PROVE  <<s, e>> \in parked' \cup replay' \/ sub'[s] = "gone"
<1>0. /\ sub \in [Subscribers -> {"new", "live", "gone"}]
      /\ parked \subseteq Subscribers \X Events
  BY DEF IInv, TypeOK, RegistryOK
<1>1. CASE parked \subseteq parked' /\ replay' = replay
  BY <1>1
<1>2. ASSUME NEW x, Forget(x) PROVE <<s, e>> \in parked' \cup replay' \/ sub'[s] = "gone"
  <2>1. CASE x = s
    BY <1>0, <1>2, <2>1 DEF Forget
  <2>2. CASE x # s
    <3>1. <<s, e>>[1] # x
      BY <2>2
    <3> QED BY <1>2, <3>1 DEF Forget
  <2> QED BY <2>1, <2>2
<1>3. ASSUME NEW u, Unfreeze(u) PROVE <<s, e>> \in parked' \cup replay' \/ sub'[s] = "gone"
  <2>1. /\ parked' = parked \ {p \in parked : Uid[p[1]] = u} /\ sub' = sub
        /\ replay' = replay \cup {p \in {p \in parked : Uid[p[1]] = u} : sub[p[1]] = "live"}
    BY <1>3 DEF Unfreeze
  <2>2. <<s, e>>[1] = s
    OBVIOUS
  <2>3. sub[s] = "live" \/ sub[s] = "gone"
    BY <1>0
  <2> QED BY <2>1, <2>2, <2>3
<1>4. \/ parked \subseteq parked' /\ replay' = replay
      \/ \E x : Forget(x) \/ Unfreeze(x)
  BY Writers DEF registryVars, ParkFrozen, RemoveSubscriber, SubscribeCommonEvent, SubscriberDied, Freeze
<1> QED BY <1>1, <1>2, <1>3, <1>4

LEMMA KnownStep ==
  ASSUME IInv, Known, Next
  PROVE  Known'
<1> SUFFICES ASSUME NEW e \in Events, NEW i \in 1..Len(ev'[e].receivers)
             PROVE  sub'[ev'[e].receivers[i]] # "new"
  BY DEF Known, NumReceivers
<1>1. ev'[e].receivers[i] \in Subscribers
  <2>1. ev'[e].receivers \in Seq(Subscribers)
    BY RecordsStep DEF RecordsOK, EventRecords
  <2> QED BY <2>1, ElementOfSeq
<1>2. CASE Renewed(e)
  <2>1. sub[ev'[e].receivers[i]] # "new"
    BY <1>2, RenewedFacts
  <2> QED BY <1>1, <2>1, SubMoves
<1>3. CASE ev'[e].receivers = ev[e].receivers
  <2>1. sub[ev'[e].receivers[i]] # "new"
    BY <1>3 DEF Known, NumReceivers
  <2> QED BY <1>1, <2>1, SubMoves
<1> QED BY <1>2, <1>3, ReceiversStay

\* What may have become of receiver i of e, after its turn.
Served(e, i) ==
    LET s == ev[e].receivers[i] IN
    \/ i \in notified[e] \/ <<s, e>> \notin Permitted \/ sub[s] = "gone"
    \/ <<s, e>> \in parked \cup replay \/ i \in crossed[e]

LEMMA PassedOver ==
  NobodyPassedOver <=>
    \A e \in Events : \A i \in 1..ev[e].next : Served(e, i) \/ (i = ev[e].next /\ TurnGiven(e))
  BY DEF NobodyPassedOver, Served, TurnInProgress, TurnGiven, Giving, ArmSteps

LEMMA CrossedGrows ==
  ASSUME IInv, Next, NEW e \in Events
  PROVE  crossed[e] \subseteq crossed'[e]
<1>1. crossed \in [Events -> SUBSET Nat]
  BY DEF IInv, TypeOK, ClientsOK
<1>2. ASSUME NEW t \in Threads, FinishCur(t) PROVE crossed[e] \subseteq crossed'[e]
  <2>1. \/ crossed' = crossed
        \/ crossed' = [crossed EXCEPT ![loc[t].sp] = @ \cup {ev[loc[t].sp].next}]
    BY <1>2 DEF FinishCur
  <2> QED BY <1>1, <2>1
<1> QED BY <1>2, Writers

LEMMA ServedStays ==
  ASSUME IInv, Known, Next, NEW e \in Events, NEW i \in 1..NumReceivers(e), Served(e, i),
         ev'[e].receivers = ev[e].receivers
  PROVE  Served(e, i)'
<1> DEFINE s == ev[e].receivers[i]
<1>1. s \in Subscribers /\ sub[s] # "new"
  BY ElementOfSeq DEF Known, NumReceivers, IInv, TypeOK, RecordsOK, EventRecords
<1>2. notified[e] \subseteq notified'[e]
  BY NotifiedGrows
<1>3. s = ev'[e].receivers[i]
  OBVIOUS
<1> HIDE DEF s
<1>4. /\ sub[s] = "gone" => sub'[s] = "gone"
      /\ <<s, e>> \in parked \cup replay => <<s, e>> \in parked' \cup replay' \/ sub'[s] = "gone"
  BY <1>1, SubMoves, KeptMoves
<1> QED BY <1>2, <1>3, <1>4, CrossedGrows DEF Served, s

\* A thread finds the curReceiver it wrote null only if the receiver has gone
\* or a finish came between.
Crossing ==
    \A t \in Threads :
        LET e == loc[t].sp
            i == ev[e].next
        IN  pc[t] = "cast" /\ ev[e].cur = None =>
                sub[ev[e].receivers[i]] = "gone" \/ i \in crossed[e]

\* The turn of a receiver whose curReceiver is being read again is that of a
\* record that no other thread dispatches.
LEMMA CastStays ==
  ASSUME IInv, Next, NEW t \in Threads, NEW e \in Events, pc'[t] = "cast", loc'[t].sp = e
  PROVE  /\ loc[t].sp = e /\ ev'[e].next = ev[e].next /\ ev'[e].receivers = ev[e].receivers
         /\ ev[e].next \in 1..NumReceivers(e) /\ e \notin Publishable
         /\ \/ NotifyOrderedEvent(t)
            \/ /\ pc[t] = "cast"
               /\ \A u \in Threads : ~NotifyOrderedEvent(u) /\ ~ParkFrozen(u)
<1>1. loc[t].sp = e /\ Giving(t) /\ (pc[t] = "cast" \/ NotifyOrderedEvent(t))
  BY TellingBegins
<1>2. /\ ev[e].next \in 1..NumReceivers(e) /\ e \notin Publishable
  BY <1>1, GivingFacts
<1>3. ASSUME NEW u \in Threads, LoopDispatch(u) PROVE FALSE
  <2>1. pc[u] = "loop"
    BY <1>3 DEF LoopDispatch
  <2> QED BY <1>1, <2>1, HolderIs, GivingFacts DEF NextSteps
<1>4. ev'[e].next = ev[e].next /\ ev'[e].receivers = ev[e].receivers
  BY <1>2, <1>3, NextMoves, ReceiversStay DEF Renewed
<1>5. ASSUME pc[t] = "cast", NEW u \in Threads, NotifyOrderedEvent(u) \/ ParkFrozen(u) PROVE FALSE
  <2>1. pc[u] \in {"notify", "park"}
    BY <1>5 DEF NotifyOrderedEvent, ParkFrozen
  <2> QED BY <1>1, <1>5, <2>1, HolderIs, GivingFacts DEF NextSteps
<1> QED BY <1>1, <1>2, <1>4, <1>5

LEMMA CrossingStep ==
  ASSUME IInv, Known, Crossing, Next
  PROVE  Crossing'
<1> SUFFICES ASSUME NEW t \in Threads, NEW e, e = loc'[t].sp, pc'[t] = "cast", ev'[e].cur = None,
                    NEW i, i = ev'[e].next
             PROVE  sub'[ev'[e].receivers[i]] = "gone" \/ i \in crossed'[e]
  BY DEF Crossing
<1>0. /\ ev \in [Events -> EventRecords] /\ crossed \in [Events -> SUBSET Nat]
      /\ sub \in [Subscribers -> {"new", "live", "gone"}]
  BY DEF IInv, TypeOK, RecordsOK, ClientsOK, RegistryOK
<1>e. e \in Events
  BY ControlStep, Zenon DEF Control, CallInv
<1> DEFINE s == ev[e].receivers[i]
<1>1. /\ loc[t].sp = e /\ i = ev[e].next /\ ev'[e].receivers = ev[e].receivers
      /\ i \in 1..NumReceivers(e) /\ e \notin Publishable
      /\ \/ NotifyOrderedEvent(t)
         \/ /\ pc[t] = "cast"
            /\ \A u \in Threads : ~NotifyOrderedEvent(u) /\ ~ParkFrozen(u)
  BY <1>e, CastStays
<1>2. s \in Subscribers /\ sub[s] # "new"
  BY <1>0, <1>e, <1>1, ElementOfSeq DEF Known, NumReceivers, EventRecords
<1>3. CASE NotifyOrderedEvent(t)
  <2>1. ~Goto(t, "park") /\ ~Goto(t, "check")
    <3>1. pc \in [Threads -> Labels]
      BY DEF IInv, TypeOK, ThreadsOK
    <3> QED BY ONLY <3>1, pc'[t] = "cast", t \in Threads DEF Goto
  <2>2. ev'[e].cur = (IF sub[s] = "live" THEN s ELSE None)
    <3>1. LET f == loc[t].sp
              r == ev[f].receivers[ev[f].next]
          IN  Marked(f, ev[f].next, "DELIVERED", IF sub[r] = "live" THEN r ELSE None, "RECEIVEING")
      BY <1>3, <2>1, NotifyOutcome
    <3>2. loc[t].sp = e /\ ev[e].receivers[ev[e].next] = s
      BY <1>1
    <3> HIDE DEF s
    <3> QED BY ONLY <3>1, <3>2 DEF Marked
  <2>3. sub[s] = "gone"
    <3>1. s # None
      BY <1>2, ConstantsAssumption
    <3> HIDE DEF s
    <3> QED BY <1>0, <1>2, <2>2, <3>1
  <2> QED BY <1>1, <1>2, <2>3, SubMoves
<1>4. CASE pc[t] = "cast" /\ \A u \in Threads : ~NotifyOrderedEvent(u) /\ ~ParkFrozen(u)
  <2>1. CASE ev[e].cur = None
    <3>1. sub[s] = "gone" \/ i \in crossed[e]
      BY <1>1, <1>4, <2>1 DEF Crossing
    <3> QED BY <1>1, <1>2, <1>e, <3>1, SubMoves, CrossedGrows
  <2>2. CASE ev[e].cur # None
    <3>1. PICK u \in Threads : FinishCur(u) /\ e = loc[u].sp
      BY <1>1, <1>4, <1>e, <2>2, RecordWrites DEF Quiet, Writes, Renewed
    <3>2. t \in Casting(e)
      BY <1>1, <1>4 DEF Casting
    <3>3. crossed' = [crossed EXCEPT ![e] = @ \cup {i}]
      BY <1>1, <3>1, <3>2 DEF FinishCur
    <3> QED BY <1>0, <1>e, <3>3
  <2> QED BY <2>1, <2>2
<1> QED BY <1>1, <1>3, <1>4

\* However a turn ends, the receiver has been served.
LEMMA TurnServes ==
  ASSUME IInv, Known, Crossing, Next, NEW e \in Events, NEW t \in Threads, Giving(t), loc[t].sp = e,
         \/ ParkFrozen(t) \/ TellReceiver(t)
         \/ NotifyOrderedEvent(t) /\ pc'[t] = "check"
         \/ CastReceiver(t) /\ pc'[t] = "check",
         ev'[e].receivers = ev[e].receivers, NEW i, i = ev[e].next
  PROVE  Served(e, i)'
<1> DEFINE s == ev[e].receivers[i]
<1>1. i \in 1..NumReceivers(e) /\ s \in Subscribers
  BY GivingFacts, ElementOfSeq DEF NumReceivers, IInv, TypeOK, RecordsOK, EventRecords
<1>2. CASE ParkFrozen(t)
  BY <1>1, <1>2 DEF ParkFrozen, Served
<1>3. CASE NotifyOrderedEvent(t) /\ pc'[t] = "check"
  <2>1. ~Goto(t, "park") /\ ~Goto(t, "cast")
    BY <1>3 DEF Goto, IInv, TypeOK, ThreadsOK
  <2>2. <<s, e>> \notin Permitted
    BY <1>3, <2>1, NotifyOutcome
  <2> QED BY <2>2 DEF Served
<1>4. CASE TellReceiver(t)
  <2>1. notified' = [notified EXCEPT ![e] = @ \cup {i}]
    BY <1>4 DEF TellReceiver
  <2>2. notified \in [Events -> SUBSET Nat]
    BY DEF IInv, TypeOK, ClientsOK
  <2> QED BY <2>1, <2>2 DEF Served
<1>5. CASE CastReceiver(t) /\ pc'[t] = "check"
  <2>1. ~Goto(t, "tell")
    BY <1>5 DEF Goto, IInv, TypeOK, ThreadsOK
  <2>2. pc[t] = "cast" /\ ev[e].cur = None
    BY <1>5, <2>1 DEF CastReceiver
  <2>3. sub[s] = "gone" \/ i \in crossed[e]
    BY <2>2 DEF Crossing
  <2> QED BY <1>1, <2>3, SubMoves, CrossedGrows DEF Served
<1> QED BY <1>2, <1>3, <1>4, <1>5

LEMMA NobodyPassedOverStep ==
  ASSUME IInv, Known, Crossing, NobodyPassedOver, Next
  PROVE  NobodyPassedOver'
<1> SUFFICES ASSUME NEW e \in Events, NEW i \in 1..ev'[e].next
             PROVE  Served(e, i)' \/ (i = ev'[e].next /\ TurnGiven(e)')
  <2>1. ASSUME NEW e \in Events PROVE TurnGiven(e)' => TurnInProgress(e)'
    BY DEF TurnInProgress, TurnGiven, Giving, ArmSteps
  <2> QED BY <2>1 DEF NobodyPassedOver, Served
<1>0. /\ ev[e].next \in Nat /\ ev[e].next <= NumReceivers(e) /\ NumReceivers(e) \in Nat
      /\ ev'[e].next \in Nat
  BY RecordsStep, LenProperties DEF IInv, TypeOK, RecordsOK, EventRecords, NumReceivers
<1>1. ~Renewed(e) /\ ev'[e].receivers = ev[e].receivers
  <2>1. i \in 1..ev'[e].next /\ ev'[e].next # 0
    BY <1>0
  <2> QED BY <2>1, RenewedFacts, ReceiversStay
<1>2. ASSUME i \in 1..ev[e].next, Served(e, i) PROVE Served(e, i)'
  BY <1>0, <1>1, <1>2, ServedStays
<1>3. CASE ev'[e].next = ev[e].next
  <2>1. CASE Served(e, i)
    BY <1>2, <1>3, <2>1
  <2>2. CASE i = ev[e].next /\ TurnGiven(e)
    <3>1. ASSUME ~TurnGiven(e)' PROVE Served(e, i)'
      BY <1>1, <2>2, <3>1, TurnEnds, TurnServes
    <3> QED BY <1>3, <2>2, <3>1
  <2> QED BY <1>3, <2>1, <2>2, PassedOver
<1>4. ASSUME NEW t \in Threads, LoopDispatch(t), e = Head(queue), ev'[e].next = ev[e].next + 1
      PROVE  Served(e, i)' \/ (i = ev'[e].next /\ TurnGiven(e)')
  <2>1. TurnGiven(e)'
    BY <1>4, DispatchTurns DEF TurnGiven, LoopDispatch, queueVars
  <2>2. ~TurnGiven(e)
    <3>1. ASSUME NEW u \in Threads, Giving(u), loc[u].sp = e PROVE FALSE
      BY <1>4, <3>1, DispatchTurns, HolderIs
    <3> QED BY <3>1 DEF TurnGiven
  <2>3. CASE i = ev'[e].next
    BY <2>1, <2>3
  <2>4. CASE i # ev'[e].next
    <3>1. i \in 1..ev[e].next
      BY <1>0, <1>4, <2>4
    <3> QED BY <1>2, <2>2, <3>1, PassedOver
  <2> QED BY <2>3, <2>4
<1> QED BY <1>1, <1>3, <1>4, NextMoves

-----------------------------------------------------------------------------
(* A front event that waits for nobody is driven on *)

\* Thread t will look at the front event again, or send a message that does.
Drives(t) ==
    \/ pc[t] \in {"schedule", "send", "lock", "loop", "settle", "retire", "setTime", "notify",
                  "park", "expire", "mark"} \cup ArmSteps
    \/ pc[t] = "check" /\ ev[loc[t].sp].cur = None
    \/ /\ pc[t] \in {"finishState", "finishCur", "finishResult"}
       /\ loc[t].call = "timeout" \/ loc[t].force = TRUE \/ loc[t].doNext = TRUE

Live == StartDue(inbox) \/ TimeoutDue \/ \E t \in Threads : Drives(t)

Driven == queue # <<>> /\ ev[Head(queue)].state = "IDLE" => Live

\* Which thread makes which calls; FinishReceiver is entered by an answer, an
\* unsubscription, a timeout or by force.
Callers ==
    /\ loc["main"].call \notin {"start", "timeout"}
    /\ loc["ordered"].call \notin {"publish", "finish", "unsub"}
    /\ pc["ordered"] # "finishRead"
    /\ \A t \in Threads : pc[t] \in FinishSteps /\ loc[t].force = FALSE => loc[t].call # "start"
    /\ \A t \in Threads : pc[t] = "mark" /\ loc[t].force = FALSE => loc[t].call = "timeout"

\* pendingTimeoutMessage_ is set while a TIMEOUT is due, or after RemoveEvent
\* took away the one that the timeout handler had sent meanwhile: then no
\* timeout is being handled, and none will be before the flag is reset.
Timed ==
    pending =>
        \/ TimeoutDue
        \/ \E t \in Threads : pc[t] = "armSend"
        \/ loc["ordered"].call # "timeout" /\ \A t \in Threads : pc[t] # "armSet"

RetireTimed ==
    \A t \in Threads :
        pc[t] = "retire" /\ pending =>
            t = "main" /\ (loc["ordered"].call = "timeout" => pc["ordered"] = "armSend")

\* RECEIVEING lasts until the receiver is told or CheckReceiver finds none.
Receiving ==
    \A e \in Events : ev[e].state = "RECEIVEING" =>
        \E t \in Threads :
            loc[t].sp = e /\ (pc[t] \in {"cast", "tell"} \/ (pc[t] = "check" /\ ev[e].cur = None))

\* An event that is IDLE with a current receiver is about to lose it.
Clearing ==
    \A e \in Events : ev[e].state = "IDLE" /\ ev[e].cur # None =>
        \E t \in Threads : pc[t] = "finishCur" /\ loc[t].sp = e

\* A forced finish leaves no current receiver behind.
ForceCleared ==
    \A t \in Threads :
        loc[t].force = TRUE /\ pc[t] \in {"finishResult", "schedule", "send", "settle"} =>
            ev[loc[t].sp].cur = None

\* An answer being taken is one of the front event, or of an event that has gone.
Answering == pc["main"] \in FinishSteps /\ loc["main"].force = FALSE

Finishing ==
    Answering =>
        \/ queue # <<>> /\ loc["main"].sp = Head(queue)
        \/ \E h \in 1..Len(history) : history[h].ev = loc["main"].sp

\* The ordered thread is between the choice of a receiver and CheckReceiver.
Dispatches ==
    \/ pc["ordered"] \in {"setTime", "notify", "cast", "tell", "park", "check"}
    \/ pc["ordered"] \in ArmSteps /\ loc["ordered"].call # "timeout"

\* The ordered thread has come between the answer and its FinishReceiver, which
\* will write IDLE and not go on.
Overtaken ==
    /\ Answering /\ queue # <<>> /\ loc["main"].sp = Head(queue)
    /\ IF pc["main"] = "finishRead"
       THEN ev[Head(queue)].state # "RECEIVED" \/ Dispatches
       ELSE loc["main"].doNext # TRUE

\* The front event is being removed.
Ending == loc["ordered"].force = TRUE \/ pc["ordered"] = "retire"

Pended == pending => TimeoutDue \/ pc["ordered"] = "armSend"

\* A TIMEOUT is due, or will be, or is being handled.
Armed ==
    \/ TimeoutDue
    \/ pc["ordered"] \in {"expire"} \cup ArmSteps
    \/ pc["ordered"] = "setTime" /\ loc["ordered"].timer = FALSE
    \/ pc["ordered"] \in {"mark", "finishState"} /\ loc["ordered"].sp = Head(queue)

\* The ordered thread will dispatch the next receiver, and arm the timeout.
Coming ==
    /\ ev[Head(queue)].state = "IDLE" /\ ~Dispatches
    /\ StartDue(inbox) \/ pc["ordered"] \in {"schedule", "send", "lock", "loop", "finishCur", "finishResult"}

Covered == Overtaken => Ending \/ (Pended /\ (Armed \/ Coming))

DInv ==
    /\ Callers /\ Timed /\ RetireTimed /\ Receiving /\ Clearing /\ ForceCleared
    /\ Finishing /\ Covered /\ Driven

\* A thread inside a call takes a step of it or rests.
LEMMA Inside ==
  ASSUME IInv, Next, NEW t \in Threads, pc[t] \notin {"idle", "enqueue", "remove", "expire"}
  PROVE  Rests(t) \/ Step(t)
  BY Actors DEF MainCall, HandlerCall, EnqueueOrderedRecord, RemoveSubscriber,
     ProcessOrderedEvent, FinishReceiver, UnsubscribeCommonEvent, TakeStart, TakeTimeout, TimeoutCheck

LEMMA StepApart ==
  ASSUME IInv, NEW t \in Threads, NEW u \in Threads, t # u, Step(u)
  PROVE  pc'[t] = pc[t] /\ loc'[t] = loc[t] /\ Rests(t)
<1>1. pc'[t] = pc[t] /\ loc'[t] = loc[t]
  BY ThreadStep DEF Path, Others, IInv
<1> QED BY <1>1 DEF Rests, Keep

\* What a step of the main thread outside ProcessNextOrderedEvent does to it.
LEMMA MainCalls ==
  ASSUME IInv, MainCall
  PROVE  \/ Rests("main")
         \/ /\ loc'["main"].call \notin {"start", "timeout"} /\ loc'["main"].force = FALSE
            /\ pc'["main"] \in {"idle", "enqueue", "schedule", "remove"}
         \/ /\ pc'["main"] = "finishRead" /\ loc'["main"].call \notin {"start", "timeout"}
            /\ loc'["main"].force = FALSE /\ loc'["main"].sp = Head(queue)
            /\ queue # <<>> /\ ev[Head(queue)].cur # None
            /\ pc["main"] = "idle" /\ lock = None
            /\ UNCHANGED <<ev, queue, history, handlerVars>>
            /\ pc'["ordered"] = pc["ordered"] /\ loc'["ordered"] = loc["ordered"]
<1>0. /\ pc \in [Threads -> Labels] /\ loc \in [Threads -> Locals]
      /\ "main" \in Threads /\ "ordered" \in Threads
      /\ None \notin Subscribers /\ owed \subseteq Notifications
  BY ConstantsAssumption DEF IInv, TypeOK, ThreadsOK, ClientsOK, Threads
<1>1. ASSUME NEW e \in Events, ProcessOrderedEvent(e)
      PROVE  loc'["main"].call = "publish" /\ loc'["main"].force = FALSE /\ pc'["main"] = "enqueue"
  BY <1>0, <1>1 DEF ProcessOrderedEvent, NoLocals, Goto
<1>2. CASE RemoveSubscriber
  <2>1. loc'["main"] = NoLocals /\ pc'["main"] = "idle"
    BY <1>0, <1>2 DEF RemoveSubscriber, Goto
  <2> QED BY <2>1, NoLocalsType
<1>3. CASE EnqueueOrderedRecord
  <2>1. loc["main"].call = "publish" /\ loc' = loc /\ pc'["main"] = "schedule" /\ pc["main"] = "enqueue"
    BY <1>0, <1>3 DEF EnqueueOrderedRecord, Goto, IInv, Control, CallInv
  <2>2. loc["main"].force = FALSE
    <3>1. loc["main"].force = TRUE => loc["main"].call \in Going
      BY <1>0 DEF IInv, Control, CallInv
    <3>2. loc["main"].force \in BOOLEAN
      BY <1>0 DEF Locals
    <3> QED BY <2>1, <3>1, <3>2 DEF Going
  <2> QED BY <2>1, <2>2
<1>4. ASSUME NEW l \in Locals, NEW s \in Subscribers, Matches(s), pc["main"] = "idle", lock = None,
             l.call \in {"finish", "unsub"}, l.force = FALSE, l.sp = Head(queue),
             loc' = [loc EXCEPT !["main"] = l], Goto("main", "finishRead"),
             UNCHANGED <<ev, queueVars, handlerVars>>
      PROVE  /\ pc'["main"] = "finishRead" /\ loc'["main"].call \notin {"start", "timeout"}
             /\ loc'["main"].force = FALSE /\ loc'["main"].sp = Head(queue)
             /\ queue # <<>> /\ ev[Head(queue)].cur # None
             /\ pc["main"] = "idle" /\ lock = None
             /\ UNCHANGED <<ev, queue, history, handlerVars>>
             /\ pc'["ordered"] = pc["ordered"] /\ loc'["ordered"] = loc["ordered"]
  BY <1>0, <1>4 DEF Goto, Matches, queueVars
<1>5. ASSUME NEW o \in owed, NEW abort \in BOOLEAN, FinishReceiver(o, abort), ~Rests("main")
      PROVE  \E l \in Locals, s \in Subscribers :
                /\ Matches(s) /\ pc["main"] = "idle" /\ lock = None
                /\ l.call \in {"finish", "unsub"} /\ l.force = FALSE /\ l.sp = Head(queue)
                /\ loc' = [loc EXCEPT !["main"] = l] /\ Goto("main", "finishRead")
                /\ UNCHANGED <<ev, queueVars, handlerVars>>
  <2>1. Matches(o.to)
    BY <1>5 DEF FinishReceiver, Rests, Keep, threadVars
  <2> DEFINE l == [NoLocals EXCEPT !.call = "finish", !.sp = Head(queue), !.abort = abort]
  <2>2. Head(queue) \in Events
    BY <2>1, HeadOfQueue DEF Matches
  <2>3. l \in Locals /\ l.force = FALSE /\ l.call = "finish" /\ l.sp = Head(queue)
    BY <2>2, NoLocalsType DEF Locals, Calls
  <2>4. /\ pc["main"] = "idle" /\ lock = None /\ loc' = [loc EXCEPT !["main"] = l]
        /\ Goto("main", "finishRead") /\ UNCHANGED <<ev, queueVars, handlerVars>>
    BY <1>5, <2>1 DEF FinishReceiver
  <2>5. o.to \in Subscribers
    BY <1>0 DEF Notifications
  <2> HIDE DEF l
  <2> QED BY <2>1, <2>3, <2>4, <2>5
<1>6. ASSUME NEW s \in Subscribers, UnsubscribeCommonEvent(s), Matches(s)
      PROVE  \E l \in Locals :
                /\ pc["main"] = "idle" /\ lock = None
                /\ l.call \in {"finish", "unsub"} /\ l.force = FALSE /\ l.sp = Head(queue)
                /\ loc' = [loc EXCEPT !["main"] = l] /\ Goto("main", "finishRead")
                /\ UNCHANGED <<ev, queueVars, handlerVars>>
  <2> DEFINE called == [NoLocals EXCEPT !.call = "unsub", !.from = s]
             l == [called EXCEPT !.sp = Head(queue)]
  <2>2. Head(queue) \in Events
    BY <1>6, HeadOfQueue DEF Matches
  <2>3. called \in Locals /\ called.force = FALSE /\ called.call = "unsub"
    BY NoLocalsType DEF Locals, Calls
  <2>4. l \in Locals /\ l.force = FALSE /\ l.call = "unsub" /\ l.sp = Head(queue)
    <3> HIDE DEF called
    <3> QED BY <2>2, <2>3 DEF Locals
  <2>5. /\ pc["main"] = "idle" /\ lock = None /\ loc' = [loc EXCEPT !["main"] = l]
        /\ Goto("main", "finishRead") /\ UNCHANGED <<ev, queueVars, handlerVars>>
    BY <1>6 DEF UnsubscribeCommonEvent
  <2> HIDE DEF l
  <2> QED BY <2>4, <2>5
<1>7. ASSUME NEW s \in Subscribers, UnsubscribeCommonEvent(s), ~Matches(s)
      PROVE  loc'["main"].call = "unsub" /\ loc'["main"].force = FALSE /\ pc'["main"] = "remove"
  BY <1>0, <1>7 DEF UnsubscribeCommonEvent, NoLocals, Goto
<1> QED BY <1>1, <1>2, <1>3, <1>4, <1>5, <1>6, <1>7 DEF MainCall

\* What a step of the handler outside ProcessNextOrderedEvent does.
LEMMA HandlerCalls ==
  ASSUME IInv, HandlerCall
  PROVE  /\ \/ /\ TakeStart /\ pc["ordered"] = "idle" /\ pc'["ordered"] = "lock"
               /\ loc'["ordered"].call = "start"
            \/ /\ TakeTimeout /\ pc["ordered"] = "idle" /\ pc'["ordered"] = "expire"
               /\ loc'["ordered"].call = "timeout" /\ pending' = FALSE
            \/ /\ TimeoutCheck /\ pc["ordered"] = "expire" /\ queue = <<>>
               /\ pc'["ordered"] \in {"idle", "remove"}
               /\ loc'["ordered"].call = "none"
            \/ /\ TimeoutCheck /\ pc["ordered"] = "expire" /\ queue # <<>>
               /\ pc'["ordered"] \in {"arm", "mark"} /\ loc'["ordered"].sp = Head(queue)
               /\ loc'["ordered"].call = "timeout"
         /\ loc'["ordered"].force = FALSE
         /\ pc'["main"] = pc["main"] /\ loc'["main"] = loc["main"]
<1>0. /\ pc \in [Threads -> Labels] /\ loc \in [Threads -> Locals]
      /\ "main" \in Threads /\ "ordered" \in Threads /\ ThreadsOK /\ Control
  BY DEF IInv, TypeOK, ThreadsOK, Threads
<1>1. CASE TakeStart
  BY <1>0, <1>1 DEF TakeStart, NoLocals, Goto
<1>2. CASE TakeTimeout
  BY <1>0, <1>2 DEF TakeTimeout, NoLocals, Goto
<1>3. CASE TimeoutCheck
  <2>1. loc["ordered"].call = "timeout" /\ pc["ordered"] = "expire" /\ loc["ordered"].force \in BOOLEAN
    BY <1>0, <1>3 DEF TimeoutCheck, Control, CallInv, Locals
  <2>2. loc["ordered"].force = FALSE
    <3>1. loc["ordered"].force = TRUE => loc["ordered"].call \in Going
      BY <1>0 DEF Control, CallInv
    <3> QED BY <2>1, <3>1 DEF Going
  <2>3. CASE queue = <<>>
    <3>1. Leave("ordered")
      BY <1>3, <2>3 DEF TimeoutCheck
    <3>2. Left("ordered") /\ Others("ordered")
      BY <1>0, <3>1, LeaveStep
    <3> QED BY <1>0, <1>3, <2>1, <2>3, <3>2 DEF Left, Others
  <2>4. CASE queue # <<>>
    <3>1. \/ Goto("ordered", "mark") /\ loc' = [loc EXCEPT !["ordered"].sp = Head(queue)]
          \/ Goto("ordered", "arm")
             /\ \E d : loc' = [loc EXCEPT !["ordered"].sp = Head(queue), !["ordered"].due = d]
      BY <1>3, <2>4 DEF TimeoutCheck
    <3>2. CASE Goto("ordered", "mark") /\ loc' = [loc EXCEPT !["ordered"].sp = Head(queue)]
      BY <1>0, <1>3, <2>1, <2>2, <2>4, <3>2 DEF Goto, Locals
    <3>3. CASE Goto("ordered", "arm")
               /\ \E d : loc' = [loc EXCEPT !["ordered"].sp = Head(queue), !["ordered"].due = d]
      BY <1>0, <1>3, <2>1, <2>2, <2>4, <3>3 DEF Goto, Locals
    <3> QED BY <3>1, <3>2, <3>3
  <2> QED BY <2>3, <2>4
<1> QED BY <1>1, <1>2, <1>3 DEF HandlerCall

LEMMA CallersStep ==
  ASSUME IInv, Callers, Next
  PROVE  Callers'
<1>0. Threads = {"main", "ordered"} /\ TRUE # FALSE /\ loc \in [Threads -> Locals]
  BY DEF Threads, IInv, TypeOK, ThreadsOK
<1> SUFFICES ASSUME NEW t \in Threads
             PROVE  /\ t = "main" => loc'[t].call \notin {"start", "timeout"}
                    /\ t = "ordered" => loc'[t].call \notin {"publish", "finish", "unsub"}
                                        /\ pc'[t] # "finishRead"
                    /\ pc'[t] \in FinishSteps /\ loc'[t].force = FALSE => loc'[t].call # "start"
                    /\ pc'[t] = "mark" /\ loc'[t].force = FALSE => loc'[t].call = "timeout"
  BY <1>0 DEF Callers
<1>c. /\ t = "main" => loc[t].call \notin {"start", "timeout"}
      /\ t = "ordered" => loc[t].call \notin {"publish", "finish", "unsub"} /\ pc[t] # "finishRead"
      /\ pc[t] \in FinishSteps /\ loc[t].force = FALSE => loc[t].call # "start"
      /\ pc[t] = "mark" /\ loc[t].force = FALSE => loc[t].call = "timeout"
  BY <1>0 DEF Callers
<1>1. CASE Rests(t)
  BY <1>c, <1>1 DEF Rests, Keep
<1>2. CASE Step(t)
  <2>1. Path(t) /\ pc[t] # "idle"
    BY <1>2, ThreadStep, StepAt DEF IInv
  <2>2. \/ loc'[t].call = loc[t].call
        \/ loc'[t].call = "none"
        \/ loc'[t].call = "unsub" /\ loc[t].call = "unsub"
    BY <2>1 DEF Path, Goes, Left, Keep
  <2>3. \/ pc'[t] \notin FinishSteps
        \/ pc'[t] = "mark" /\ pc[t] = "loop" /\ loc'[t].force = TRUE
        \/ pc'[t] = "mark" /\ pc[t] = "expire"
        \/ /\ pc[t] \in FinishSteps /\ pc'[t] \in FinishSteps \ {"mark", "finishRead"}
           /\ loc'[t].force = loc[t].force /\ loc'[t].call = loc[t].call
    BY <2>1 DEF Path, Goes, Left, Keep, Edges, FinishSteps
  <2>4. pc[t] # "expire"
    BY <1>2, StepAt
  <2> QED BY <1>0, <1>c, <2>2, <2>3, <2>4 DEF FinishSteps
<1>3. CASE t = "main" /\ MainCall
  BY <1>1, <1>3, MainCalls DEF FinishSteps
<1>4. CASE t = "ordered" /\ HandlerCall
  BY <1>4, HandlerCalls DEF FinishSteps
<1> QED BY <1>1, <1>2, <1>3, <1>4, Actors

\* A current receiver is set by NotifyOrderedEvent alone.
LEMMA CurMoves ==
  ASSUME IInv, Next, NEW e \in Events, ev'[e].cur # ev[e].cur, ev'[e].cur # None
  PROVE  /\ ev'[e].state = "RECEIVEING"
         /\ \E t \in Threads : NotifyOrderedEvent(t) /\ loc[t].sp = e /\ Holds(t) /\ pc[t] = "notify"
<1>0. ev \in [Events -> EventRecords]
  BY DEF IInv, TypeOK, RecordsOK
<1>1. ~Renewed(e)
  BY RenewedFacts
<1>2. PICK t \in Threads : Step(t) /\ Writes(t, e)
  BY <1>1, RecordWrites DEF Quiet
<1>3. e = loc[t].sp /\ (NotifyOrderedEvent(t) \/ ParkFrozen(t) \/ FinishCur(t))
  BY <1>2 DEF Writes
<1>4. ~ParkFrozen(t)
  BY <1>0, <1>3 DEF ParkFrozen, EventRecords
<1>5. ~FinishCur(t)
  BY <1>0, <1>3 DEF FinishCur, EventRecords
<1>6. NotifyOrderedEvent(t)
  BY <1>3, <1>4, <1>5
<1>7. ev'[e].state = "RECEIVEING"
  BY <1>3, <1>6, NotifyOutcome DEF Marked
<1> QED BY <1>3, <1>6, <1>7 DEF NotifyOrderedEvent, Holds, NextSteps

\* What can change the state of an event.
LEMMA StateMoves ==
  ASSUME IInv, Next, NEW e \in Events, ev'[e].state # ev[e].state
  PROVE  \/ Renewed(e)
         \/ \E t \in Threads :
              \/ Concluding(t) /\ e = Head(queue) /\ ev'[e].cur = ev[e].cur /\ ev'[e].state = "IDLE"
              \/ /\ NotifyOrderedEvent(t) /\ e = loc[t].sp /\ pc'[t] = "cast" /\ loc' = loc
                 /\ ev'[e].state = "RECEIVEING"
              \/ TellReceiver(t) /\ e = loc[t].sp /\ ev'[e].state = "RECEIVED"
              \/ /\ CheckReceiver(t) /\ e = loc[t].sp /\ ev[e].cur = None /\ ev'[e].cur = None
                 /\ ev'[e].state = "IDLE" /\ pc'[t] = "schedule"
              \/ /\ FinishState(t) /\ e = loc[t].sp /\ ev'[e].cur = ev[e].cur
                 /\ ev'[e].state = "IDLE" /\ pc'[t] = "finishCur" /\ loc' = loc
<1>0. ev \in [Events -> EventRecords] /\ pc \in [Threads -> Labels]
  BY DEF IInv, TypeOK, RecordsOK, ThreadsOK
<1> SUFFICES ASSUME ~Renewed(e) PROVE
         \E t \in Threads :
              \/ Concluding(t) /\ e = Head(queue) /\ ev'[e].cur = ev[e].cur /\ ev'[e].state = "IDLE"
              \/ /\ NotifyOrderedEvent(t) /\ e = loc[t].sp /\ pc'[t] = "cast" /\ loc' = loc
                 /\ ev'[e].state = "RECEIVEING"
              \/ TellReceiver(t) /\ e = loc[t].sp /\ ev'[e].state = "RECEIVED"
              \/ /\ CheckReceiver(t) /\ e = loc[t].sp /\ ev[e].cur = None /\ ev'[e].cur = None
                 /\ ev'[e].state = "IDLE" /\ pc'[t] = "schedule"
              \/ /\ FinishState(t) /\ e = loc[t].sp /\ ev'[e].cur = ev[e].cur
                 /\ ev'[e].state = "IDLE" /\ pc'[t] = "finishCur" /\ loc' = loc
  OBVIOUS
<1>1. PICK t \in Threads : Step(t) /\ Writes(t, e)
  BY RecordWrites DEF Quiet
<1>2. ASSUME Concluding(t), e = Head(queue)
      PROVE  ev'[e].cur = ev[e].cur /\ ev'[e].state = "IDLE"
  <2>1. ev' = [ev EXCEPT ![e].state = "IDLE", ![e].resultTo = None]
    BY <1>2, ConcludeClients DEF Concluding, Conclude
  <2> QED BY <1>0, <1>2, <2>1 DEF EventRecords
<1>3. ASSUME NotifyOrderedEvent(t), e = loc[t].sp
      PROVE  pc'[t] = "cast" /\ loc' = loc /\ ev'[e].state = "RECEIVEING"
  <2>1. Goto(t, "cast") => pc'[t] = "cast"
    BY <1>0 DEF Goto
  <2>2. loc' = loc
    BY <1>3 DEF NotifyOrderedEvent
  <2> QED BY <1>3, <2>1, <2>2, NotifyOutcome DEF Marked
<1>4. ASSUME CheckReceiver(t), e = loc[t].sp
      PROVE  /\ ev[e].cur = None /\ ev'[e].cur = None
             /\ ev'[e].state = "IDLE" /\ pc'[t] = "schedule"
  BY <1>0, <1>4 DEF CheckReceiver, Goto, EventRecords
<1>5. ASSUME FinishState(t), e = loc[t].sp
      PROVE  ev'[e].cur = ev[e].cur /\ ev'[e].state = "IDLE" /\ pc'[t] = "finishCur" /\ loc' = loc
  BY <1>0, <1>5 DEF FinishState, Goto, EventRecords
<1>6. ASSUME TellReceiver(t), e = loc[t].sp
      PROVE  ev'[e].state = "RECEIVED"
  BY <1>0, <1>6 DEF TellReceiver, EventRecords
<1>7. \/ Concluding(t) /\ e = Head(queue)
      \/ e = loc[t].sp /\ (NotifyOrderedEvent(t) \/ TellReceiver(t) \/ CheckReceiver(t) \/ FinishState(t))
  BY <1>1 DEF Writes
<1> QED BY <1>2, <1>3, <1>4, <1>5, <1>6, <1>7

LEMMA ReceivingStep ==
  ASSUME IInv, Receiving, Next
  PROVE  Receiving'
<1>0. ev \in [Events -> EventRecords] /\ pc \in [Threads -> Labels]
  BY DEF IInv, TypeOK, RecordsOK, ThreadsOK
<1> SUFFICES ASSUME NEW e \in Events, ev'[e].state = "RECEIVEING"
             PROVE  \E t \in Threads :
                      /\ loc'[t].sp = e
                      /\ pc'[t] \in {"cast", "tell"} \/ (pc'[t] = "check" /\ ev'[e].cur = None)
  BY DEF Receiving
<1>1. CASE ev[e].state = "RECEIVEING"
  <2>1. PICK t \in Threads :
            loc[t].sp = e /\ (pc[t] \in {"cast", "tell"} \/ (pc[t] = "check" /\ ev[e].cur = None))
    BY <1>1 DEF Receiving
  <2>2. Holds(t) /\ pc[t] # "notify"
    BY <2>1 DEF Holds, NextSteps
  <2>3. ev[e].cur = None => ev'[e].cur = None
    BY <2>2, CurMoves, HolderIs
  <2>4. ~TellReceiver(t)
    BY <1>0, <2>1 DEF TellReceiver, EventRecords
  <2>5. ~(CheckReceiver(t) /\ ev[e].cur = None)
    BY <1>0, <2>1 DEF CheckReceiver, EventRecords
  <2>6. ASSUME CastReceiver(t)
        PROVE  loc'[t].sp = e /\ (pc'[t] = "tell" \/ (pc'[t] = "check" /\ ev'[e].cur = None))
    BY <1>0, <2>1, <2>6 DEF CastReceiver, Goto
  <2>7. Rests(t) \/ CastReceiver(t)
    BY <2>1, <2>4, <2>5, Inside, StepAt
  <2>8. ASSUME Rests(t) PROVE pc'[t] = pc[t] /\ loc'[t].sp = e
    BY <2>1, <2>8 DEF Rests, Keep
  <2> QED BY <2>1, <2>3, <2>6, <2>7, <2>8
<1>2. CASE ev[e].state # "RECEIVEING"
  <2>1. ~Renewed(e)
    BY RenewedFacts
  <2>2. PICK t \in Threads : e = loc[t].sp /\ pc'[t] = "cast" /\ loc' = loc
    BY <1>2, <2>1, StateMoves
  <2> QED BY <2>2
<1> QED BY <1>1, <1>2

LEMMA ClearingStep ==
  ASSUME IInv, PInv, Clearing, ForceCleared, Next
  PROVE  Clearing'
<1> SUFFICES ASSUME NEW e \in Events, ev'[e].state = "IDLE", ev'[e].cur # None
             PROVE  \E t \in Threads : pc'[t] = "finishCur" /\ loc'[t].sp = e
  BY DEF Clearing
<1>0. ev \in [Events -> EventRecords]
  BY DEF IInv, TypeOK, RecordsOK
<1>1. ~Renewed(e) /\ ev'[e].cur = ev[e].cur
  BY RenewedFacts, CurMoves
<1>2. CASE ev[e].state = "IDLE"
  <2>1. PICK t \in Threads : pc[t] = "finishCur" /\ loc[t].sp = e
    BY <1>1, <1>2 DEF Clearing
  <2>2. ~FinishCur(t)
    BY <1>0, <2>1 DEF FinishCur, EventRecords
  <2>3. Rests(t)
    BY <2>1, <2>2, Inside, StepAt
  <2> QED BY <2>1, <2>3 DEF Rests, Keep
<1>3. CASE ev[e].state # "IDLE"
  <2>1. PICK t \in Threads :
            \/ Concluding(t) /\ e = Head(queue)
            \/ FinishState(t) /\ e = loc[t].sp /\ pc'[t] = "finishCur" /\ loc' = loc
    BY <1>1, <1>3, StateMoves
  <2>2. ASSUME LoopConclude(t), e = Head(queue) PROVE FALSE
    BY <1>3, <2>2 DEF LoopConclude
  <2>3. ASSUME ForceConclude(t), e = Head(queue) PROVE FALSE
    <3>1. pc[t] = "settle" /\ loc[t].force = TRUE /\ loc[t].sp = e
      BY <2>3 DEF ForceConclude, PInv, Flags, IInv, AtHead, Holds, NextSteps
    <3> QED BY <1>1, <3>1 DEF ForceCleared
  <2> QED BY <2>1, <2>2, <2>3 DEF Concluding
<1> QED BY <1>2, <1>3

LEMMA ForceClearedStep ==
  ASSUME IInv, PInv, ForceCleared, Next
  PROVE  ForceCleared'
<1> SUFFICES ASSUME NEW t \in Threads, loc'[t].force = TRUE,
                    pc'[t] \in {"finishResult", "schedule", "send", "settle"}
             PROVE  ev'[loc'[t].sp].cur = None
  BY DEF ForceCleared
<1>0. ev \in [Events -> EventRecords] /\ pc \in [Threads -> Labels]
  BY DEF IInv, TypeOK, RecordsOK, ThreadsOK
<1>1. loc[t].force = TRUE /\ loc'[t].sp = loc[t].sp
  <2>1. ~LoopForce(t)
    BY <1>0 DEF LoopForce, Goto
  <2> QED BY <2>1, ForceStep
<1>2. /\ pc[t] \in FinishSteps \cup ScheduleSteps \cup {"settle"} /\ loc[t].call \in Going
      /\ loc[t].sp \in Events
  BY <1>1 DEF PInv, Flags, IInv, Control, CallInv, FinishSteps, ScheduleSteps
<1>3. Holds(t) /\ pc[t] # "notify"
  BY <1>1, <1>2 DEF Holds, FinishSteps, ScheduleSteps, NextSteps
<1>4. CASE pc[t] \in {"finishResult", "schedule", "send", "settle"}
  BY <1>1, <1>2, <1>3, <1>4, CurMoves, HolderIs DEF ForceCleared
<1>5. CASE pc[t] = "finishCur"
  <2>1. FinishCur(t)
    BY <1>5, Inside, StepAt DEF Rests
  <2> QED BY <1>0, <1>1, <1>2, <2>1 DEF FinishCur, EventRecords
<1>6. pc[t] \notin {"mark", "finishRead", "finishState"}
  <2>1. ASSUME pc[t] \in {"mark", "finishRead", "finishState"} PROVE Step(t)
    BY <2>1, Inside DEF Rests
  <2> QED BY <1>0, <2>1, StepAt DEF TimeoutMark, FinishRead, FinishState, Goto
<1> QED BY <1>2, <1>4, <1>5, <1>6 DEF FinishSteps, ScheduleSteps

\* A message that is due stays until it is at the front and is taken.
LEMMA MessageStays ==
  ASSUME NEW q \in Seq(Messages), NEW r \in Seq(Messages), NEW i \in 1..Len(q)
  PROVE  /\ \E j \in 1..Len(q \o r) : (q \o r)[j] = q[i]
         /\ q # <<>> /\ (Head(q) # q[i] => \E j \in 1..Len(Tail(q)) : Tail(q)[j] = q[i])
<1>1. Len(q) \in Nat /\ Len(r) \in Nat
  BY LenProperties
<1>2. Len(q \o r) = Len(q) + Len(r) /\ (q \o r)[i] = q[i]
  BY ConcatProperties
<1>3. q # <<>>
  BY <1>1, EmptySeq
<1>4. /\ Head(q) = q[1] /\ Len(Tail(q)) = Len(q) - 1
      /\ \A j \in 1..Len(Tail(q)) : Tail(q)[j] = q[j + 1]
  BY <1>3, HeadTailProperties
<1>5. ASSUME Head(q) # q[i] PROVE i - 1 \in 1..Len(Tail(q)) /\ Tail(q)[i - 1] = q[i]
  BY <1>1, <1>4, <1>5
<1>6. i \in 1..Len(q \o r)
  BY <1>1, <1>2
<1> QED BY <1>2, <1>3, <1>5, <1>6

\* What the steps do to the messages that are due.
LEMMA InboxMoves ==
  ASSUME IInv, Next
  PROVE  \/ UNCHANGED inbox
         \/ \E r \in Seq(Messages) : inbox' = inbox \o r
         \/ TakeStart \/ TakeTimeout
         \/ \E t \in Threads : Retire(t) /\ inbox' = Starts(inbox)
<1> USE DEF Messages
<1>0. inbox \in Seq(Messages) /\ <<"START">> \in Seq(Messages) /\ <<"TIMEOUT">> \in Seq(Messages)
  BY DEF IInv, TypeOK, HandlerOK
<1>1. \A m \in Messages : Append(inbox, m) = inbox \o <<m>>
  BY <1>0, AppendIsConcat
<1>2. ASSUME NEW t \in Threads, ScheduleSend(t) PROVE inbox' = inbox \o <<"START">>
  BY <1>1, <1>2 DEF ScheduleSend
<1>3. ASSUME NEW t \in Threads, ArmSend(t) PROVE UNCHANGED inbox \/ inbox' = inbox \o <<"TIMEOUT">>
  BY <1>1, <1>3 DEF ArmSend
<1>4. ASSUME NEW t \in Threads, ArmSet(t) \/ LoopConclude(t) \/ ForceConclude(t) PROVE UNCHANGED inbox
  BY <1>4 DEF ArmSet, LoopConclude, ForceConclude, Conclude
<1>5. ASSUME NEW t \in Threads, Retire(t) PROVE UNCHANGED inbox \/ inbox' = Starts(inbox)
  BY <1>5 DEF Retire
<1>6. CASE Tick
  <2> DEFINE r == [i \in 1..timers[1] |-> "TIMEOUT"]
  <2>1. timers[1] \in Nat
    BY ConstantsAssumption DEF IInv, TypeOK, HandlerOK
  <2>2. r \in Seq(Messages)
    BY <2>1
  <2>3. inbox' = inbox \o r
    BY <1>6 DEF Tick
  <2> HIDE DEF r
  <2> QED BY <2>2, <2>3
<1>7. CASE UNCHANGED handlerVars
  BY <1>7 DEF handlerVars
<1> QED BY <1>0, <1>2, <1>3, <1>4, <1>5, <1>6, <1>7, Writers

LEMMA StartDueStep ==
  ASSUME IInv, Next, StartDue(inbox)
  PROVE  StartDue(inbox') \/ TakeStart
<1> USE DEF Messages
<1>0. inbox \in Seq(Messages)
  BY DEF IInv, TypeOK, HandlerOK
<1>1. ASSUME NEW r \in Seq(Messages), inbox' = inbox \o r PROVE StartDue(inbox')
  BY <1>0, <1>1, StartStays
<1>2. CASE TakeTimeout
  <2>1. PICK i \in 1..Len(inbox) : inbox[i] = "START"
    BY DEF StartDue
  <2>2. Head(inbox) = "TIMEOUT" /\ inbox' = Tail(inbox)
    BY <1>2 DEF TakeTimeout
  <2>3. \E j \in 1..Len(Tail(inbox)) : Tail(inbox)[j] = inbox[i]
    BY <1>0, <2>1, <2>2, MessageStays
  <2> QED BY <2>1, <2>2, <2>3 DEF StartDue
<1>3. CASE inbox' = Starts(inbox)
  BY <1>0, <1>3, StartStays
<1>4. CASE UNCHANGED inbox
  BY <1>4
<1> QED BY <1>1, <1>2, <1>3, <1>4, InboxMoves

\* A TIMEOUT stays due until the handler takes it or RemoveEvent does.
LEMMA TimeoutDueStep ==
  ASSUME IInv, Next, TimeoutDue
  PROVE  TimeoutDue' \/ TakeTimeout \/ \E t \in Threads : Retire(t)
<1> USE DEF Messages
<1>0. /\ inbox \in Seq(Messages) /\ timers \in [1..TIMEOUT -> Nat] /\ TIMEOUT \in Nat \ {0}
      /\ loc \in [Threads -> Locals]
  BY ConstantsAssumption DEF IInv, TypeOK, HandlerOK, ThreadsOK
<1> SUFFICES ASSUME ~TakeTimeout, \A t \in Threads : ~Retire(t) PROVE TimeoutDue'
  OBVIOUS
<1>1. CASE \E i \in 1..Len(inbox) : inbox[i] = "TIMEOUT"
  <2>1. PICK i \in 1..Len(inbox) : inbox[i] = "TIMEOUT"
    BY <1>1
  <2>2. ASSUME NEW r \in Seq(Messages), inbox' = inbox \o r
        PROVE  \E j \in 1..Len(inbox') : inbox'[j] = "TIMEOUT"
    <3>1. \E j \in 1..Len(inbox \o r) : (inbox \o r)[j] = inbox[i]
      BY <1>0, <2>1, MessageStays
    <3> QED BY <2>1, <2>2, <3>1
  <2>3. ASSUME TakeStart PROVE \E j \in 1..Len(inbox') : inbox'[j] = "TIMEOUT"
    <3>1. Head(inbox) = "START" /\ inbox' = Tail(inbox)
      BY <2>3 DEF TakeStart
    <3>2. \E j \in 1..Len(Tail(inbox)) : Tail(inbox)[j] = inbox[i]
      BY <1>0, <2>1, <3>1, MessageStays
    <3> QED BY <2>1, <3>1, <3>2
  <2>4. ASSUME UNCHANGED inbox PROVE \E j \in 1..Len(inbox') : inbox'[j] = "TIMEOUT"
    BY <2>1, <2>4
  <2>5. \E j \in 1..Len(inbox') : inbox'[j] = "TIMEOUT"
    BY <2>2, <2>3, <2>4, InboxMoves
  <2> QED BY <2>5 DEF TimeoutDue
<1>2. CASE \E d \in 1..TIMEOUT : timers[d] > 0
  <2>1. PICK d \in 1..TIMEOUT : timers[d] > 0
    BY <1>2
  <2>2. ASSUME UNCHANGED timers PROVE TimeoutDue'
    BY <2>1, <2>2 DEF TimeoutDue
  <2>3. ASSUME NEW t \in Threads, ArmSend(t) PROVE TimeoutDue'
    <3>1. \/ UNCHANGED timers
          \/ timers' = [timers EXCEPT ![loc[t].due] = @ + 1]
      BY <2>3 DEF ArmSend
    <3>2. ASSUME timers' = [timers EXCEPT ![loc[t].due] = @ + 1] PROVE timers'[d] > 0
      BY <1>0, <2>1, <3>2
    <3> QED BY <2>2, <3>1, <3>2 DEF TimeoutDue
  <2>4. CASE Tick
    <3>1. /\ timers' = [c \in 1..TIMEOUT |-> IF c < TIMEOUT THEN timers[c + 1] ELSE 0]
          /\ inbox' = inbox \o [i \in 1..timers[1] |-> "TIMEOUT"]
      BY <2>4 DEF Tick
    <3>2. CASE d # 1
      <4>1. d - 1 \in 1..TIMEOUT /\ d - 1 < TIMEOUT /\ (d - 1) + 1 = d
        BY <1>0, <2>1, <3>2
      <4>2. timers'[d - 1] = timers[d]
        BY <3>1, <4>1
      <4> QED BY <2>1, <4>1, <4>2 DEF TimeoutDue
    <3>3. CASE d = 1
      <4> DEFINE n == timers[1]
                 r == [i \in 1..n |-> "TIMEOUT"]
      <4>1. n \in Nat /\ n > 0
        BY <1>0, <2>1, <3>3
      <4>2. r \in Seq(Messages) /\ Len(r) = n /\ r[1] = "TIMEOUT"
        BY <4>1
      <4> HIDE DEF r, n
      <4>3. inbox' = inbox \o r
        BY <3>1 DEF r, n
      <4> DEFINE k == Len(inbox) + 1
      <4>4. Len(inbox) \in Nat /\ Len(inbox') = Len(inbox) + n
        BY <1>0, <4>2, <4>3, ConcatProperties, LenProperties
      <4>5. k \in 1..Len(inbox) + n /\ ~(k <= Len(inbox)) /\ k - Len(inbox) = 1
        BY <4>1, <4>4
      <4> HIDE DEF k
      <4>6. inbox'[k] = r[k - Len(inbox)]
        BY <1>0, <4>2, <4>3, <4>5, ConcatProperties
      <4>7. k \in 1..Len(inbox') /\ inbox'[k] = "TIMEOUT"
        BY <4>2, <4>4, <4>5, <4>6
      <4> QED BY <4>7 DEF TimeoutDue
    <3> QED BY <3>2, <3>3
  <2>5. ASSUME NEW t \in Threads, ScheduleSend(t) \/ ArmSet(t) \/ LoopConclude(t) \/ ForceConclude(t)
        PROVE  UNCHANGED timers
    BY <2>5 DEF ScheduleSend, ArmSet, LoopConclude, ForceConclude, Conclude
  <2>6. ASSUME TakeStart PROVE UNCHANGED timers
    BY <2>6 DEF TakeStart
  <2>7. ASSUME UNCHANGED handlerVars PROVE UNCHANGED timers
    BY <2>7 DEF handlerVars
  <2> QED BY <2>2, <2>3, <2>4, <2>5, <2>6, <2>7, Writers
<1> QED BY <1>1, <1>2 DEF TimeoutDue

LEMMA ArmSendDue ==
  ASSUME IInv, NEW t \in Threads, ArmSend(t)
  PROVE  TimeoutDue'
<1>0. /\ inbox \in Seq(Messages) /\ timers \in [1..TIMEOUT -> Nat] /\ loc[t].due \in 0..TIMEOUT
      /\ TIMEOUT \in Nat \ {0}
  BY ConstantsAssumption DEF IInv, TypeOK, HandlerOK, ThreadsOK, Locals, Messages
<1>1. CASE loc[t].due = 0
  <2>1. inbox' = Append(inbox, "TIMEOUT")
    BY <1>1 DEF ArmSend
  <2>2. Len(inbox') = Len(inbox) + 1 /\ inbox'[Len(inbox) + 1] = "TIMEOUT" /\ Len(inbox) \in Nat
    BY <1>0, <2>1, AppendProperties, LenProperties DEF Messages
  <2>3. Len(inbox) + 1 \in 1..Len(inbox')
    BY <2>2
  <2> QED BY <2>2, <2>3 DEF TimeoutDue
<1>2. CASE loc[t].due # 0
  <2>1. timers' = [timers EXCEPT ![loc[t].due] = @ + 1]
    BY <1>2 DEF ArmSend
  <2>2. loc[t].due \in 1..TIMEOUT /\ timers'[loc[t].due] > 0
    BY <1>0, <1>2, <2>1
  <2> QED BY <2>2 DEF TimeoutDue
<1> QED BY <1>1, <1>2

LEMMA PendingMoves ==
  ASSUME IInv, Next
  PROVE  \/ pending' = pending
         \/ pending' = FALSE /\ (TakeTimeout \/ \E t \in Threads : Concluding(t))
         \/ \E t \in Threads : ArmSet(t)
<1>1. ASSUME NEW t \in Threads, ScheduleSend(t) \/ ArmSend(t) \/ Retire(t) PROVE pending' = pending
  BY <1>1 DEF ScheduleSend, ArmSend, Retire
<1>2. ASSUME NEW t \in Threads, LoopConclude(t) \/ ForceConclude(t) PROVE pending' = FALSE /\ Concluding(t)
  BY <1>2 DEF LoopConclude, ForceConclude, Conclude, Concluding
<1>3. ASSUME TakeStart \/ Tick PROVE pending' = pending
  BY <1>3 DEF TakeStart, Tick
<1>4. ASSUME TakeTimeout PROVE pending' = FALSE
  BY <1>4 DEF TakeTimeout
<1>5. ASSUME UNCHANGED handlerVars PROVE pending' = pending
  BY <1>5 DEF handlerVars
<1> QED BY <1>1, <1>2, <1>3, <1>4, <1>5, Writers

\* How the ordered thread comes to handle a timeout, and a thread to set the flag.
LEMMA ArmMoves ==
  ASSUME IInv, Next
  PROVE  /\ loc'["ordered"].call = "timeout" => loc["ordered"].call = "timeout" \/ TakeTimeout
         /\ \A t \in Threads : pc'[t] = "armSet" /\ pc[t] # "armSet" => ArmTest(t) /\ ~pending
         /\ \A t \in Threads : pc[t] = "armSend" => pc'[t] = "armSend" \/ ArmSend(t)
<1>0. "ordered" \in Threads /\ "main" \in Threads /\ pc \in [Threads -> Labels]
  BY DEF Threads, IInv, TypeOK, ThreadsOK
<1>1. loc'["ordered"].call = "timeout" => loc["ordered"].call = "timeout" \/ TakeTimeout
  <2>1. ASSUME Step("ordered")
        PROVE  loc'["ordered"].call \in {loc["ordered"].call, "none", "unsub"} \/ pc["ordered"] = "idle"
    BY <1>0, <2>1, ThreadStep DEF IInv, Path, Goes, Left, Keep
  <2>2. ASSUME Step("ordered") PROVE pc["ordered"] # "idle"
    BY <1>0, <2>2, StepAt
  <2>3. ASSUME HandlerCall
        PROVE  TakeTimeout \/ loc'["ordered"].call \in {"start", "none"} \/ pc["ordered"] = "expire"
    BY <2>3, HandlerCalls
  <2>4. pc["ordered"] = "expire" => loc["ordered"].call = "timeout"
    BY <1>0 DEF IInv, Control, CallInv
  <2>5. ASSUME Rests("ordered") PROVE loc'["ordered"].call = loc["ordered"].call
    BY <2>5 DEF Rests, Keep
  <2> QED BY <1>0, <2>1, <2>2, <2>3, <2>4, <2>5, Actors
<1>2. ASSUME NEW t \in Threads, pc'[t] = "armSet", pc[t] # "armSet"
      PROVE  ArmTest(t) /\ ~pending
  <2>1. ~Rests(t)
    BY <1>2 DEF Rests
  <2>2. ~(t = "main" /\ MainCall)
    BY <1>2, <2>1, MainCalls
  <2>3. ~(t = "ordered" /\ HandlerCall)
    BY <1>2, HandlerCalls
  <2>4. Step(t)
    BY <2>1, <2>2, <2>3, Actors
  <2>5. pc[t] = "arm"
    <3>1. Path(t) /\ pc[t] # "idle"
      BY <2>4, ThreadStep, StepAt DEF IInv
    <3> QED BY <1>2, <3>1 DEF Path, Edges, Left
  <2>6. ArmTest(t)
    BY <2>4, <2>5, StepAt
  <2>7. ASSUME pending PROVE FALSE
    <3>1. AfterArm(t)
      BY <2>6, <2>7 DEF ArmTest
    <3>2. CASE loc[t].call = "timeout"
      <4>1. Left(t)
        BY <3>1, <3>2, LeaveStep DEF AfterArm, IInv, TypeOK
      <4> QED BY <1>2, <4>1 DEF Left
    <3>3. CASE loc[t].call # "timeout"
      BY <1>0, <1>2, <3>1, <3>3 DEF AfterArm, Goto
    <3> QED BY <3>2, <3>3
  <2> QED BY <2>6, <2>7
<1>3. ASSUME NEW t \in Threads, pc[t] = "armSend" PROVE pc'[t] = "armSend" \/ ArmSend(t)
  BY <1>3, Inside, StepAt DEF Rests
<1> QED BY <1>1, <1>2, <1>3

LEMMA TimedStep ==
  ASSUME IInv, Timed, RetireTimed, Next
  PROVE  Timed'
<1>0. "ordered" \in Threads /\ "main" \in Threads /\ pc \in [Threads -> Labels]
  BY DEF Threads, IInv, TypeOK, ThreadsOK
<1> SUFFICES ASSUME pending'
             PROVE  \/ TimeoutDue'
                    \/ \E t \in Threads : pc'[t] = "armSend"
                    \/ loc'["ordered"].call # "timeout" /\ \A t \in Threads : pc'[t] # "armSet"
  BY DEF Timed
<1>1. ASSUME NEW t \in Threads, ArmSet(t) PROVE pc'[t] = "armSend"
  BY <1>0, <1>1 DEF ArmSet, Goto
<1>2. CASE ~\E t \in Threads : ArmSet(t)
  <2>1. pending /\ ~TakeTimeout
    <3>1. pending' = pending
      BY <1>2, PendingMoves
    <3>2. TakeTimeout => ~pending'
      BY DEF TakeTimeout
    <3> QED BY <3>1, <3>2
  <2>2. ASSUME NEW t \in Threads, pc'[t] = "armSet" PROVE pc[t] = "armSet"
    BY <2>1, <2>2, ArmMoves
  <2>3. loc'["ordered"].call = "timeout" => loc["ordered"].call = "timeout"
    BY <2>1, ArmMoves
  <2>4. CASE TimeoutDue
    <3>1. CASE TimeoutDue'
      BY <3>1
    <3>2. CASE \E t \in Threads : Retire(t)
      <4>1. PICK t \in Threads : Retire(t)
        BY <3>2
      <4>2. pc[t] = "retire" /\ Step(t)
        BY <4>1 DEF Retire, Step
      <4>3. t = "main" /\ (loc["ordered"].call = "timeout" => pc["ordered"] = "armSend")
        BY <2>1, <4>2 DEF RetireTimed
      <4>4. pc'["ordered"] = pc["ordered"]
        BY <1>0, <4>2, <4>3, StepApart
      <4>5. CASE loc["ordered"].call = "timeout"
        BY <1>0, <4>3, <4>4, <4>5
      <4>6. CASE loc["ordered"].call # "timeout"
        <5>1. ASSUME NEW u \in Threads, pc[u] = "armSet" PROVE FALSE
          <6>1. u = "ordered"
            BY <1>0, <4>2, <4>3, <5>1 DEF Threads
          <6>2. loc[u].call \in Going \cup {"timeout"}
            BY <5>1 DEF IInv, Control, CallInv, ArmSteps
          <6>3. Holds(u)
            BY <4>6, <5>1, <6>1, <6>2 DEF Holds, ArmSteps
          <6>4. Holds(t)
            BY <4>2 DEF Holds, NextSteps
          <6> QED BY <4>3, <6>1, <6>3, <6>4, HolderIs
        <5> QED BY <2>2, <2>3, <4>6, <5>1
      <4> QED BY <4>5, <4>6
    <3> QED BY <2>1, <2>4, <3>1, <3>2, TimeoutDueStep
  <2>5. CASE \E t \in Threads : pc[t] = "armSend"
    BY <2>5, ArmMoves, ArmSendDue
  <2>6. CASE loc["ordered"].call # "timeout" /\ \A t \in Threads : pc[t] # "armSet"
    BY <2>2, <2>3, <2>6
  <2> QED BY <2>1, <2>4, <2>5, <2>6 DEF Timed
<1> QED BY <1>1, <1>2

LEMMA RetireTimedStep ==
  ASSUME IInv, Callers, RetireTimed, Next
  PROVE  RetireTimed'
<1>0. "ordered" \in Threads /\ "main" \in Threads /\ pc \in [Threads -> Labels]
  BY DEF Threads, IInv, TypeOK, ThreadsOK
<1> SUFFICES ASSUME NEW t \in Threads, pc'[t] = "retire", pending'
             PROVE  t = "main" /\ (loc'["ordered"].call = "timeout" => pc'["ordered"] = "armSend")
  BY DEF RetireTimed
<1>1. pc[t] = "retire"
  <2>1. ASSUME pc[t] # "retire" PROVE Concluding(t)
    <3>1. ~Rests(t)
      BY <2>1 DEF Rests
    <3>2. Step(t)
      BY <3>1, Actors, MainCalls, HandlerCalls
    <3>3. pc[t] \in {"loop", "settle"}
      <4>1. Path(t) /\ pc[t] # "idle"
        BY <3>2, ThreadStep, StepAt DEF IInv
      <4> QED BY <2>1, <4>1 DEF Path, Edges, Left
    <3>4. ~LoopReturn(t) /\ ~LoopForce(t) /\ ~LoopDispatch(t)
      <4>1. ASSUME LoopReturn(t) PROVE FALSE
        <5>1. Left(t)
          BY <4>1, LeaveStep DEF LoopReturn, IInv, TypeOK
        <5> QED BY <5>1 DEF Left
      <4> QED BY <1>0, <4>1 DEF LoopForce, LoopDispatch, Goto
    <3> QED BY <3>2, <3>3, <3>4, StepAt DEF Concluding
  <2>2. ASSUME Concluding(t) PROVE ~pending'
    BY <2>2 DEF Concluding, LoopConclude, ForceConclude, Conclude
  <2> QED BY <2>1, <2>2
<1>2. Holds(t)
  BY <1>1 DEF Holds, NextSteps
<1>3. CASE \E u \in Threads : ArmSet(u)
  <2>1. PICK u \in Threads : ArmSet(u)
    BY <1>3
  <2>2. pc[u] = "armSet" /\ pc'[u] = "armSend" /\ u # t
    BY <1>0, <1>1, <2>1 DEF ArmSet, Goto
  <2>3. loc[u].call = "timeout"
    <3>1. loc[u].call \in Going \cup {"timeout"}
      BY <2>2 DEF IInv, Control, CallInv, ArmSteps
    <3>2. ~Holds(u)
      BY <1>2, <2>2, HolderIs
    <3> QED BY <2>2, <3>1, <3>2 DEF Holds, ArmSteps
  <2> QED BY <1>0, <2>2, <2>3 DEF Callers, Threads
<1>4. CASE ~\E u \in Threads : ArmSet(u)
  <2>1. pending /\ ~TakeTimeout
    <3>1. pending' = pending
      BY <1>4, PendingMoves
    <3>2. TakeTimeout => ~pending'
      BY DEF TakeTimeout
    <3> QED BY <3>1, <3>2
  <2>2. t = "main" /\ (loc["ordered"].call = "timeout" => pc["ordered"] = "armSend")
    BY <1>1, <2>1 DEF RetireTimed
  <2>3. ASSUME loc'["ordered"].call = "timeout", ArmSend("ordered") PROVE FALSE
    <3>1. loc["ordered"].call = "timeout"
      BY <2>1, <2>3, ArmMoves
    <3>2. Left("ordered")
      BY <1>0, <2>3, <3>1, LeaveStep DEF ArmSend, AfterArm, IInv, TypeOK
    <3> QED BY <2>3, <3>2 DEF Left
  <2> QED BY <1>0, <2>1, <2>2, <2>3, ArmMoves
<1> QED BY <1>3, <1>4

\* An answer is taken for the front event, or it was and goes on.
LEMMA AnsweringStep ==
  ASSUME IInv, PInv, Callers, Next, Answering'
  PROVE  \/ /\ ~Answering /\ pc["main"] = "idle" /\ lock = None
            /\ pc'["main"] = "finishRead" /\ loc'["main"].sp = Head(queue)
            /\ queue # <<>> /\ ev[Head(queue)].cur # None
            /\ UNCHANGED <<ev, queue, history, handlerVars>>
            /\ pc'["ordered"] = pc["ordered"] /\ loc'["ordered"] = loc["ordered"]
         \/ /\ Answering /\ loc'["main"].sp = loc["main"].sp
            /\ Rests("main") \/ FinishRead("main") \/ FinishState("main") \/ FinishCur("main")
            /\ pc["main"] # "mark"
<1>0. /\ "ordered" \in Threads /\ "main" \in Threads /\ pc \in [Threads -> Labels]
      /\ loc \in [Threads -> Locals] /\ TRUE # FALSE
  BY DEF Threads, IInv, TypeOK, ThreadsOK
<1>a. pc'["main"] \in FinishSteps /\ loc'["main"].force = FALSE
  BY DEF Answering
<1>b. Answering => pc["main"] # "mark"
  BY <1>0 DEF Callers, Answering
<1>1. CASE Rests("main")
  <2>1. Answering
    BY <1>a, <1>1 DEF Rests, Keep, Answering
  <2> QED BY <1>b, <1>1, <2>1 DEF Rests, Keep
<1>2. CASE Step("main") /\ ~Rests("main")
  <2>1. Path("main") /\ pc["main"] # "idle" /\ pc["main"] # "expire"
    BY <1>0, <1>2, ThreadStep, StepAt DEF IInv
  <2>2. /\ pc["main"] \in {"mark", "finishRead", "finishState", "finishCur"} /\ Keep("main")
    BY <1>0, <1>a, <2>1 DEF Path, Edges, Left, FinishSteps
  <2>3. Answering
    BY <1>a, <2>2 DEF Answering, Keep, FinishSteps
  <2> QED BY <1>0, <1>b, <1>2, <2>2, <2>3, StepAt DEF Keep
<1>3. CASE MainCall /\ ~Rests("main")
  <2>1. /\ pc["main"] = "idle" /\ lock = None
        /\ pc'["main"] = "finishRead" /\ loc'["main"].sp = Head(queue)
        /\ queue # <<>> /\ ev[Head(queue)].cur # None
        /\ UNCHANGED <<ev, queue, history, handlerVars>>
        /\ pc'["ordered"] = pc["ordered"] /\ loc'["ordered"] = loc["ordered"]
    BY <1>a, <1>3, MainCalls DEF FinishSteps
  <2> QED BY <2>1 DEF Answering, FinishSteps
<1> QED BY <1>0, <1>1, <1>2, <1>3, Actors

\* What was in the history stays there.
LEMMA HistoryStays ==
  ASSUME IInv, Next, NEW h \in 1..Len(history)
  PROVE  \E k \in 1..Len(history') : history'[k].ev = history[h].ev
<1>0. history \in Seq(HistoryRecords)
  BY DEF IInv, TypeOK, LogsOK
<1>1. CASE \E t \in Threads : Retire(t)
  <2>1. PICK t \in Threads : Retire(t)
    BY <1>1
  <2> DEFINE r == [ev |-> loc[t].sp, delivery |-> ev[loc[t].sp].delivery, abort |-> ev[loc[t].sp].abort]
  <2>2. history' = Append(history, r)
    BY <2>1 DEF Retire
  <2>3. r \in HistoryRecords
    <3>1. loc[t].sp \in Events /\ ev \in [Events -> EventRecords]
      BY <2>1 DEF Retire, IInv, Control, CallInv, TypeOK, RecordsOK
    <3> QED BY <3>1 DEF HistoryRecords, EventRecords
  <2> HIDE DEF r
  <2>4. Len(history') = Len(history) + 1 /\ history'[h] = history[h] /\ Len(history) \in Nat
    BY <1>0, <2>2, <2>3, AppendProperties, LenProperties
  <2>5. h \in 1..Len(history')
    BY <2>4
  <2> QED BY <2>4, <2>5
<1>2. ASSUME UNCHANGED history PROVE \E k \in 1..Len(history') : history'[k].ev = history[h].ev
  BY <1>2
<1>3. UNCHANGED history \/ \E t \in Threads : Retire(t)
  <2>1. ASSUME EnqueueOrderedRecord PROVE UNCHANGED history
    BY <2>1 DEF EnqueueOrderedRecord
  <2> QED BY <2>1, Writers DEF queueVars
<1> QED BY <1>1, <1>2, <1>3

\* An event that is retired is in the history.
LEMMA RetiredIsGone ==
  ASSUME IInv, Next, NEW t \in Threads, Retire(t)
  PROVE  \E k \in 1..Len(history') : history'[k].ev = Head(queue)
<1>0. history \in Seq(HistoryRecords)
  BY DEF IInv, TypeOK, LogsOK
<1>1. queue # <<>> /\ loc[t].sp = Head(queue) /\ Head(queue) \in Events
  BY RetireHistory
<1> DEFINE r == [ev |-> loc[t].sp, delivery |-> ev[loc[t].sp].delivery, abort |-> ev[loc[t].sp].abort]
<1>2. history' = Append(history, r) /\ r.ev = Head(queue)
  BY <1>1 DEF Retire
<1>3. r \in HistoryRecords
  BY <1>1 DEF HistoryRecords, EventRecords, IInv, TypeOK, RecordsOK
<1> HIDE DEF r
<1>4. Len(history') = Len(history) + 1 /\ history'[Len(history) + 1] = r /\ Len(history) \in Nat
  BY <1>0, <1>2, <1>3, AppendProperties, LenProperties
<1>5. Len(history) + 1 \in 1..Len(history')
  BY <1>4
<1> QED BY <1>2, <1>4, <1>5

LEMMA FinishingStep ==
  ASSUME IInv, PInv, Callers, Finishing, Next
  PROVE  Finishing'
<1> SUFFICES ASSUME Answering'
             PROVE  \/ queue' # <<>> /\ loc'["main"].sp = Head(queue')
                    \/ \E h \in 1..Len(history') : history'[h].ev = loc'["main"].sp
  BY DEF Finishing
<1>1. CASE ~Answering
  BY <1>1, AnsweringStep
<1>2. CASE Answering
  <2>1. loc'["main"].sp = loc["main"].sp
    BY <1>2, AnsweringStep
  <2>2. CASE queue # <<>> /\ loc["main"].sp = Head(queue)
    BY <2>1, <2>2, HeadStep, RetiredIsGone
  <2>3. CASE \E h \in 1..Len(history) : history[h].ev = loc["main"].sp
    BY <2>1, <2>3, HistoryStays
  <2> QED BY <1>2, <2>2, <2>3 DEF Finishing
<1> QED BY <1>1, <1>2

\* Who comes to the front of the queue.
LEMMA HeadMoves ==
  ASSUME IInv, Next, queue' # <<>>
  PROVE  \/ Head(queue') \in Publishable
         \/ queue # <<>> /\ Head(queue') = Head(queue) /\ \A t \in Threads : ~Retire(t)
         \/ \E i \in 1..Len(queue) : i # 1 /\ Head(queue') = queue[i]
<1>0. queue \in Seq(Events)
  BY DEF IInv, TypeOK, LogsOK
<1>1. CASE \E t \in Threads : Retire(t)
  <2>1. queue # <<>> /\ queue' = Tail(queue)
    BY <1>1, RetireHistory
  <2>2. Head(queue') = queue'[1] /\ Len(queue') \in Nat /\ Len(queue') # 0
    BY <1>0, <2>1, HeadTailProperties, EmptySeq, LenProperties
  <2>3. Len(queue') = Len(queue) - 1 /\ \A i \in 1..Len(queue') : queue'[i] = queue[i + 1]
    BY <1>0, <2>1, HeadTailProperties
  <2>4. 1 \in 1..Len(queue') /\ 1 + 1 \in 1..Len(queue)
    BY <1>0, <2>2, <2>3, LenProperties
  <2> QED BY <2>2, <2>3, <2>4
<1>2. CASE EnqueueOrderedRecord /\ queue = <<>>
  <2>1. queue' = Append(<<>>, loc["main"].sp) /\ loc["main"].sp \in Publishable
    BY <1>2 DEF EnqueueOrderedRecord, IInv, Fresh
  <2>2. Head(queue') = loc["main"].sp
    BY <2>1
  <2> QED BY <2>1, <2>2
<1>3. CASE queue # <<>> /\ ~\E t \in Threads : Retire(t)
  BY <1>3, HeadStep
<1>4. CASE queue = <<>> /\ UNCHANGED queueVars
  BY <1>4 DEF queueVars
<1> QED BY <1>1, <1>2, <1>3, <1>4, Writers

\* An answer is being taken for the front event all the time, or the event has gone.
LEMMA SameFront ==
  ASSUME IInv, PInv, Callers, Finishing, Next, Answering, Overtaken'
  PROVE  /\ queue # <<>> /\ loc["main"].sp = Head(queue) /\ loc'["main"].sp = Head(queue)
         /\ queue' # <<>> /\ Head(queue') = Head(queue) /\ \A t \in Threads : ~Retire(t)
<1>1. loc'["main"].sp = loc["main"].sp /\ queue' # <<>> /\ loc'["main"].sp = Head(queue')
  BY AnsweringStep DEF Overtaken
<1>2. loc["main"].sp \notin Publishable
  <2>1. CASE queue # <<>> /\ loc["main"].sp = Head(queue)
    BY <2>1, HeadOfQueue
  <2>2. CASE \E h \in 1..Len(history) : history[h].ev = loc["main"].sp
    BY <2>2, GoneApart
  <2> QED BY <2>1, <2>2 DEF Finishing
<1>3. ASSUME NEW i \in 1..Len(queue), i # 1, loc["main"].sp = queue[i] PROVE FALSE
  <2>1. CASE queue # <<>> /\ loc["main"].sp = Head(queue)
    BY <1>3, <2>1, HeadOfQueue, QueueDistinct
  <2>2. CASE \E h \in 1..Len(history) : history[h].ev = loc["main"].sp
    BY <1>3, <2>2, GoneApart
  <2> QED BY <2>1, <2>2 DEF Finishing
<1> QED BY <1>1, <1>2, <1>3, HeadMoves

\* The ordered thread comes to dispatch through the loop alone.
LEMMA DispatchBegins ==
  ASSUME IInv, Callers, Next, ~Dispatches, Dispatches'
  PROVE  LoopDispatch("ordered") /\ pc'["ordered"] = "setTime" /\ loc'["ordered"].timer = pending
<1>0. "ordered" \in Threads /\ pc \in [Threads -> Labels] /\ loc \in [Threads -> Locals]
  BY DEF Threads, IInv, TypeOK, ThreadsOK
<1>1. ~Rests("ordered")
  BY DEF Rests, Keep, Dispatches
<1>2. ~HandlerCall
  <2>1. ASSUME HandlerCall PROVE ~Dispatches'
    BY <2>1, HandlerCalls DEF Dispatches, ArmSteps
  <2> QED BY <2>1
<1>3. Step("ordered")
  BY <1>0, <1>1, <1>2, Actors
<1>4. Path("ordered") /\ pc["ordered"] \notin {"idle", "expire"}
  BY <1>0, <1>3, ThreadStep, StepAt DEF IInv
<1>5. pc'["ordered"] = "setTime" /\ pc["ordered"] # "setTime"
  <2>1. pc'["ordered"] \in {"setTime", "notify", "cast", "tell", "park", "check"} \cup ArmSteps
    BY DEF Dispatches
  <2>2. pc["ordered"] \notin {"setTime", "notify", "cast", "tell", "park", "check"}
    BY DEF Dispatches
  <2>3. CASE pc["ordered"] \in ArmSteps
    <3>1. loc["ordered"].call = "timeout"
      BY <2>3 DEF Dispatches
    <3>2. \/ loc'["ordered"].call = "timeout" /\ pc'["ordered"] \in ArmSteps
          \/ pc'["ordered"] \in {"idle", "remove"}
      BY <1>4, <2>3, <3>1 DEF Path, Keep, Goes, Edges, ArmSteps, ScheduleSteps, Left
    <3> QED BY <2>1, <3>2 DEF Dispatches, ArmSteps
  <2>4. CASE pc["ordered"] \notin ArmSteps
    BY <1>4, <2>1, <2>2, <2>4 DEF Path, Edges, ArmSteps, ScheduleSteps, Left
  <2> QED BY <2>2, <2>3, <2>4
<1>6. LoopDispatch("ordered")
  BY <1>0, <1>5, Landmarks
<1> QED BY <1>0, <1>5, <1>6 DEF LoopDispatch, Locals

\* The ordered thread finishes a receiver for a timeout, or by force.
LEMMA OrderedFinishes ==
  ASSUME IInv, Callers, pc["ordered"] \in FinishSteps
  PROVE  /\ loc["ordered"].call = "timeout" \/ loc["ordered"].force = TRUE
         /\ pc["ordered"] # "finishRead"
<1>1. loc["ordered"].call \in Going \cup {"timeout"} /\ loc["ordered"].force \in BOOLEAN
  BY DEF IInv, TypeOK, ThreadsOK, Locals, Control, CallInv, Threads
<1> QED BY <1>1 DEF Callers, Going, Threads

\* A thread outside of it that has not the lock does not dispatch.
LEMMA FreeOfDispatch ==
  ASSUME IInv, lock = None
  PROVE  ~Dispatches /\ \A t \in Threads : pc[t] \notin NextSteps
<1>0. "ordered" \in Threads
  BY DEF Threads
<1>1. \A t \in Threads : ~Holds(t)
  BY ConstantsAssumption DEF IInv, Mutex
<1>2. ASSUME pc["ordered"] \in ArmSteps, loc["ordered"].call # "timeout" PROVE FALSE
  <2>1. loc["ordered"].call \in Going
    BY <1>0, <1>2 DEF IInv, Control, CallInv
  <2> QED BY <1>0, <1>1, <1>2, <2>1 DEF Holds
<1> QED BY <1>0, <1>1, <1>2 DEF Holds, NextSteps, Dispatches

\* The answer of the front event is overtaken: its receiver is timed out while
\* it is on its way.
LEMMA OvertakenBegins ==
  ASSUME IInv, PInv, Callers, Timed, Receiving, Clearing, Finishing, Next, ~Overtaken, Overtaken'
  PROVE  Ending' \/ (Pended' /\ Coming')
<1>0. /\ "ordered" \in Threads /\ "main" \in Threads /\ Threads = {"main", "ordered"}
      /\ ev \in [Events -> EventRecords] /\ pc \in [Threads -> Labels] /\ loc \in [Threads -> Locals]
  BY DEF Threads, IInv, TypeOK, RecordsOK, ThreadsOK
<1>a. Answering'
  BY DEF Overtaken
<1>1. CASE ~Answering
  <2> DEFINE e == Head(queue)
  <2>1. /\ pc["main"] = "idle" /\ lock = None
        /\ pc'["main"] = "finishRead" /\ loc'["main"].sp = e
        /\ queue # <<>> /\ ev[e].cur # None
        /\ UNCHANGED <<ev, queue, history, handlerVars>>
        /\ pc'["ordered"] = pc["ordered"] /\ loc'["ordered"] = loc["ordered"]
    BY <1>a, <1>1, AnsweringStep
  <2>2. ~Dispatches /\ \A t \in Threads : pc[t] \notin NextSteps
    BY <2>1, FreeOfDispatch
  <2>3. ~Dispatches'
    BY <2>1, <2>2 DEF Dispatches
  <2>4. ev[e].state # "RECEIVED"
    BY <2>1, <2>3 DEF Overtaken
  <2>5. e \in Events
    BY <2>1, HeadOfQueue
  <2>6. ev[e].state # "RECEIVEING"
    BY <2>2, <2>5 DEF Receiving, NextSteps
  <2>7. ev[e].state = "IDLE"
    BY <1>0, <2>4, <2>5, <2>6 DEF EventRecords, States
  <2>8. pc["ordered"] = "finishCur"
    BY <1>0, <2>1, <2>5, <2>7 DEF Clearing
  <2>9. loc["ordered"].call = "timeout"
    <3>1. ~Holds("ordered")
      BY <1>0, <2>1, ConstantsAssumption DEF IInv, Mutex
    <3> QED BY <2>8, <3>1, OrderedFinishes DEF Holds, FinishSteps
  <2>10. pending => TimeoutDue
    BY <1>0, <2>1, <2>8, <2>9 DEF Timed
  <2>11. TimeoutDue' = TimeoutDue /\ pending' = pending
    BY <2>1 DEF TimeoutDue, handlerVars
  <2>12. Pended'
    BY <2>10, <2>11 DEF Pended
  <2>13. Coming'
    BY <2>1, <2>3, <2>7, <2>8 DEF Coming
  <2> QED BY <2>12, <2>13
<1>2. CASE Answering
  <2> DEFINE e == Head(queue)
  <2>1. /\ queue # <<>> /\ loc["main"].sp = e /\ queue' # <<>> /\ Head(queue') = e
    BY <1>2, SameFront
  <2>2. e \in Events \ Publishable
    BY <2>1, HeadOfQueue
  <2>3. Rests("main") \/ FinishRead("main") \/ FinishState("main") \/ FinishCur("main")
    BY <1>2, <1>a, AnsweringStep
  <2>4. IF pc["main"] = "finishRead"
        THEN ev[e].state = "RECEIVED" /\ ~Dispatches ELSE loc["main"].doNext = TRUE
    BY <1>2, <2>1 DEF Overtaken
  <2>5. /\ pc'["main"] = "finishRead" => ev'[e].state # "RECEIVED" \/ Dispatches'
        /\ pc'["main"] # "finishRead" => loc'["main"].doNext # TRUE
    <3>1. /\ pc'["main"] = "finishRead" => ev'[Head(queue')].state # "RECEIVED" \/ Dispatches'
          /\ pc'["main"] # "finishRead" => loc'["main"].doNext # TRUE
      BY Zenon DEF Overtaken
    <3> QED BY <2>1, <3>1
  <2>6. pc["main"] = "finishRead"
    <3>1. ASSUME pc["main"] # "finishRead" PROVE FALSE
      <4>1. CASE Rests("main")
        BY <2>4, <2>5, <3>1, <4>1 DEF Rests
      <4>2. CASE FinishState("main")
        BY <1>0, <2>4, <2>5, <3>1, <4>2 DEF FinishState, Goto
      <4>3. CASE FinishCur("main")
        BY <1>0, <2>4, <2>5, <3>1, <4>3 DEF FinishCur, Goto
      <4> QED BY <2>3, <3>1, <4>1, <4>2, <4>3 DEF FinishRead
    <3> QED BY <3>1
  <2>7. ~FinishRead("main")
    <3>1. ASSUME FinishRead("main") PROVE FALSE
      <4>1. loc'["main"].doNext = TRUE /\ pc'["main"] = "finishState"
        BY <1>0, <2>1, <2>4, <2>6, <3>1 DEF FinishRead, Goto, Locals
      <4> QED BY <2>5, <4>1
    <3> QED BY <3>1
  <2>8. Rests("main") /\ pc'["main"] = "finishRead" /\ ~Dispatches /\ ev[e].state = "RECEIVED"
    BY <2>3, <2>4, <2>6, <2>7 DEF FinishState, FinishCur, Rests
  <2>9. ~Dispatches'
    <3>1. ASSUME LoopDispatch("ordered") PROVE FALSE
      BY <2>8, <3>1 DEF LoopDispatch
    <3> QED BY <2>8, <3>1, DispatchBegins
  <2>10. ev'[e].state # ev[e].state /\ ~Renewed(e)
    BY <2>2, <2>5, <2>8, <2>9 DEF Renewed
  <2>11. PICK t \in Threads :
            \/ Concluding(t) /\ e = Head(queue) /\ ev'[e].cur = ev[e].cur /\ ev'[e].state = "IDLE"
            \/ /\ NotifyOrderedEvent(t) /\ e = loc[t].sp /\ pc'[t] = "cast" /\ loc' = loc
               /\ ev'[e].state = "RECEIVEING"
            \/ TellReceiver(t) /\ e = loc[t].sp /\ ev'[e].state = "RECEIVED"
            \/ /\ CheckReceiver(t) /\ e = loc[t].sp /\ ev[e].cur = None /\ ev'[e].cur = None
               /\ ev'[e].state = "IDLE" /\ pc'[t] = "schedule"
            \/ /\ FinishState(t) /\ e = loc[t].sp /\ ev'[e].cur = ev[e].cur
               /\ ev'[e].state = "IDLE" /\ pc'[t] = "finishCur" /\ loc' = loc
    BY <2>2, <2>10, StateMoves
  <2>12. t = "ordered"
    <3>1. t # "main"
      BY <2>6, <2>11 DEF Concluding, LoopConclude, ForceConclude, NotifyOrderedEvent, TellReceiver,
                         CheckReceiver, FinishState
    <3> QED BY <1>0, <3>1
  <2>13. \/ Concluding(t)
         \/ FinishState(t) /\ ev'[e].state = "IDLE" /\ pc'[t] = "finishCur" /\ loc' = loc
    BY <2>8, <2>11, <2>12 DEF Dispatches, NotifyOrderedEvent, TellReceiver, CheckReceiver
  <2>14. CASE Concluding(t)
    BY <2>12, <2>14, ConcludeClients DEF Concluding, Ending
  <2>15. CASE FinishState(t) /\ ev'[e].state = "IDLE" /\ pc'[t] = "finishCur" /\ loc' = loc
    <3>1. pc["ordered"] = "finishState" /\ UNCHANGED handlerVars
      BY <2>12, <2>15 DEF FinishState
    <3>2. CASE loc["ordered"].force = TRUE
      BY <2>15, <3>2 DEF Ending
    <3>3. CASE loc["ordered"].call = "timeout"
      <4>1. pending => TimeoutDue
        BY <1>0, <2>6, <3>1, <3>3 DEF Timed
      <4>2. TimeoutDue' = TimeoutDue /\ pending' = pending
        BY <3>1 DEF TimeoutDue, handlerVars
      <4>3. Coming'
        BY <2>1, <2>9, <2>12, <2>15 DEF Coming
      <4> QED BY <4>1, <4>2, <4>3 DEF Pended
    <3> QED BY <3>1, <3>2, <3>3, OrderedFinishes DEF FinishSteps
  <2> QED BY <2>13, <2>14, <2>15
<1> QED BY <1>1, <1>2

LEMMA EndingStays ==
  ASSUME IInv, PInv, Next, Ending, \A t \in Threads : ~Retire(t)
  PROVE  Ending'
<1>0. /\ "ordered" \in Threads /\ ThreadsOK /\ Control /\ TRUE # FALSE
  BY DEF Threads, IInv, TypeOK
<1>1. CASE Rests("ordered")
  BY <1>1 DEF Rests, Keep, Ending
<1>2. CASE HandlerCall
  <2>1. pc["ordered"] \in {"idle", "expire"}
    BY <1>2, HandlerCalls
  <2> QED BY <1>0, <2>1 DEF Ending, PInv, Flags, FinishSteps, ScheduleSteps
<1>3. CASE Step("ordered")
  <2>1. Path("ordered") /\ pc["ordered"] # "retire"
    BY <1>0, <1>3, ThreadStep, StepAt DEF IInv
  <2>2. loc["ordered"].force = TRUE /\ pc["ordered"] \in FinishSteps \cup ScheduleSteps \cup {"settle"}
    BY <1>0, <2>1 DEF Ending, PInv, Flags
  <2>3. loc'["ordered"].force = TRUE \/ pc'["ordered"] = "retire"
    BY <1>0, <2>1, <2>2 DEF Path, Keep, FinishSteps, ScheduleSteps, ArmSteps
  <2> QED BY <2>3 DEF Ending
<1> QED BY <1>0, <1>1, <1>2, <1>3, Actors

LEMMA PendedStays ==
  ASSUME IInv, Pended, Next, Answering, \A t \in Threads : ~Retire(t)
  PROVE  Pended'
<1>0. /\ "ordered" \in Threads /\ Threads = {"main", "ordered"} /\ pc \in [Threads -> Labels]
  BY DEF Threads, IInv, TypeOK, ThreadsOK
<1> SUFFICES ASSUME pending' PROVE TimeoutDue' \/ pc'["ordered"] = "armSend"
  BY DEF Pended
<1>1. ASSUME NEW t \in Threads, ArmSet(t) PROVE pc'["ordered"] = "armSend"
  BY <1>0, <1>1 DEF ArmSet, Goto, Answering, FinishSteps
<1>2. CASE pending /\ ~TakeTimeout
  BY <1>0, <1>2, TimeoutDueStep, ArmMoves, ArmSendDue DEF Pended
<1>3. TakeTimeout => ~pending'
  BY DEF TakeTimeout
<1> QED BY <1>1, <1>2, <1>3, PendingMoves

\* While an answer waits the timeout stays armed, or is handled and the next
\* receiver comes.
LEMMA ArmedStays ==
  ASSUME IInv, Pended, Armed, Next, Answering, \A t \in Threads : ~Retire(t),
         queue # <<>>, queue' # <<>>, Head(queue') = Head(queue)
  PROVE  Armed' \/ Coming'
<1>0. /\ "ordered" \in Threads /\ ev \in [Events -> EventRecords]
      /\ pc \in [Threads -> Labels] /\ loc \in [Threads -> Locals] /\ Head(queue) \in Events
  BY HeadOfQueue DEF Threads, IInv, TypeOK, RecordsOK, ThreadsOK
<1>1. CASE TimeoutDue
  <2>1. TakeTimeout => pc'["ordered"] = "expire"
    BY <1>0 DEF TakeTimeout, Goto
  <2> QED BY <1>1, <2>1, TimeoutDueStep DEF Armed
<1>2. CASE Rests("ordered")
  <2>1. pc'["ordered"] = pc["ordered"] /\ loc'["ordered"].timer = loc["ordered"].timer
        /\ loc'["ordered"].sp = loc["ordered"].sp
    BY <1>2 DEF Rests, Keep
  <2> QED BY <1>1, <2>1 DEF Armed
<1>3. CASE HandlerCall
  BY <1>1, <1>3, HandlerCalls DEF Armed, ArmSteps
<1>4. CASE Step("ordered") /\ ~TimeoutDue
  <2>0. pc["ordered"] # "expire"
    BY <1>0, <1>4, StepAt
  <2>1. CASE pc["ordered"] = "arm"
    <3>1. ArmTest("ordered") /\ ~pending
      BY <1>0, <1>4, <2>1, StepAt DEF Pended
    <3> QED BY <1>0, <3>1 DEF ArmTest, Goto, Armed, ArmSteps
  <2>2. CASE pc["ordered"] = "armSet"
    BY <1>0, <1>4, <2>2, StepAt DEF ArmSet, Goto, Armed, ArmSteps
  <2>3. CASE pc["ordered"] = "armSend"
    BY <1>0, <1>4, <2>3, StepAt, ArmSendDue DEF Armed
  <2>4. CASE pc["ordered"] = "setTime" /\ loc["ordered"].timer = FALSE
    BY <1>0, <1>4, <2>4, StepAt DEF SetTime, Goto, Armed, ArmSteps
  <2>5. CASE pc["ordered"] = "mark" /\ loc["ordered"].sp = Head(queue)
    <3>1. pc'["ordered"] = "finishState" /\ loc'["ordered"].sp = Head(queue)
      <4>1. TimeoutMark("ordered")
        BY <1>0, <1>4, <2>5, StepAt
      <4>2. /\ loc' = [loc EXCEPT !["ordered"].abort = ev[loc["ordered"].sp].abort]
            /\ pc' = [pc EXCEPT !["ordered"] = "finishState"]
        BY <4>1 DEF TimeoutMark, Goto
      <4> QED BY <1>0, <2>5, <4>2 DEF Locals
    <3> QED BY <3>1 DEF Armed
  <2>6. CASE pc["ordered"] = "finishState" /\ loc["ordered"].sp = Head(queue)
    <3>1. /\ pc'["ordered"] = "finishCur"
          /\ ev' = [ev EXCEPT ![Head(queue)].state = "IDLE"]
      BY <1>0, <1>4, <2>6, StepAt DEF FinishState, Goto
    <3>2. ev'[Head(queue')].state = "IDLE"
      BY <1>0, <3>1 DEF EventRecords
    <3> QED BY <3>1, <3>2 DEF Coming, Dispatches, ArmSteps
  <2> QED BY <1>4, <2>0, <2>1, <2>2, <2>3, <2>4, <2>5, <2>6 DEF Armed, ArmSteps
<1> QED BY <1>0, <1>1, <1>2, <1>3, <1>4, Actors

\* The front event stays IDLE until the ordered thread dispatches or ends it.
LEMMA ComingIdle ==
  ASSUME IInv, PInv, Callers, Next, Answering, Coming, queue # <<>>, ~Ending'
  PROVE  ev'[Head(queue)].state = "IDLE"
<1> DEFINE e == Head(queue)
<1>0. /\ Threads = {"main", "ordered"} /\ e \in Events \ Publishable /\ ev[e].state = "IDLE"
  BY HeadOfQueue DEF Threads, Coming
<1> SUFFICES ASSUME ev'[e].state # "IDLE" PROVE FALSE
  OBVIOUS
<1>1. ~Renewed(e) /\ ev'[e].state # ev[e].state
  BY <1>0 DEF Renewed
<1>2. PICK t \in Threads : NotifyOrderedEvent(t) \/ TellReceiver(t)
  BY <1>0, <1>1, StateMoves
<1>3. pc[t] \in {"notify", "tell"}
  BY <1>2 DEF NotifyOrderedEvent, TellReceiver
<1> QED BY <1>0, <1>3 DEF Coming, Dispatches, Answering, FinishSteps

LEMMA ComingStays ==
  ASSUME IInv, PInv, Callers, StartNotLost, Pended, Coming, Next, Answering,
         \A t \in Threads : ~Retire(t), queue # <<>>, queue' # <<>>, Head(queue') = Head(queue)
  PROVE  Ending' \/ Armed' \/ Coming'
<1>0. /\ "ordered" \in Threads /\ Threads = {"main", "ordered"} /\ StartNotLost'
      /\ pc \in [Threads -> Labels] /\ loc \in [Threads -> Locals] /\ TypeOK
      /\ loc["ordered"].force \in BOOLEAN
  BY StartNotLostStep DEF Threads, IInv, TypeOK, ThreadsOK, Locals
<1> SUFFICES ASSUME ~Ending' PROVE Armed' \/ Coming'
  OBVIOUS
<1>1. ev[Head(queue)].state = "IDLE" /\ ev'[Head(queue')].state = "IDLE"
  BY ComingIdle DEF Coming
<1>2. CASE Dispatches'
  <2>1. LoopDispatch("ordered") /\ pc'["ordered"] = "setTime" /\ loc'["ordered"].timer = pending
    BY <1>2, DispatchBegins DEF Coming
  <2>2. CASE pending
    <3>1. TimeoutDue
      BY <2>1, <2>2 DEF Pended, LoopDispatch
    <3>2. ~TakeTimeout
      BY <2>1 DEF LoopDispatch, TakeTimeout
    <3> QED BY <3>1, <3>2, TimeoutDueStep DEF Armed
  <2>3. CASE pending = FALSE
    BY <2>1, <2>3 DEF Armed
  <2> QED BY <2>2, <2>3 DEF IInv, TypeOK, HandlerOK
<1>3. CASE ~Dispatches'
  <2> SUFFICES StartDue(inbox') \/ pc'["ordered"] \in {"schedule", "send", "lock", "loop", "finishCur", "finishResult"}
    BY <1>1, <1>3 DEF Coming
  <2>1. CASE StartDue(inbox)
    <3>1. TakeStart => pc'["ordered"] = "lock"
      BY <1>0 DEF TakeStart, Goto
    <3> QED BY <2>1, <3>1, StartDueStep
  <2>2. CASE Rests("ordered") /\ ~StartDue(inbox)
    BY <2>2 DEF Rests, Coming
  <2>3. CASE HandlerCall /\ ~StartDue(inbox)
    BY <2>3, HandlerCalls DEF Coming
  <2>4. CASE Step("ordered") /\ ~StartDue(inbox)
    <3>1. CASE pc["ordered"] = "schedule"
      <4>1. ScheduleTest("ordered") /\ ~scheduled
        BY <1>0, <2>4, <3>1, StepAt DEF StartNotLost, StartDue
      <4> QED BY <1>0, <4>1 DEF ScheduleTest, Goto
    <3>2. CASE pc["ordered"] = "send"
      <4>1. scheduled'
        BY <1>0, <2>4, <3>2, StepAt DEF ScheduleSend
      <4> QED BY <1>0, <4>1 DEF StartNotLost, StartDue
    <3>3. CASE pc["ordered"] = "lock"
      BY <1>0, <2>4, <3>3, StepAt DEF LockForNext, Goto
    <3>4. CASE pc["ordered"] = "loop"
      <4>1. ~LoopReturn("ordered")
        BY <1>1 DEF LoopReturn
      <4>2. ~LoopForce("ordered")
        <5>1. LoopForce("ordered") => loc'["ordered"].force = TRUE
          BY <1>0 DEF LoopForce, Locals
        <5> QED BY <5>1 DEF Ending
      <4>3. ~LoopConclude("ordered")
        BY <1>0, ConcludeClients DEF Ending
      <4>4. ~LoopDispatch("ordered")
        <5>1. LoopDispatch("ordered") => pc'["ordered"] = "setTime"
          BY <1>0 DEF LoopDispatch, Goto
        <5> QED BY <1>3, <5>1 DEF Dispatches
      <4> QED BY <1>0, <2>4, <3>4, <4>1, <4>2, <4>3, <4>4, StepAt
    <3>5. CASE pc["ordered"] = "finishCur"
      BY <1>0, <2>4, <3>5, StepAt DEF FinishCur, Goto
    <3>6. CASE pc["ordered"] = "finishResult"
      <4>1. FinishResult("ordered") /\ (loc["ordered"].call = "timeout" \/ loc["ordered"].force = TRUE)
        BY <1>0, <2>4, <3>6, StepAt, OrderedFinishes DEF FinishSteps
      <4>2. pc'["ordered"] = "schedule"
        BY <1>0, <4>1 DEF FinishResult, Goto
      <4> QED BY <4>2
    <3> QED BY <2>4, <3>1, <3>2, <3>3, <3>4, <3>5, <3>6 DEF Coming
  <2> QED BY <1>0, <2>1, <2>2, <2>3, <2>4, Actors
<1> QED BY <1>2, <1>3

LEMMA CoveredStep ==
  ASSUME IInv, PInv, StartNotLost, Callers, Timed, Receiving, Clearing, Finishing, Covered, Next
  PROVE  Covered'
<1> SUFFICES ASSUME Overtaken' PROVE Ending' \/ (Pended' /\ (Armed' \/ Coming'))
  BY DEF Covered
<1>1. CASE ~Overtaken
  BY <1>1, OvertakenBegins
<1>2. CASE Overtaken
  <2>1. Answering
    BY <1>2 DEF Overtaken
  <2>2. /\ queue # <<>> /\ queue' # <<>> /\ Head(queue') = Head(queue)
        /\ \A t \in Threads : ~Retire(t)
    BY <2>1, SameFront
  <2>3. CASE Ending
    BY <2>2, <2>3, EndingStays
  <2>4. CASE Pended /\ (Armed \/ Coming)
    <3>1. Pended'
      BY <2>1, <2>2, <2>4, PendedStays
    <3> QED BY <2>1, <2>2, <2>4, <3>1, ArmedStays, ComingStays
  <2> QED BY <1>2, <2>3, <2>4 DEF Covered
<1> QED BY <1>1, <1>2

\* The front event that a finish has overtaken is driven by the other thread.
LEMMA OvertakenLive ==
  ASSUME IInv, PInv, Callers, Covered, Overtaken
  PROVE  StartDue(inbox) \/ TimeoutDue \/ Drives("ordered")
<1>0. "ordered" \in Threads /\ pc["ordered"] \in FinishSteps => Drives("ordered")
  <2>1. CASE pc["ordered"] \in {"finishState", "finishCur", "finishResult"}
    BY <2>1, OrderedFinishes DEF Drives, FinishSteps
  <2>2. CASE pc["ordered"] = "mark"
    BY <2>2 DEF Drives
  <2>3. pc["ordered"] # "finishRead"
    BY DEF Callers
  <2> QED BY <2>1, <2>2, <2>3 DEF FinishSteps
<1>1. CASE Ending
  <2>1. CASE pc["ordered"] = "retire"
    BY <2>1 DEF Drives
  <2>2. CASE loc["ordered"].force = TRUE
    <3>1. pc["ordered"] \in FinishSteps \cup ScheduleSteps \cup {"settle"}
      BY <2>2 DEF PInv, Flags, Threads
    <3> QED BY <1>0, <3>1 DEF Drives, ScheduleSteps, Threads
  <2> QED BY <1>1, <2>1, <2>2 DEF Ending
<1>2. CASE Armed
  BY <1>0, <1>2 DEF Armed, Drives, ArmSteps, FinishSteps, Threads
<1>3. CASE Coming
  BY <1>0, <1>3 DEF Coming, Drives, FinishSteps, Threads
<1> QED BY <1>1, <1>2, <1>3 DEF Covered

\* A driving thread that rests goes on driving.
LEMMA DriverRests ==
  ASSUME IInv, Next, NEW t \in Threads, Drives(t), Rests(t)
  PROVE  Drives(t)'
<1>1. CASE pc[t] # "check"
  BY <1>1 DEF Drives, Rests, Keep
<1>2. CASE pc[t] = "check"
  <2>1. Holds(t) /\ loc[t].sp \in Events /\ ev[loc[t].sp].cur = None
    <3>1. ev[loc[t].sp].cur = None
      BY <1>2 DEF Drives, ArmSteps
    <3> QED BY <1>2, <3>1 DEF Holds, NextSteps, IInv, Control, CallInv
  <2>2. ev'[loc[t].sp].cur = None
    BY <1>2, <2>1, CurMoves, HolderIs
  <2> QED BY <1>2, <2>2 DEF Drives, Rests, Keep
<1> QED BY <1>1, <1>2

\* The turn of a receiver begins while a finish of the one before still has to
\* clear curReceiver: the finish drives the event, or the ordered thread has
\* armed the timeout.
LEMMA BegunEarly ==
  ASSUME IInv, PInv, Callers, Clearing, Covered, NEW t \in Threads, pc[t] = "notify",
         ev[loc[t].sp].state = "IDLE", ev[loc[t].sp].cur # None
  PROVE  TimeoutDue \/ \E u \in Threads : u # t /\ Drives(u)
<1>0. /\ Threads = {"main", "ordered"} /\ Holds(t)
      /\ queue # <<>> /\ loc[t].sp = Head(queue) /\ loc[t].sp \in Events
  BY HeadOfQueue DEF Threads, Holds, NextSteps, IInv, AtHead
<1>1. PICK u \in Threads : pc[u] = "finishCur" /\ loc[u].sp = Head(queue)
  BY <1>0 DEF Clearing
<1>2. u # t
  BY <1>1
<1>3. CASE u = "ordered"
  BY <1>1, <1>2, <1>3, OrderedFinishes DEF Drives, FinishSteps
<1>4. CASE u = "main" /\ loc[u].doNext = TRUE
  BY <1>1, <1>2, <1>4 DEF Drives
<1>5. CASE u = "main" /\ loc[u].doNext # TRUE
  <2>0. t = "ordered"
    BY <1>0, <1>2, <1>5
  <2>1. loc[u].force = FALSE
    <3>1. loc[u].force # TRUE
      BY <1>0, <1>1, <1>2, HolderIs DEF Holds, FinishSteps
    <3>2. loc[u].force \in BOOLEAN
      BY DEF IInv, TypeOK, ThreadsOK, Locals
    <3> QED BY <3>1, <3>2
  <2>2. Overtaken
    BY <1>0, <1>1, <1>5, <2>1 DEF Overtaken, Answering, FinishSteps
  <2>3. ~Ending
    <3>1. loc["ordered"].force # TRUE
      BY <2>0 DEF PInv, Flags, FinishSteps, ScheduleSteps
    <3> QED BY <2>0, <3>1 DEF Ending
  <2>4. ~Coming
    BY <2>0 DEF Coming, Dispatches
  <2>5. Armed
    BY <2>2, <2>3, <2>4 DEF Covered
  <2> QED BY <2>0, <2>5 DEF Armed, ArmSteps
<1> QED BY <1>0, <1>3, <1>4, <1>5

\* A thread arms the timeout, unless one is due.
LEMMA DriverArms ==
  ASSUME IInv, Callers, Timed, Next, NEW t \in Threads, Step(t), pc[t] \in ArmSteps
  PROVE  TimeoutDue' \/ \E u \in Threads : Drives(u)'
<1>0. pc \in [Threads -> Labels] /\ loc \in [Threads -> Locals]
  BY DEF IInv, TypeOK, ThreadsOK
<1>1. CASE pc[t] = "armSend"
  BY <1>1, StepAt, ArmSendDue
<1>2. CASE pc[t] = "armSet"
  BY <1>0, <1>2, StepAt DEF ArmSet, Goto, Drives, ArmSteps
<1>3. CASE pc[t] = "arm"
  <2>1. ArmTest(t)
    BY <1>3, StepAt
  <2>2. CASE ~pending
    BY <1>0, <2>1, <2>2 DEF ArmTest, Goto, Drives, ArmSteps
  <2>3. CASE pending /\ loc[t].call # "timeout"
    <3>1. pc'[t] = "notify"
      BY <1>0, <2>1, <2>3 DEF ArmTest, AfterArm, Goto
    <3> QED BY <3>1 DEF Drives
  <2>4. CASE pending /\ loc[t].call = "timeout"
    <3>1. t = "ordered"
      BY <2>4 DEF Callers, Threads
    <3>2. CASE TimeoutDue
      BY <2>1, <3>2 DEF ArmTest, handlerVars, TimeoutDue
    <3>3. ASSUME NEW u \in Threads, pc[u] = "armSend" PROVE Drives(u)'
      <4>1. u # t
        BY <1>3, <3>3
      <4>2. pc'[u] = pc[u]
        BY <4>1, StepApart
      <4> QED BY <3>3, <4>2 DEF Drives, ArmSteps
    <3> QED BY <2>4, <3>1, <3>2, <3>3 DEF Timed
  <2> QED BY <2>2, <2>3, <2>4
<1> QED BY <1>1, <1>2, <1>3 DEF ArmSteps

\* The notification of a receiver goes on to the cast, to the parking of the
\* event or to CheckReceiver, and the front event stays driven.
LEMMA DriverNotifies ==
  ASSUME IInv, PInv, Callers, Clearing, Covered, Next, NEW t \in Threads, NotifyOrderedEvent(t),
         ev'[Head(queue')].state = "IDLE"
  PROVE  TimeoutDue' \/ \E u \in Threads : Drives(u)'
<1> DEFINE e == loc[t].sp
<1>0. /\ pc[t] = "notify" /\ Holds(t) /\ Step(t) /\ e = Head(queue) /\ e \in Events
      /\ ev \in [Events -> EventRecords] /\ pc \in [Threads -> Labels]
      /\ queue' = queue /\ loc' = loc /\ UNCHANGED handlerVars
  BY HeadOfQueue DEF NotifyOrderedEvent, queueVars, Step, Holds, NextSteps, IInv, AtHead,
                     TypeOK, RecordsOK, ThreadsOK
<1>1. ev'[e].state = "IDLE"
  BY <1>0
<1>2. CASE pc'[t] = "cast"
  <2>1. ~Goto(t, "check") /\ ~Goto(t, "park")
    BY <1>0, <1>2 DEF Goto
  <2>2. ev'[e].state = "RECEIVEING"
    BY <1>0, <2>1, NotifyOutcome DEF Marked
  <2> QED BY <1>1, <2>2
<1>3. CASE pc'[t] = "park"
  BY <1>3 DEF Drives
<1>4. CASE pc'[t] = "check"
  <2>1. \E d : ev' = [ev EXCEPT ![e].delivery = d]
    BY <1>0, <1>4 DEF NotifyOrderedEvent, Goto
  <2>2. ev'[e].cur = ev[e].cur /\ ev'[e].state = ev[e].state
    BY <1>0, <2>1 DEF EventRecords
  <2>3. CASE ev[e].cur = None
    <3>1. ev'[loc'[t].sp].cur = None
      BY <1>0, <2>2, <2>3
    <3> QED BY <1>4, <3>1 DEF Drives
  <2>4. CASE ev[e].cur # None
    <3>1. TimeoutDue \/ \E u \in Threads : u # t /\ Drives(u)
      BY <1>0, <1>1, <2>2, <2>4, BegunEarly
    <3>2. TimeoutDue => TimeoutDue'
      BY <1>0 DEF handlerVars, TimeoutDue
    <3>3. ASSUME NEW u \in Threads, u # t, Drives(u) PROVE Drives(u)'
      BY <1>0, <3>3, StepApart, DriverRests
    <3> QED BY <3>1, <3>2, <3>3
  <2> QED BY <2>3, <2>4
<1> QED BY <1>0, <1>2, <1>3, <1>4 DEF NotifyOrderedEvent, Goto

\* A driving thread goes on driving, or sends ORDERED_EVENT_START, or arms the
\* timeout, or leaves the queue without an event to drive.
LEMMA DriverStep ==
  ASSUME IInv, PInv, StartNotLost, Callers, Timed, Clearing, Covered, Next,
         NEW t \in Threads, Drives(t), Step(t), queue' # <<>>, ev'[Head(queue')].state = "IDLE"
  PROVE  StartDue(inbox') \/ TimeoutDue' \/ \E u \in Threads : Drives(u)'
<1>0. /\ ev \in [Events -> EventRecords] /\ pc \in [Threads -> Labels] /\ loc \in [Threads -> Locals]
      /\ Path(t) /\ StartNotLost' /\ CallInv(t) /\ pc[t] \notin {"idle", "expire"} /\ TRUE # FALSE
  BY ThreadStep, StartNotLostStep, StepAt DEF IInv, TypeOK, RecordsOK, ThreadsOK, Control
<1>1. CASE pc[t] = "schedule"
  <2>1. ScheduleTest(t)
    BY <1>1, StepAt
  <2>2. CASE scheduled
    BY <1>0, <2>1, <2>2 DEF ScheduleTest, StartNotLost, StartDue, handlerVars
  <2>3. CASE ~scheduled
    BY <1>0, <2>1, <2>3 DEF ScheduleTest, Goto, Drives
  <2> QED BY <2>2, <2>3
<1>2. CASE pc[t] = "send"
  <2>1. ScheduleSend(t)
    BY <1>2, StepAt
  <2> QED BY <1>0, <2>1 DEF ScheduleSend, StartNotLost, StartDue
<1>3. CASE pc[t] = "loop"
  <2>1. CASE LoopReturn(t)
    BY <2>1 DEF LoopReturn, queueVars
  <2>2. CASE LoopForce(t)
    BY <1>0, <2>2 DEF LoopForce, Goto, Drives
  <2>3. CASE LoopConclude(t)
    BY <2>3, ConcludeClients DEF Drives
  <2>4. CASE LoopDispatch(t)
    BY <1>0, <2>4 DEF LoopDispatch, Goto, Drives
  <2> QED BY <1>3, <2>1, <2>2, <2>3, <2>4, StepAt
<1>4. CASE pc[t] = "settle"
  BY <1>4, StepAt, ConcludeClients DEF Drives
<1>5. CASE pc[t] = "retire"
  BY <1>0, <1>5, StepAt DEF Retire, Goto, Drives
<1>6. CASE pc[t] = "lock"
  BY <1>0, <1>6, StepAt DEF LockForNext, Goto, Drives
<1>7. CASE pc[t] = "setTime"
  BY <1>0, <1>7, StepAt DEF SetTime, Goto, Drives, ArmSteps
<1>8. CASE pc[t] \in ArmSteps
  BY <1>8, DriverArms
<1>9. CASE pc[t] = "notify"
  BY <1>9, StepAt, DriverNotifies
<1>10. CASE pc[t] = "park"
  <2>1. ParkFrozen(t) /\ loc[t].sp \in Events
    BY <1>0, <1>10, StepAt DEF CallInv
  <2>2. pc'[t] = "check" /\ loc' = loc /\ ev'[loc[t].sp].cur = None
    BY <1>0, <2>1 DEF ParkFrozen, Goto, EventRecords
  <2> QED BY <2>2 DEF Drives
<1>11. CASE pc[t] = "check"
  <2>1. ev[loc[t].sp].cur = None
    BY <1>11 DEF Drives, ArmSteps
  <2> QED BY <1>0, <1>11, <2>1, StepAt DEF CheckReceiver, Goto, Drives
<1>12. CASE pc[t] = "mark"
  <2>1. TimeoutMark(t)
    BY <1>12, StepAt
  <2>2. pc'[t] = "finishState" /\ loc'[t].call = loc[t].call /\ loc'[t].force = loc[t].force
    <3>1. loc'[t].call = loc[t].call /\ loc'[t].force = loc[t].force
      BY <1>0, <1>12 DEF Path, Keep, Edges, Left, ArmSteps, ScheduleSteps
    <3> QED BY <1>0, <2>1, <3>1 DEF TimeoutMark, Goto
  <2>3. loc[t].call = "timeout" \/ loc[t].force = TRUE
    BY <1>0, <1>12 DEF Callers, Locals
  <2> QED BY <2>2, <2>3 DEF Drives
<1>13. CASE pc[t] \in {"finishState", "finishCur"}
  <2>1. pc'[t] \in {"finishCur", "finishResult"} /\ loc' = loc
    BY <1>0, <1>13, StepAt DEF FinishState, FinishCur, Goto
  <2>2. loc[t].call = "timeout" \/ loc[t].force = TRUE \/ loc[t].doNext = TRUE
    BY <1>13 DEF Drives, ArmSteps
  <2> QED BY <2>1, <2>2 DEF Drives
<1>14. CASE pc[t] = "finishResult"
  <2>1. FinishResult(t) /\ (loc[t].call = "timeout" \/ loc[t].force = TRUE \/ loc[t].doNext = TRUE)
    BY <1>14, StepAt DEF Drives, ArmSteps
  <2>2. pc'[t] \in {"schedule", "lock"}
    BY <1>0, <2>1 DEF FinishResult, Goto
  <2> QED BY <2>2 DEF Drives
<1> QED BY <1>0, <1>1, <1>2, <1>3, <1>4, <1>5, <1>6, <1>7, <1>8, <1>9, <1>10, <1>11, <1>12, <1>13, <1>14
     DEF Drives

\* The front event becomes IDLE, or a new event comes to the front.
LEMMA NewlyIdle ==
  ASSUME IInv, PInv, Callers, Covered, Next, queue' # <<>>, ev'[Head(queue')].state = "IDLE",
         queue # <<>> => ev[Head(queue)].state # "IDLE"
  PROVE  StartDue(inbox') \/ TimeoutDue' \/ \E t \in Threads : Drives(t)'
<1>0. /\ ev \in [Events -> EventRecords] /\ pc \in [Threads -> Labels]
      /\ loc \in [Threads -> Locals] /\ Threads = {"main", "ordered"}
  BY DEF IInv, TypeOK, RecordsOK, ThreadsOK, Threads
<1>1. ASSUME NEW t \in Threads, Retire(t) PROVE Drives(t)'
  BY <1>0, <1>1 DEF Retire, Goto, Drives
<1>2. CASE EnqueueOrderedRecord
  <2>1. Drives("main")'
    BY <1>0, <1>2 DEF EnqueueOrderedRecord, Goto, Drives
  <2> QED BY <1>0, <2>1
<1>3. CASE UNCHANGED queueVars
  <2>0. PICK e \in Events \ Publishable : e = Head(queue) /\ queue' = queue /\ queue # <<>>
    BY <1>3, HeadOfQueue DEF queueVars
  <2>1. ev'[e].state = "IDLE" /\ ev[e].state # "IDLE" /\ ~Renewed(e)
    BY <2>0 DEF Renewed
  <2>2. PICK t \in Threads :
            \/ Concluding(t)
            \/ pc'[t] = "schedule"
            \/ FinishState(t) /\ e = loc[t].sp /\ pc'[t] = "finishCur" /\ loc' = loc
    BY <2>1, StateMoves
  <2>3. CASE Concluding(t)
    BY <2>3, ConcludeClients DEF Drives, Concluding
  <2>4. CASE pc'[t] = "schedule"
    BY <2>4 DEF Drives
  <2>5. CASE FinishState(t) /\ e = loc[t].sp /\ pc'[t] = "finishCur" /\ loc' = loc
    <3>0. pc[t] = "finishState" /\ UNCHANGED handlerVars /\ Step(t)
      BY <2>5 DEF FinishState, Step
    <3>1. CASE loc[t].call = "timeout" \/ loc[t].force = TRUE \/ loc[t].doNext = TRUE
      BY <2>5, <3>1 DEF Drives
    <3>2. CASE ~(loc[t].call = "timeout" \/ loc[t].force = TRUE \/ loc[t].doNext = TRUE)
      <4>1. t = "main"
        BY <1>0, <3>0, <3>2, OrderedFinishes DEF FinishSteps
      <4>2. loc["main"].force = FALSE
        BY <1>0, <3>2, <4>1 DEF Locals
      <4>3. Overtaken
        BY <2>0, <2>5, <3>0, <3>2, <4>1, <4>2 DEF Overtaken, Answering, FinishSteps
      <4>4. (StartDue(inbox) => StartDue(inbox')) /\ (TimeoutDue => TimeoutDue')
        BY <3>0 DEF handlerVars, TimeoutDue
      <4>5. Drives("ordered") => Drives("ordered")'
        BY <1>0, <3>0, <4>1, StepApart, DriverRests
      <4> QED BY <1>0, <4>3, <4>4, <4>5, OvertakenLive
    <3> QED BY <3>1, <3>2
  <2> QED BY <2>2, <2>3, <2>4, <2>5
<1> QED BY <1>1, <1>2, <1>3, Writers

LEMMA DrivenStep ==
  ASSUME IInv, PInv, StartNotLost, DInv, Next
  PROVE  Driven'
<1> SUFFICES ASSUME queue' # <<>>, ev'[Head(queue')].state = "IDLE"
             PROVE  StartDue(inbox') \/ TimeoutDue' \/ \E t \in Threads : Drives(t)'
  BY DEF Driven, Live
<1>0. /\ pc \in [Threads -> Labels] /\ Threads = {"main", "ordered"}
      /\ Callers /\ Timed /\ Clearing /\ Covered /\ Driven
  BY DEF IInv, TypeOK, ThreadsOK, Threads, DInv
<1>1. CASE StartDue(inbox)
  <2>1. TakeStart => Drives("ordered")'
    BY <1>0 DEF TakeStart, Goto, Drives
  <2> QED BY <1>0, <1>1, <2>1, StartDueStep
<1>2. CASE TimeoutDue
  <2>1. TakeTimeout => Drives("ordered")'
    BY <1>0 DEF TakeTimeout, Goto, Drives
  <2>2. ASSUME NEW t \in Threads, Retire(t) PROVE Drives(t)'
    BY <1>0, <2>2 DEF Retire, Goto, Drives
  <2> QED BY <1>0, <1>2, <2>1, <2>2, TimeoutDueStep
<1>3. ASSUME NEW t \in Threads, Drives(t)
      PROVE  StartDue(inbox') \/ TimeoutDue' \/ \E u \in Threads : Drives(u)'
  <2>1. CASE Rests(t)
    BY <1>3, <2>1, DriverRests
  <2>2. CASE Step(t)
    BY <1>0, <1>3, <2>2, DriverStep
  <2>3. CASE t = "ordered" /\ HandlerCall /\ pc["ordered"] = "expire"
    <3>1. queue # <<>>
      <4>1. ASSUME TimeoutCheck PROVE queue' = queue
        BY <4>1 DEF TimeoutCheck, queueVars
      <4> QED BY <2>3, <4>1, HandlerCalls
    <3>2. pc'["ordered"] \in {"arm", "mark"}
      BY <2>3, <3>1, HandlerCalls
    <3> QED BY <1>3, <2>3, <3>2 DEF Drives, ArmSteps
  <2>4. pc[t] \notin {"idle", "enqueue", "remove"}
    BY <1>3 DEF Drives, ArmSteps
  <2>5. ~(t = "main" /\ MainCall)
    BY <2>4 DEF MainCall, EnqueueOrderedRecord, RemoveSubscriber,
       ProcessOrderedEvent, FinishReceiver, UnsubscribeCommonEvent
  <2>6. HandlerCall => pc["ordered"] \in {"idle", "expire"}
    BY HandlerCalls
  <2> QED BY <2>1, <2>2, <2>3, <2>4, <2>5, <2>6, Actors
<1>4. CASE queue # <<>> /\ ev[Head(queue)].state = "IDLE"
  BY <1>0, <1>1, <1>2, <1>3, <1>4 DEF Driven, Live
<1>5. CASE queue # <<>> => ev[Head(queue)].state # "IDLE"
  BY <1>0, <1>5, NewlyIdle
<1> QED BY <1>4, <1>5

LEMMA InitDInv == Init => DInv
<1> SUFFICES ASSUME Init PROVE DInv
  OBVIOUS
<1>1. /\ queue = <<>> /\ pending = FALSE
      /\ \A t \in Threads : loc[t].force = FALSE /\ loc[t].call = "none" /\ pc[t] = "idle"
      /\ \A e \in Events : ev[e].state = "IDLE" /\ ev[e].cur = None
      /\ "main" \in Threads /\ "ordered" \in Threads
  BY DEF Init, NewRecord, NoLocals, Threads
<1>2. Callers /\ Timed /\ RetireTimed
  BY <1>1 DEF Callers, Timed, RetireTimed, FinishSteps
<1>3. Receiving /\ Clearing /\ ForceCleared
  BY <1>1 DEF Receiving, Clearing, ForceCleared
<1>4. Finishing /\ Covered /\ Driven
  BY <1>1 DEF Finishing, Covered, Driven, Overtaken, Answering, FinishSteps
<1> QED BY <1>2, <1>3, <1>4 DEF DInv

LEMMA NextDInv == IInv /\ PInv /\ StartNotLost /\ DInv /\ [Next]_vars => DInv'
<1>1. ASSUME IInv, PInv, StartNotLost, DInv, Next PROVE DInv'
  <2>1. /\ Callers /\ Timed /\ RetireTimed /\ Receiving /\ Clearing /\ ForceCleared
        /\ Finishing /\ Covered
    BY <1>1 DEF DInv
  <2>2. Callers' /\ Timed' /\ RetireTimed' /\ Receiving'
    BY <1>1, <2>1, CallersStep, TimedStep, RetireTimedStep, ReceivingStep
  <2>3. Clearing' /\ ForceCleared' /\ Finishing' /\ Covered'
    BY <1>1, <2>1, ClearingStep, ForceClearedStep, FinishingStep, CoveredStep
  <2>4. Driven'
    BY <1>1, DrivenStep
  <2> QED BY <2>2, <2>3, <2>4 DEF DInv
<1>2. ASSUME DInv, UNCHANGED vars PROVE DInv'
  <2>1. /\ ev' = ev /\ queue' = queue /\ history' = history /\ pc' = pc /\ loc' = loc
        /\ inbox' = inbox /\ timers' = timers /\ pending' = pending
    BY <1>2 DEF vars, queueVars, threadVars, handlerVars
  <2>2. Callers' /\ Timed' /\ RetireTimed' /\ Receiving' /\ Clearing' /\ ForceCleared'
    BY <1>2, <2>1 DEF DInv, Callers, Timed, RetireTimed, Receiving, Clearing, ForceCleared, TimeoutDue
  <2>3. Finishing' /\ Driven'
    BY <1>2, <2>1 DEF DInv, Finishing, Answering, Driven, Live, Drives, TimeoutDue
  <2>4. Covered'
    BY <1>2, <2>1 DEF DInv, Covered, Overtaken, Answering, Dispatches, Ending, Pended, Armed, Coming,
                      TimeoutDue
  <2> QED BY <2>2, <2>3, <2>4 DEF DInv
<1> QED BY <1>1, <1>2

-----------------------------------------------------------------------------
(* The theorems *)

LEMMA InitTurns == Init => Marks /\ HistoryTruthful /\ Known /\ Crossing /\ NobodyPassedOver
<1> SUFFICES ASSUME Init PROVE Marks /\ HistoryTruthful /\ Known /\ Crossing /\ NobodyPassedOver
  OBVIOUS
<1>1. /\ history = <<>> /\ \A e \in Events : ev[e].receivers = <<>> /\ ev[e].next = 0
      /\ \A t \in Threads : pc[t] # "cast"
  BY DEF Init, NewRecord
<1> QED BY <1>1 DEF Marks, HistoryTruthful, Known, Crossing, NobodyPassedOver, NumReceivers

LEMMA StutterTurns ==
  ASSUME UNCHANGED vars
  PROVE  /\ Marks => Marks'
         /\ HistoryTruthful => HistoryTruthful'
         /\ Known => Known'
         /\ Crossing => Crossing'
         /\ NobodyPassedOver => NobodyPassedOver'
<1>1. /\ ev' = ev /\ history' = history /\ notified' = notified /\ pc' = pc /\ loc' = loc
      /\ sub' = sub /\ parked' = parked /\ replay' = replay /\ crossed' = crossed
  BY DEF vars, queueVars, clientVars, threadVars, registryVars
<1>2. Marks => Marks'
  BY <1>1 DEF Marks, TurnGiven, Giving, BeingTold, NumReceivers
<1>3. HistoryTruthful => HistoryTruthful'
  BY <1>1 DEF HistoryTruthful
<1>4. Known => Known'
  BY <1>1 DEF Known, NumReceivers
<1>5. NobodyPassedOver => NobodyPassedOver'
  BY <1>1 DEF NobodyPassedOver, TurnInProgress
<1>6. Crossing => Crossing'
  BY <1>1 DEF Crossing
<1> QED BY <1>2, <1>3, <1>4, <1>5, <1>6

\* What EnqueueHistoryEventRecord keeps of an ordered event is what happened to
\* its receivers, although the timeout handler marks them without the lock.
THEOREM HistoryIsTruthful == Spec => []HistoryTruthful
<1>1. Init => Marks /\ HistoryTruthful
  BY InitTurns
<1>2. IInv /\ (Marks /\ HistoryTruthful) /\ [Next]_vars => (Marks /\ HistoryTruthful)'
  BY MarksStep, HistoryTruthfulStep, StutterTurns
<1> QED BY <1>1, <1>2, Invariant, PTL DEF Spec

\* Once nextReceiver has moved beyond a receiver it was told, or may not be
\* told, or has gone, or the event was kept for it while it was frozen, or a
\* FinishReceiver of the other thread cleared curReceiver between the
\* assignment in NotifyOrderedEvent and the cast that reads it again.
THEOREM NobodyIsPassedOver == Spec => []NobodyPassedOver
<1>1. Init => Known /\ Crossing /\ NobodyPassedOver
  BY InitTurns
<1>2. IInv /\ (Known /\ Crossing /\ NobodyPassedOver) /\ [Next]_vars
        => (Known /\ Crossing /\ NobodyPassedOver)'
  BY KnownStep, CrossingStep, NobodyPassedOverStep, StutterTurns
<1> QED BY <1>1, <1>2, Invariant, PTL DEF Spec

\* While the front event waits for nobody, an ORDERED_EVENT_START or an
\* ORDERED_EVENT_TIMEOUT is due or a thread is inside a call, although the
\* finish of one thread may write IDLE over the RECEIVED that the other one has
\* just written, and not go on: then the other one has armed the timeout.
THEOREM IdleFrontDriven == Spec => []IdleFrontIsDriven
<1>1. DInv => IdleFrontIsDriven
  BY DEF DInv, Driven, Live, Drives, IdleFrontIsDriven, StartDue, ArmSteps
<1> QED BY <1>1, InitDInv, NextDInv, Invariant, PInvariant, StartIsNotLost, PTL DEF Spec

=============================================================================
