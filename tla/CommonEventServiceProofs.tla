---------------------- MODULE CommonEventServiceProofs ----------------------
(***************************************************************************)
(* Theorems about CommonEventService, and about FloodControl in it: what   *)
(* is on its way stays well formed, nothing is handed on for a user that   *)
(* is not the caller's to act for, a call is refused exactly when its      *)
(* caller floods the service, the calls of one caller are executed in the  *)
(* order in which they were made, and the table of static subscribers      *)
(* follows the packages.                                                   *)
(***************************************************************************)
EXTENDS CommonEventService, SelectionProofs, FiniteSetTheorems

\* Where a call can be on a binder thread, and a publication on the main one.
BinderStates == {Idle} \cup [at : {"post"}, call : ServiceCalls]
MainStates == {Idle} \cup [at : {"hand"}, call : ServiceCalls, user : Int]
HandedOn == [call : ServiceCalls, user : Int, to : SUBSET Uids]

\* What the main thread and the binder threads hold is well formed.
TypeOK ==
    /\ changes \in Nat
    /\ script \in [Uids -> Seq(ServiceCalls)]
    /\ binder \in [Uids -> BinderStates]
    /\ immediate \in Seq(ServiceCalls) /\ low \in Seq(ServiceCalls)
    /\ main \in MainStates
    /\ subscribers \subseteq [caller : Uids, user : Int]
    /\ handed \in Seq(HandedOn)

\* What user, of those that may be asked for, an event of this call may be for.
MayActFor(call, user) ==
    LET c == Caller[call.by] IN
    /\ c.known => user \in Nat \cup {ALL_USER}
    /\ call.proxy \/ c.kind = "app" =>
           user = c.user \/ (~c.known /\ user = UNDEFINED_USER)

\* The user that was checked is the one that the event is handed on for: it
\* is kept with the event from the check to the dispatch.
CheckedUser == main.at = "hand" => MayActFor(main.call, main.user)

IInv == TypeOK /\ CheckedUser /\ OnlyOwnUser

-----------------------------------------------------------------------------
(* Sequences *)

\* Appending to a sequence.
LEMMA AppendFacts ==
    ASSUME NEW S, NEW s \in Seq(S), NEW x \in S
    PROVE  /\ Append(s, x) \in Seq(S)
           /\ DOMAIN Append(s, x) = 1..Len(s) + 1 /\ DOMAIN s = 1..Len(s)
           /\ \A i \in DOMAIN s : Append(s, x)[i] = s[i]
           /\ Append(s, x)[Len(s) + 1] = x
OBVIOUS

\* Taking the first element.
LEMMA HeadFacts ==
    ASSUME NEW S, NEW s \in Seq(S), s # <<>>
    PROVE  Head(s) \in S /\ Tail(s) \in Seq(S)
OBVIOUS

\* The head of two queues, the first of which goes first.
LEMMA HeadOfTwo ==
    ASSUME NEW S, NEW s \in Seq(S), NEW t \in Seq(S), s # <<>> \/ t # <<>>
    PROVE  Head(s \o t) \in S
<1>1. s \o t \in Seq(S) /\ Len(s \o t) = Len(s) + Len(t)
  OBVIOUS
<1>2. Len(s \o t) # 0
  BY <1>1
<1> QED
  BY <1>1, <1>2, HeadFacts

-----------------------------------------------------------------------------
(* CheckUserId *)

\* CheckUserId refuses, or leaves a user that the caller may act for.
LEMMA CheckUserIdIsSafe ==
    ASSUME NEW call \in ServiceCalls, NEW own \in OwnUser(call),
           CheckUserId(call, own) # Refused
    PROVE  CheckUserId(call, own) \in Int /\ MayActFor(call, CheckUserId(call, own))
<1>1. /\ call.by \in Uids /\ call.user \in Int /\ call.proxy \in BOOLEAN
      /\ call.proxy \/ call.token = call.by
  BY DEF ServiceCalls
<1>2. /\ Caller[call.by].kind \in Kinds /\ Caller[call.by].user \in Nat
      /\ Caller[call.by].known \in BOOLEAN
  BY <1>1, ServiceAssumption
<1>3. own = Caller[call.by].user \/ (~Caller[call.by].known /\ own = call.user)
  BY DEF OwnUser
<1>4. call.user >= UNDEFINED_USER
  BY <1>1 DEF CheckUserId, UNDEFINED_USER
<1>5. CASE IsSystem(call) /\ ~call.proxy
  <2>1. CheckUserId(call, own) = IF call.user = CURRENT_USER THEN own
                                 ELSE IF call.user = UNDEFINED_USER THEN ALL_USER ELSE call.user
    BY <1>1, <1>4, <1>5 DEF CheckUserId, SystemUser, UNDEFINED_USER, CURRENT_USER
  <2>2. Caller[call.by].kind # "app"
    BY <1>1, <1>5 DEF IsSystem, IsSubsystem, IsSystemApp
  <2>3. Caller[call.by].known => CheckUserId(call, own) \in Nat \cup {ALL_USER}
    BY <1>1, <1>2, <1>3, <1>4, <2>1 DEF UNDEFINED_USER, CURRENT_USER, ALL_USER
  <2>4. CheckUserId(call, own) \in Int
    BY <1>1, <1>2, <1>3, <2>1 DEF ALL_USER
  <2> QED
    BY <1>5, <2>2, <2>3, <2>4 DEF MayActFor
<1>6. CASE ~(IsSystem(call) /\ ~call.proxy)
  <2>1. call.user = UNDEFINED_USER /\ CheckUserId(call, own) = own
    BY <1>1, <1>4, <1>6 DEF CheckUserId, UNDEFINED_USER
  <2> QED
    BY <1>1, <1>2, <1>3, <2>1 DEF MayActFor, UNDEFINED_USER
<1> QED
  BY <1>5, <1>6

-----------------------------------------------------------------------------
(* Initially *)

LEMMA InitHolds == Init => IInv
<1> SUFFICES ASSUME Init PROVE IInv
  OBVIOUS
<1>1. TypeOK
  BY ServiceAssumption DEF Init, TypeOK, BinderStates, MainStates
<1>2. CheckedUser
  BY DEF Init, CheckedUser, Idle
<1>3. OnlyOwnUser
  BY DEF Init, OnlyOwnUser
<1> QED
  BY <1>1, <1>2, <1>3 DEF IInv

-----------------------------------------------------------------------------
(* Binder threads *)

\* An action that leaves the main thread and what was handed on alone can only
\* disturb the types.
LEMMA OthersKeepUsers ==
    ASSUME IInv, TypeOK', UNCHANGED <<main, handed>>
    PROVE  IInv'
BY DEF IInv, CheckedUser, MayActFor, OnlyOwnUser

LEMMA BeginCallStep ==
    ASSUME IInv, NEW c \in Uids, BeginCall(c)
    PROVE  IInv'
<1> DEFINE call == Head(script[c])
<1>1. TypeOK
  BY DEF IInv
<1>2. call \in ServiceCalls /\ Tail(script[c]) \in Seq(ServiceCalls)
  BY <1>1, HeadFacts DEF TypeOK, BeginCall
<1>3. script' \in [Uids -> Seq(ServiceCalls)]
  BY <1>1, <1>2 DEF TypeOK, BeginCall
<1>4. binder' \in [Uids -> BinderStates]
  <2>1. [at |-> "post", call |-> call] \in BinderStates /\ Idle \in BinderStates
    BY <1>2 DEF BinderStates
  <2> QED
    BY <1>1, <2>1 DEF TypeOK, BeginCall, Answer
<1>5. UNCHANGED <<changes, immediate, low, main, subscribers, handed>>
  BY DEF BeginCall, taskVars, innerVars
<1> QED
  BY <1>1, <1>3, <1>4, <1>5, OthersKeepUsers DEF TypeOK

LEMMA PostStep ==
    ASSUME IInv, NEW c \in Uids, Post(c)
    PROVE  IInv'
<1> DEFINE call == binder[c].call
<1>1. TypeOK
  BY DEF IInv
<1>2. call \in ServiceCalls
  <2>1. binder[c] \in BinderStates /\ binder[c].at = "post"
    BY <1>1 DEF TypeOK, Post
  <2> QED
    BY <2>1 DEF BinderStates, Idle
<1>3. immediate' \in Seq(ServiceCalls) /\ low' \in Seq(ServiceCalls)
  <2>1. Append(immediate, call) \in Seq(ServiceCalls) /\ Append(low, call) \in Seq(ServiceCalls)
    BY <1>1, <1>2, AppendFacts DEF TypeOK
  <2>2. immediate' \in {immediate, Append(immediate, call)} /\ low' \in {low, Append(low, call)}
    BY DEF Post, PostTask
  <2> QED
    BY <1>1, <2>1, <2>2 DEF TypeOK
<1>4. binder' \in [Uids -> BinderStates]
  BY <1>1 DEF TypeOK, Post, Answer, BinderStates
<1>5. UNCHANGED <<changes, script, main, subscribers, handed>>
  BY DEF Post, innerVars
<1> QED
  BY <1>1, <1>3, <1>4, <1>5, OthersKeepUsers DEF TypeOK

LEMMA GetStickyStep ==
    ASSUME IInv, NEW c \in Uids, GetStickyCommonEvent(c)
    PROVE  IInv'
<1>1. TypeOK
  BY DEF IInv
<1>2. binder' \in [Uids -> BinderStates]
  BY <1>1 DEF TypeOK, GetStickyCommonEvent, Answer, BinderStates
<1>3. UNCHANGED <<changes, script, immediate, low, main, subscribers, handed>>
  BY DEF GetStickyCommonEvent, taskVars, innerVars
<1> QED
  BY <1>1, <1>2, <1>3, OthersKeepUsers DEF TypeOK

-----------------------------------------------------------------------------
(* The main thread *)

\* A publication that passes the checks is kept with a user it may be for.
LEMMA InnerPublishStep ==
    ASSUME IInv, NEW call \in ServiceCalls, NEW own \in OwnUser(call), main = Idle,
           InnerPublishCommonEvent(call, CheckUserId(call, own))
    PROVE  main' \in MainStates /\ CheckedUser' /\ UNCHANGED <<subscribers, handed>>
<1> DEFINE user == CheckUserId(call, own)
<1>1. UNCHANGED <<subscribers, handed>>
  BY DEF InnerPublishCommonEvent
<1>2. CASE UNCHANGED main
  BY <1>1, <1>2 DEF MainStates, CheckedUser, Idle
<1>3. CASE main' = [at |-> "hand", call |-> call, user |-> user] /\ PublishAllowed(call, user)
  <2>1. user \in Int /\ MayActFor(call, user)
    BY <1>3, CheckUserIdIsSafe DEF PublishAllowed
  <2>2. main' \in MainStates
    BY <1>3, <2>1 DEF MainStates
  <2>3. main'.call = call /\ main'.user = user
    BY <1>3
  <2>4. CheckedUser'
    BY <2>1, <2>3 DEF CheckedUser, MayActFor
  <2> QED
    BY <1>1, <2>2, <2>4
<1> QED
  BY <1>2, <1>3 DEF InnerPublishCommonEvent

LEMMA InnerSubscribeStep ==
    ASSUME IInv, NEW call \in ServiceCalls, NEW own \in OwnUser(call),
           InnerSubscribeCommonEvent(call, CheckUserId(call, own))
    PROVE  subscribers' \subseteq [caller : Uids, user : Int] /\ UNCHANGED <<main, handed>>
<1> DEFINE user == CheckUserId(call, own)
<1>1. subscribers \subseteq [caller : Uids, user : Int]
  BY DEF IInv, TypeOK
<1>2. CASE user = Refused
  BY <1>1, <1>2 DEF InnerSubscribeCommonEvent
<1>3. CASE user # Refused
  <2>1. user \in Int /\ call.by \in Uids
    BY <1>3, CheckUserIdIsSafe DEF ServiceCalls
  <2> QED
    BY <1>1, <1>3, <2>1 DEF InnerSubscribeCommonEvent
<1> QED
  BY <1>2, <1>3

LEMMA RunTaskStep ==
    ASSUME IInv, RunTask
    PROVE  IInv'
<1> DEFINE call == Head(immediate \o low)
<1>1. TypeOK
  BY DEF IInv
<1>2. call \in ServiceCalls
  BY <1>1, HeadOfTwo DEF TypeOK, RunTask
<1>3. immediate' \in Seq(ServiceCalls) /\ low' \in Seq(ServiceCalls)
  BY <1>1, HeadFacts DEF TypeOK, RunTask
<1>4. UNCHANGED <<changes, script, binder>> /\ main = Idle /\ Execute(call)
  BY DEF RunTask, callVars
<1> DEFINE Kept == /\ main' \in MainStates /\ CheckedUser' /\ UNCHANGED handed
                   /\ subscribers' \subseteq [caller : Uids, user : Int]
<1>5. Kept
  <2>1. ASSUME NEW own \in OwnUser(call),
               InnerPublishCommonEvent(call, CheckUserId(call, own))
        PROVE  Kept
    BY <1>1, <1>2, <1>4, <2>1, InnerPublishStep DEF TypeOK
  <2>2. ASSUME UNCHANGED <<main, handed>>, subscribers' \subseteq [caller : Uids, user : Int]
        PROVE  Kept
    BY <1>1, <2>2 DEF IInv, TypeOK, CheckedUser, MayActFor
  <2>3. ASSUME NEW own \in OwnUser(call),
               InnerSubscribeCommonEvent(call, CheckUserId(call, own))
        PROVE  Kept
    BY <1>2, <2>2, <2>3, InnerSubscribeStep
  <2>4. CASE InnerUnsubscribeCommonEvent(call) \/ InnerFreeze(call)
    BY <1>1, <2>2, <2>4 DEF TypeOK, InnerUnsubscribeCommonEvent, InnerFreeze
  <2> QED
    BY <1>4, <2>1, <2>3, <2>4 DEF Execute
<1>6. OnlyOwnUser'
  BY <1>5 DEF IInv, OnlyOwnUser
<1> QED
  BY <1>1, <1>3, <1>4, <1>5, <1>6 DEF IInv, TypeOK

\* The dispatch gets the call and the user as they were checked.
LEMMA HandOnStep ==
    ASSUME IInv, HandOn
    PROVE  IInv'
<1> DEFINE to  == {s.caller : s \in Receivers(main.call, main.user)}
           new == [call |-> main.call, user |-> main.user, to |-> to]
<1>1. TypeOK /\ main.at = "hand" /\ main.call \in ServiceCalls /\ main.user \in Int
  BY DEF IInv, HandOn, TypeOK, MainStates, Idle
<1>2. to \subseteq Uids
  BY <1>1 DEF TypeOK, Receivers
<1>3. new \in HandedOn
  BY <1>1, <1>2 DEF HandedOn
<1>4. handed' = Append(handed, new) /\ main' = Idle
  BY DEF HandOn
<1>5. TypeOK'
  <2>1. handed' \in Seq(HandedOn)
    BY <1>1, <1>3, <1>4, AppendFacts DEF TypeOK
  <2>2. UNCHANGED <<changes, script, binder, immediate, low, subscribers>>
    BY DEF HandOn, callVars
  <2> QED
    BY <1>1, <1>4, <2>1, <2>2 DEF TypeOK, MainStates
<1>6. CheckedUser'
  BY <1>4 DEF CheckedUser, Idle
<1>7. OnlyOwnUser'
  <2> SUFFICES ASSUME NEW i \in DOMAIN handed'
               PROVE  MayActFor(handed'[i].call, handed'[i].user)
    BY DEF OnlyOwnUser, MayActFor
  <2>1. CASE i \in DOMAIN handed
    <3>1. handed'[i] = handed[i]
      BY <1>1, <1>3, <1>4, <2>1, AppendFacts DEF TypeOK
    <3>2. MayActFor(handed[i].call, handed[i].user)
      BY <2>1 DEF IInv, OnlyOwnUser, MayActFor
    <3> QED
      BY <3>1, <3>2
  <2>2. CASE i \notin DOMAIN handed
    <3>1. handed'[i] = new
      BY <1>1, <1>3, <1>4, <2>2, AppendFacts DEF TypeOK
    <3>2. MayActFor(main.call, main.user)
      BY <1>1 DEF IInv, CheckedUser
    <3> QED
      BY <3>1, <3>2
  <2> QED
    BY <2>1, <2>2
<1> QED
  BY <1>5, <1>6, <1>7 DEF IInv

-----------------------------------------------------------------------------
(* The service, other services and the clock *)

LEMMA OnStopStep ==
    ASSUME IInv, OnStop
    PROVE  IInv'
<1>1. immediate' \in Seq(ServiceCalls) /\ low' \in Seq(ServiceCalls)
  BY DEF OnStop
<1>2. UNCHANGED <<changes, script, binder, main, subscribers, handed>>
  BY DEF OnStop, callVars, innerVars
<1> QED
  BY <1>1, <1>2, OthersKeepUsers DEF IInv, TypeOK

\* What is announced is a call like any other.
LEMMA AnnounceStep ==
    ASSUME IInv, NEW c \in Uids, NEW about, about.name \in Names,
           about.bundle \in Bundles \cup {None}, about.of \in Users \cup {None},
           Announce(c, about)
    PROVE  IInv'
<1> DEFINE call == [op |-> "publish", by |-> c, id |-> changes', user |-> UNDEFINED_USER,
                    name |-> about.name, bundle |-> about.bundle, of |-> about.of,
                    sticky |-> FALSE, ordered |-> FALSE, last |-> FALSE, proxy |-> FALSE, token |-> c]
<1>1. TypeOK
  BY DEF IInv
<1>2. changes' \in Nat
  BY <1>1 DEF TypeOK, Announce
<1>3. call \in ServiceCalls
  BY <1>2 DEF ServiceCalls, UNDEFINED_USER
<1>4. Append(script[c], call) \in Seq(ServiceCalls)
  BY <1>1, <1>3, AppendFacts DEF TypeOK
<1>5. script' \in [Uids -> Seq(ServiceCalls)]
  BY <1>1, <1>4 DEF TypeOK, Announce
<1>6. UNCHANGED <<binder, immediate, low, main, subscribers, handed>>
  BY DEF Announce, taskVars, innerVars
<1> QED
  BY <1>1, <1>2, <1>5, <1>6, OthersKeepUsers DEF TypeOK

LEMMA ChangesStep ==
    ASSUME IInv, Changes
    PROVE  IInv'
<1>1. PackageManager \in Uids /\ AccountManager \in Uids /\ STOPPED \in Names
  BY ServiceAssumption
<1>2. PackageNames \subseteq Names /\ FillNames \subseteq Names
  BY StaticAssumption
<1>3. ASSUME NEW b \in Bundles, NEW u \in Users, NEW events \in Profiles, PackageChanges(b, u, events)
      PROVE  IInv'
  <2>1. /\ PackageEvent(b, u, events).name \in Names
        /\ PackageEvent(b, u, events).bundle = b /\ PackageEvent(b, u, events).of = u
    BY <1>2 DEF PackageEvent, About, PackageNames
  <2> QED
    BY <1>1, <1>3, <2>1, AnnounceStep DEF PackageChanges
<1>4. ASSUME NEW u \in Users, UserStops(u)
      PROVE  IInv'
  <2>1. About(STOPPED, None, u).name = STOPPED /\ About(STOPPED, None, u).bundle = None
        /\ About(STOPPED, None, u).of = u
    BY DEF About
  <2> QED
    BY <1>1, <1>4, <2>1, AnnounceStep DEF UserStops
<1>5. ASSUME NEW u \in Users, NEW name \in FillNames, UserStarts(u, name)
      PROVE  IInv'
  <2>1. About(name, None, u).name = name /\ About(name, None, u).bundle = None
        /\ About(name, None, u).of = u
    BY DEF About
  <2> QED
    BY <1>1, <1>2, <1>5, <2>1, AnnounceStep DEF UserStarts
<1> QED
  BY <1>3, <1>4, <1>5 DEF Changes

-----------------------------------------------------------------------------
(* Every step *)

LEMMA IdleStep ==
    ASSUME IInv, UNCHANGED <<changes, script, binder, immediate, low, main, subscribers, handed>>
    PROVE  IInv'
BY OthersKeepUsers DEF IInv, TypeOK

LEMMA NextStep ==
    ASSUME IInv, [Next]_vars
    PROVE  IInv'
<1>1. ASSUME NEW c \in Uids, BeginCall(c) PROVE IInv'
  BY <1>1, BeginCallStep
<1>2. ASSUME NEW c \in Uids, Post(c) PROVE IInv'
  BY <1>2, PostStep
<1>3. ASSUME NEW c \in Uids, GetStickyCommonEvent(c) PROVE IInv'
  BY <1>3, GetStickyStep
<1>4. CASE RunTask
  BY <1>4, RunTaskStep
<1>5. CASE HandOn
  BY <1>5, HandOnStep
<1>6. CASE OnStart
  BY <1>6, IdleStep DEF OnStart, callVars, taskVars, innerVars
<1>7. ASSUME NEW c \in connections, Connected(c) PROVE IInv'
  BY <1>7, IdleStep DEF Connected, callVars, taskVars, innerVars
<1>8. CASE OnStop
  BY <1>8, OnStopStep
<1>9. CASE Changes
  BY <1>9, ChangesStep
<1>10. CASE Passes
  BY <1>10, IdleStep DEF Passes, callVars, taskVars, innerVars
<1>11. CASE UNCHANGED vars
  BY <1>11, IdleStep DEF vars, callVars, taskVars, innerVars
<1> QED
  BY <1>1, <1>2, <1>3, <1>4, <1>5, <1>6, <1>7, <1>8, <1>9, <1>10, <1>11 DEF Next, Work

-----------------------------------------------------------------------------
(* Theorems *)

\* What is on its way through the service is well formed, and a publication
\* that has been checked keeps its user until it is handed on.
THEOREM ServiceInvariant == Spec => []IInv
<1>1. Init => IInv
  BY InitHolds
<1>2. IInv /\ [Next]_vars => IInv'
  BY NextStep
<1> QED
  BY <1>1, <1>2, PTL DEF Spec

\* Calls, tasks and what is handed on are well formed at every point of the
\* way from the binder thread to the dispatch.
THEOREM CallsAreWellFormed == Spec => []TypeOK
<1>1. IInv => TypeOK
  BY DEF IInv
<1> QED
  BY <1>1, ServiceInvariant, PTL

\* Whatever is asked for, by whom and in whose name, nothing is handed on for a
\* user that the caller may not act for.
THEOREM NobodyActsForAnother == Spec => []OnlyOwnUser
<1>1. IInv => OnlyOwnUser
  BY DEF IInv
<1> QED
  BY <1>1, ServiceInvariant, PTL

-----------------------------------------------------------------------------
(* Flood control.  The vector kept for a uid is always the tail of the     *)
(* times of its calls, and everything that was thrown away is out of the   *)
(* interval for good, because the clock does not go back.  So the size of  *)
(* what is kept tells whether the call FLOOD_ATTACK_NUMBER_MAX places back *)
(* was too recent.                                                         *)

\* The times of one uid's calls never decrease, and none is in the future.
InOrder ==
    \A u \in Uids : \A i \in DOMAIN calls[u] :
        /\ calls[u][i].time <= now
        /\ \A j \in DOMAIN calls[u] : i <= j => calls[u][i].time <= calls[u][j].time

\* kept is the tail of the times of made; what is missing has expired at time t.
\* The last call is never missing.
Missing(kept, made) == Len(made) - Len(kept)
IsTail(kept, made, t) ==
    /\ Missing(kept, made) \in Nat
    /\ \A i \in 1..Len(kept) : kept[i] = made[Missing(kept, made) + i].time
    /\ \A i \in 1..Missing(kept, made) : t - made[i].time > FLOOD_ATTACK_INTERVAL_MAX
    /\ kept = <<>> => made = <<>>

\* The vector holds the tail of the calls.
KeepsTail == \A u \in Uids : IsTail(floodAttackAppStatistics[u], calls[u], now)

FloodInv == FloodTypeOK /\ InOrder /\ KeepsTail /\ RefusesExactlyFloods

\* Appending to a sequence.
LEMMA AppendLength ==
    ASSUME NEW S, NEW s \in Seq(S), NEW x \in S
    PROVE  /\ Append(s, x) \in Seq(S)
           /\ Len(Append(s, x)) = Len(s) + 1
           /\ \A i \in 1..Len(s) : Append(s, x)[i] = s[i]
           /\ Append(s, x)[Len(s) + 1] = x
OBVIOUS

\* Dropping the first k elements.
LEMMA DropFacts ==
    ASSUME NEW S, NEW s \in Seq(S), NEW k \in 0..Len(s)
    PROVE  /\ SubSeq(s, k + 1, Len(s)) \in Seq(S)
           /\ Len(SubSeq(s, k + 1, Len(s))) = Len(s) - k
           /\ \A i \in 1..(Len(s) - k) : SubSeq(s, k + 1, Len(s))[i] = s[i + k]
OBVIOUS

\* What SMT needs to know of a call.
LEMMA CallTypes ==
    ASSUME FloodTypeOK, NEW u \in Uids
    PROVE  /\ Len(calls[u]) \in Nat /\ DOMAIN calls[u] = 1..Len(calls[u])
           /\ \A i \in 1..Len(calls[u]) :
                  calls[u][i].time \in Nat /\ calls[u][i].attacked \in BOOLEAN
<1>1. calls[u] \in Seq(Calls)
  BY DEF FloodTypeOK
<1>2. \A i \in 1..Len(calls[u]) : calls[u][i] \in Calls
  BY <1>1
<1> QED
  BY <1>1, <1>2 DEF Calls

\* What is missing was there.
LEMMA MissingBound ==
    ASSUME NEW kept, NEW made, Len(kept) \in Nat, Len(made) \in Nat
    PROVE  Missing(kept, made) <= Len(made)
BY DEF Missing

\* The initial states have made no calls.
LEMMA FloodInitInv == FloodInit => FloodInv
BY FloodAssumption DEF FloodInit, FloodInv, FloodTypeOK, InOrder, KeepsTail, IsTail, Missing, RefusesExactlyFloods, Calls

\* Time passing makes no kept time newer and no dropped one older.
LEMMA FloodTickInv == ASSUME FloodInv, FloodTick PROVE FloodInv'
<1> USE FloodAssumption DEF FloodInv, FloodTick
<1>1. FloodTypeOK'
  BY DEF FloodTypeOK
<1>2. InOrder'
  <2>1. now \in Nat
    BY DEF FloodTypeOK
  <2> QED
    BY <2>1, CallTypes DEF InOrder
<1>3. KeepsTail'
  <2> SUFFICES ASSUME NEW u \in Uids
               PROVE  IsTail(floodAttackAppStatistics[u], calls[u], now + 1)
    BY DEF KeepsTail
  <2> DEFINE missing == Missing(floodAttackAppStatistics[u], calls[u])
  <2>1. missing \in Nat /\ now \in Nat /\ \A i \in 1..missing : calls[u][i].time \in Nat
    <3>1. missing \in Nat /\ now \in Nat /\ Len(floodAttackAppStatistics[u]) \in Nat
      BY DEF FloodTypeOK, KeepsTail, IsTail
    <3>2. /\ Len(calls[u]) \in Nat
          /\ \A i \in 1..Len(calls[u]) : calls[u][i].time \in Nat
      BY CallTypes
    <3>3. missing <= Len(calls[u])
      BY <3>1, <3>2, MissingBound
    <3>4. \A i \in 1..missing : i \in 1..Len(calls[u])
      BY <3>1, <3>2, <3>3
    <3> QED
      BY <3>1, <3>2, <3>4
  <2>2. IsTail(floodAttackAppStatistics[u], calls[u], now)
    BY DEF KeepsTail
  <2>3. \A i \in 1..missing : now - calls[u][i].time > FLOOD_ATTACK_INTERVAL_MAX
    BY <2>2 DEF IsTail
  <2> HIDE DEF missing
  <2>4. \A i \in 1..missing : (now + 1) - calls[u][i].time > FLOOD_ATTACK_INTERVAL_MAX
    BY <2>1, <2>3
  <2> QED
    BY <2>2, <2>4, Zenon DEF IsTail, missing
<1>4. RefusesExactlyFloods'
  BY DEF RefusesExactlyFloods
<1> QED
  BY <1>1, <1>2, <1>3, <1>4

-----------------------------------------------------------------------------
(* One call *)

\* What CheckIsFloodAttack finds and leaves, in terms of the calls made so far:
\* n calls, of which the vector holds the last m, and it drops k of them.
LEMMA OneCall ==
    ASSUME FloodInv, NEW u \in Uids, NEW k \in 0..Len(floodAttackAppStatistics[u]),
           StopsAfter(floodAttackAppStatistics[u], k)
    PROVE  LET n == Len(calls[u])
               m == Len(floodAttackAppStatistics[u])
           IN  /\ \A i \in 1..(n - m + k) : now - calls[u][i].time > FLOOD_ATTACK_INTERVAL_MAX
               /\ \A i \in (n - m + k + 1)..n : now - calls[u][i].time <= FLOOD_ATTACK_INTERVAL_MAX
<1> DEFINE n == Len(calls[u])
           times == floodAttackAppStatistics[u]
           m == Len(times)
           time(i) == calls[u][i].time
<1> USE FloodAssumption
<1>1. /\ n \in Nat /\ m \in Nat /\ n - m \in Nat /\ k \in 0..m
      /\ now \in Nat /\ \A i \in 1..n : time(i) \in Nat
  BY CallTypes DEF FloodInv, FloodTypeOK, KeepsTail, IsTail, Missing
<1>2. \A i \in 1..m : times[i] = time(n - m + i)
  BY DEF FloodInv, FloodTypeOK, KeepsTail, IsTail, Missing
<1>3. \A i \in 1..(n - m) : now - time(i) > FLOOD_ATTACK_INTERVAL_MAX
  BY DEF FloodInv, KeepsTail, IsTail, Missing
<1>4. \A i, j \in 1..n : i <= j => time(i) <= time(j)
  BY CallTypes DEF FloodInv, InOrder
<1>5. \A i \in 1..k : now - times[i] > FLOOD_ATTACK_INTERVAL_MAX
  BY DEF StopsAfter, Expired
<1>6. k < m => ~(now - times[k + 1] > FLOOD_ATTACK_INTERVAL_MAX)
  BY DEF StopsAfter, Expired
<1> HIDE DEF n, times, m, time
<1>7. ASSUME NEW i \in 1..(n - m + k)
      PROVE  now - time(i) > FLOOD_ATTACK_INTERVAL_MAX
  <2>1. CASE i <= n - m
    BY <1>1, <1>3, <2>1
  <2>2. CASE i > n - m
    <3>1. i - (n - m) \in 1..k /\ i - (n - m) \in 1..m /\ n - m + (i - (n - m)) = i
      BY <1>1, <2>2
    <3>2. times[i - (n - m)] = time(i)
      BY <1>2, <3>1
    <3> QED
      BY <1>5, <3>1, <3>2
  <2> QED
    BY <1>1, <2>1, <2>2
<1>8. ASSUME NEW i \in (n - m + k + 1)..n
      PROVE  now - time(i) <= FLOOD_ATTACK_INTERVAL_MAX
  <2>1. k < m /\ k + 1 \in 1..m /\ n - m + (k + 1) \in 1..n /\ i \in 1..n /\ n - m + (k + 1) <= i
    BY <1>1
  <2>2. times[k + 1] = time(n - m + (k + 1))
    BY <1>2, <2>1
  <2>3. time(n - m + (k + 1)) <= time(i)
    BY <1>4, <2>1
  <2>4. time(n - m + (k + 1)) \in Nat /\ time(i) \in Nat
    BY <1>1, <2>1
  <2> QED
    BY <1>1, <1>6, <2>1, <2>2, <2>3, <2>4
<1> QED
  BY <1>7, <1>8 DEF n, m, times, time
-----------------------------------------------------------------------------
(* One call, continued: the invariant *)

\* The state after a call that drops k times and gets an answer.
LEMMA AfterCall ==
    ASSUME FloodInv, NEW u \in Uids, NEW k \in 0..Len(floodAttackAppStatistics[u]),
           NEW answer \in BOOLEAN, now' = now,
           floodAttackAppStatistics' = [floodAttackAppStatistics EXCEPT ![u] =
               Append(SubSeq(@, k + 1, Len(@)), now)],
           calls' = [calls EXCEPT ![u] = Append(@, [time |-> now, attacked |-> answer])]
    PROVE  LET n == Len(calls[u])
               m == Len(floodAttackAppStatistics[u])
           IN  /\ FloodTypeOK'
               /\ \A v \in Uids \ {u} : /\ calls'[v] = calls[v]
                                        /\ floodAttackAppStatistics'[v] = floodAttackAppStatistics[v]
               /\ Len(calls'[u]) = n + 1 /\ Len(floodAttackAppStatistics'[u]) = m - k + 1
               /\ \A i \in 1..n : calls'[u][i] = calls[u][i]
               /\ calls'[u][n + 1] = [time |-> now, attacked |-> answer]
               /\ \A i \in 1..(m - k) :
                      floodAttackAppStatistics'[u][i] = floodAttackAppStatistics[u][i + k]
               /\ floodAttackAppStatistics'[u][m - k + 1] = now
<1> DEFINE n == Len(calls[u])
           m == Len(floodAttackAppStatistics[u])
           kept == SubSeq(floodAttackAppStatistics[u], k + 1, m)
           call == [time |-> now, attacked |-> answer]
<1>1. /\ calls[u] \in Seq(Calls) /\ floodAttackAppStatistics[u] \in Seq(Nat) /\ now \in Nat
      /\ n \in Nat /\ m \in Nat /\ call \in Calls
  BY DEF FloodInv, FloodTypeOK, Calls
<1>2. kept \in Seq(Nat) /\ Len(kept) = m - k /\ \A i \in 1..(m - k) :
                                    kept[i] = floodAttackAppStatistics[u][i + k]
  BY <1>1, DropFacts
<1>3. /\ floodAttackAppStatistics'[u] = Append(kept, now) /\ calls'[u] = Append(calls[u], call)
      /\ \A v \in Uids \ {u} : /\ calls'[v] = calls[v]
                               /\ floodAttackAppStatistics'[v] = floodAttackAppStatistics[v]
      /\ floodAttackAppStatistics' = [floodAttackAppStatistics EXCEPT ![u] = Append(kept, now)]
      /\ calls' = [calls EXCEPT ![u] = Append(calls[u], call)]
  BY DEF FloodInv, FloodTypeOK
<1> HIDE DEF n, m, kept, call
<1>4. /\ Append(kept, now) \in Seq(Nat) /\ Len(Append(kept, now)) = m - k + 1
      /\ \A i \in 1..(m - k) : Append(kept, now)[i] = kept[i]
      /\ Append(kept, now)[m - k + 1] = now
  <2>1. /\ Append(kept, now) \in Seq(Nat) /\ Len(Append(kept, now)) = Len(kept) + 1
        /\ \A i \in 1..Len(kept) : Append(kept, now)[i] = kept[i]
        /\ Append(kept, now)[Len(kept) + 1] = now
    <3>1. kept \in Seq(Nat) /\ now \in Nat
      BY <1>1, <1>2
    <3> QED
      BY <3>1, AppendLength
  <2> QED
    BY <1>2, <2>1
<1>5. /\ Append(calls[u], call) \in Seq(Calls) /\ Len(Append(calls[u], call)) = n + 1
      /\ \A i \in 1..n : Append(calls[u], call)[i] = calls[u][i]
      /\ Append(calls[u], call)[n + 1] = call
  BY <1>1, AppendLength DEF n
<1>6. FloodTypeOK'
  BY <1>1, <1>3, <1>4, <1>5 DEF FloodInv, FloodTypeOK
<1>7. \A i \in 1..(m - k) : floodAttackAppStatistics'[u][i] = floodAttackAppStatistics[u][i + k]
  BY <1>2, <1>3, <1>4
<1> QED
  BY <1>3, <1>4, <1>5, <1>6, <1>7 DEF n, m, call

\* The answer depends on how many calls are kept.
LEMMA FloodAnswer ==
    ASSUME NEW times \in Seq(Nat), NEW k \in 0..Len(times)
    PROVE  (IF times = <<>> THEN FALSE ELSE IsAttack(SubSeq(times, k + 1, Len(times))))
               = (Len(times) - k >= FLOOD_ATTACK_NUMBER_MAX)
<1> DEFINE m == Len(times)
<1> USE FloodAssumption
<1>1. m \in Nat /\ Len(SubSeq(times, k + 1, m)) = m - k /\ k \in 0..m
  BY DropFacts
<1>2. times = <<>> => m = 0
  OBVIOUS
<1> HIDE DEF m
<1>3. CASE times = <<>>
  <2>1. (m - k >= FLOOD_ATTACK_NUMBER_MAX) = FALSE
    BY <1>1, <1>2, <1>3
  <2> QED
    BY <1>3, <2>1, Zenon DEF m
<1>4. CASE times # <<>>
  <2>1. (m - k + 1 > FLOOD_ATTACK_NUMBER_MAX) = (m - k >= FLOOD_ATTACK_NUMBER_MAX)
    BY <1>1
  <2> QED
    BY <1>1, <1>4, <2>1 DEF m, IsAttack
<1> QED
  BY <1>3, <1>4

\* A call records its time and its answer, and its answer is right.
LEMMA FloodCallInv ==
    ASSUME FloodInv, NEW u \in Uids, CheckIsFloodAttack(u)
    PROVE  FloodInv'
<1> DEFINE n == Len(calls[u])
           stats == floodAttackAppStatistics[u]
           m == Len(stats)
           stats2 == floodAttackAppStatistics'[u]
           time(i) == calls[u][i].time
           time2(i) == calls'[u][i].time
           attacked(i) == calls[u][i].attacked
           attacked2(i) == calls'[u][i].attacked
<1> USE FloodAssumption
<1>1. PICK k \in 0..m :
          /\ StopsAfter(stats, k)
          /\ floodAttackAppStatistics' =
                 [floodAttackAppStatistics EXCEPT ![u] = Append(SubSeq(stats, k + 1, m), now)]
          /\ calls' = [calls EXCEPT ![u] = Append(@, [time |-> now, attacked |->
                 IF stats = <<>> THEN FALSE ELSE IsAttack(SubSeq(stats, k + 1, m))])]
          /\ now' = now
  BY DEF CheckIsFloodAttack
<1> DEFINE answer == m - k >= FLOOD_ATTACK_NUMBER_MAX
<1>2. /\ n \in Nat /\ m \in Nat /\ n - m \in Nat /\ now \in Nat /\ k \in 0..m
      /\ stats \in Seq(Nat) /\ \A i \in 1..n : time(i) \in Nat
      /\ \A i \in 1..m : stats[i] = time(n - m + i)
  <2>1. FloodTypeOK /\ IsTail(stats, calls[u], now)
    BY DEF FloodInv, KeepsTail
  <2>2. stats \in Seq(Nat) /\ now \in Nat
    BY <2>1 DEF FloodTypeOK
  <2>3. n \in Nat /\ \A i \in 1..n : time(i) \in Nat
    BY <2>1, CallTypes
  <2>4. m \in Nat
    BY <2>2
  <2>5. n - m \in Nat /\ \A i \in 1..m : stats[i] = time(n - m + i)
    BY <2>1 DEF IsTail, Missing
  <2> QED
    BY <2>2, <2>3, <2>4, <2>5
<1>3. calls' = [calls EXCEPT ![u] = Append(@, [time |-> now, attacked |-> answer])]
  BY <1>1, <1>2, FloodAnswer
<1>4. /\ \A i \in 1..(n - m + k) : now - time(i) > FLOOD_ATTACK_INTERVAL_MAX
      /\ \A i \in (n - m + k + 1)..n : now - time(i) <= FLOOD_ATTACK_INTERVAL_MAX
  BY <1>1, OneCall
<1>5. /\ FloodTypeOK'
      /\ \A v \in Uids \ {u} : /\ calls'[v] = calls[v]
                               /\ floodAttackAppStatistics'[v] = floodAttackAppStatistics[v]
      /\ Len(calls'[u]) = n + 1 /\ Len(stats2) = m - k + 1
      /\ \A i \in 1..n : calls'[u][i] = calls[u][i]
      /\ calls'[u][n + 1] = [time |-> now, attacked |-> answer]
      /\ \A i \in 1..(m - k) : stats2[i] = stats[i + k]
      /\ stats2[m - k + 1] = now
  <2>1. floodAttackAppStatistics' =
            [floodAttackAppStatistics EXCEPT ![u] = Append(SubSeq(@, k + 1, Len(@)), now)]
    BY <1>1 DEF FloodInv, FloodTypeOK
  <2>2. answer \in BOOLEAN
    OBVIOUS
  <2>3. now' = now /\ k \in 0..Len(floodAttackAppStatistics[u])
    BY <1>1
  <2>4. calls' = [calls EXCEPT ![u] = Append(@, [time |-> now, attacked |-> answer])]
    BY <1>3
  <2> HIDE DEF answer
  <2> QED
    BY <2>1, <2>2, <2>3, <2>4, AfterCall
<1>6. /\ \A i \in 1..n : time2(i) = time(i) /\ attacked2(i) = attacked(i)
      /\ time2(n + 1) = now /\ attacked2(n + 1) = answer
  <2>1. \A i \in 1..n : time2(i) = time(i) /\ attacked2(i) = attacked(i)
    <3>1. \A i \in 1..n : calls'[u][i] = calls[u][i]
      BY <1>5
    <3> HIDE DEF n
    <3> QED
      BY <3>1, Zenon
  <2>2. time2(n + 1) = now /\ attacked2(n + 1) = answer
    <3>1. calls'[u][n + 1] = [time |-> now, attacked |-> answer]
      BY <1>5
    <3> HIDE DEF n, answer
    <3> QED
      BY <3>1
  <2> QED
    BY <2>1, <2>2
<1>7. /\ DOMAIN calls[u] = 1..n /\ DOMAIN calls'[u] = 1..(n + 1)
      /\ DOMAIN stats2 = 1..(m - k + 1)
  BY <1>2, <1>5 DEF FloodInv, FloodTypeOK
<1>8. InOrder'
  <2>1. \A v \in Uids \ {u} : \A i \in DOMAIN calls'[v] :
            /\ calls'[v][i].time <= now
            /\ \A j \in DOMAIN calls'[v] : i <= j => calls'[v][i].time <= calls'[v][j].time
    BY <1>5 DEF FloodInv, InOrder
  <2>2. \A i \in 1..n : time(i) <= now /\ \A j \in 1..n : i <= j => time(i) <= time(j)
    BY <1>7 DEF FloodInv, InOrder
  <2>3. \A i \in 1..(n + 1) : /\ time2(i) <= now
                              /\ \A j \in 1..(n + 1) : i <= j => time2(i) <= time2(j)
    <3> HIDE DEF n, m, stats, stats2, time, time2, attacked, attacked2, answer
    <3>1. \A i \in 1..(n + 1) : i = n + 1 \/ i \in 1..n
      BY <1>2
    <3>2. n + 1 \notin 1..n /\ \A i \in 1..n : ~(n + 1 <= i)
      BY <1>2
    <3> QED
      BY <1>2, <1>6, <2>2, <3>1, <3>2
  <2> QED
    BY <1>1, <1>7, <2>1, <2>3 DEF InOrder
<1>9. KeepsTail'
  <2>1. \A v \in Uids \ {u} : IsTail(floodAttackAppStatistics'[v], calls'[v], now)
    BY <1>5 DEF FloodInv, KeepsTail
  <2>2. stats2 # <<>>
    <3>1. Len(stats2) # 0
      <4> HIDE DEF n, m, stats, stats2
      <4> QED
        BY <1>2, <1>5
    <3> QED
      BY <3>1
  <2>3. /\ (n + 1) - (m - k + 1) \in Nat
        /\ \A i \in 1..(m - k + 1) : stats2[i] = time2((n + 1) - (m - k + 1) + i)
        /\ \A i \in 1..((n + 1) - (m - k + 1)) : now - time2(i) > FLOOD_ATTACK_INTERVAL_MAX
    <3> HIDE DEF n, m, stats, stats2, time, time2, attacked, attacked2, answer
    <3>1. (n + 1) - (m - k + 1) = n - m + k /\ n - m + k \in Nat
      BY <1>2
    <3>2. ASSUME NEW i \in 1..(m - k + 1)
          PROVE  stats2[i] = time2(n - m + k + i)
      <4>1. CASE i = m - k + 1
        <5>1. n - m + k + i = n + 1
          BY <1>2, <4>1
        <5> QED
          BY <1>5, <1>6, <4>1, <5>1
      <4>2. CASE i # m - k + 1
        <5>1. i \in 1..(m - k) /\ i + k \in 1..m /\ n - m + (i + k) \in 1..n
              /\ n - m + (i + k) = n - m + k + i
          BY <1>2, <4>2
        <5>2. stats2[i] = time(n - m + (i + k))
          BY <1>2, <1>5, <5>1
        <5> QED
          BY <1>6, <5>1, <5>2
      <4> QED
        BY <4>1, <4>2
    <3>3. ASSUME NEW i \in 1..(n - m + k)
          PROVE  now - time2(i) > FLOOD_ATTACK_INTERVAL_MAX
      <4>1. i \in 1..n
        BY <1>2
      <4> QED
        BY <1>4, <1>6, <4>1
    <3> QED
      BY <3>1, <3>2, <3>3
  <2>4. IsTail(stats2, calls'[u], now)
    <3>1. Len(stats2) = m - k + 1 /\ Len(calls'[u]) = n + 1
      BY <1>5
    <3> HIDE DEF n, m, stats, stats2
    <3>2. Missing(stats2, calls'[u]) = (n + 1) - (m - k + 1)
      BY <3>1, Zenon DEF Missing
    <3> QED
      BY <2>2, <2>3, <3>1, <3>2 DEF IsTail, time2
  <2> QED
    BY <1>1, <2>1, <2>4 DEF KeepsTail
<1>10. RefusesExactlyFloods'
  <2>1. \A v \in Uids \ {u} : \A i \in DOMAIN calls'[v] :
            calls'[v][i].attacked <=>
                /\ i > FLOOD_ATTACK_NUMBER_MAX
                /\ calls'[v][i].time - calls'[v][i - FLOOD_ATTACK_NUMBER_MAX].time
                       <= FLOOD_ATTACK_INTERVAL_MAX
    BY <1>5 DEF FloodInv, RefusesExactlyFloods
  <2>2. \A i \in 1..n :
            attacked(i) <=> /\ i > FLOOD_ATTACK_NUMBER_MAX
                            /\ time(i) - time(i - FLOOD_ATTACK_NUMBER_MAX)
                                   <= FLOOD_ATTACK_INTERVAL_MAX
    BY <1>7 DEF FloodInv, RefusesExactlyFloods
  <2>3. ASSUME NEW i \in 1..(n + 1)
        PROVE  attacked2(i) <=> /\ i > FLOOD_ATTACK_NUMBER_MAX
                                /\ time2(i) - time2(i - FLOOD_ATTACK_NUMBER_MAX)
                                       <= FLOOD_ATTACK_INTERVAL_MAX
    <3> DEFINE back == i - FLOOD_ATTACK_NUMBER_MAX
    <3> HIDE DEF n, m, stats, stats2, time, time2, attacked, attacked2
    <3>1. CASE i \in 1..n
      <4>1. i > FLOOD_ATTACK_NUMBER_MAX => back \in 1..n
        BY <1>2, <3>1
      <4> QED
        BY <1>6, <2>2, <3>1, <4>1
    <3>2. CASE i = n + 1 /\ m - k >= FLOOD_ATTACK_NUMBER_MAX
      <4>1. back \in (n - m + k + 1)..n /\ back \in 1..n /\ i > FLOOD_ATTACK_NUMBER_MAX
        BY <1>2, <3>2
      <4>2. time2(i) = now /\ time2(back) = time(back)
        BY <1>6, <3>2, <4>1
      <4> QED
        BY <1>4, <1>6, <3>2, <4>1, <4>2
    <3>3. CASE i = n + 1 /\ m - k < FLOOD_ATTACK_NUMBER_MAX /\ i > FLOOD_ATTACK_NUMBER_MAX
      <4>1. back \in 1..(n - m + k) /\ back \in 1..n
        BY <1>2, <3>3
      <4>2. time2(i) = now /\ time2(back) = time(back) /\ time(back) \in Nat
        BY <1>2, <1>6, <3>3, <4>1
      <4>3. ~(now - time(back) <= FLOOD_ATTACK_INTERVAL_MAX)
        BY <1>2, <1>4, <4>1, <4>2
      <4>4. ~answer
        BY <1>2, <3>3
      <4> QED
        BY <1>6, <3>3, <4>2, <4>3, <4>4
    <3>4. CASE i = n + 1 /\ m - k < FLOOD_ATTACK_NUMBER_MAX /\ ~(i > FLOOD_ATTACK_NUMBER_MAX)
      <4>1. ~answer
        BY <1>2, <3>4
      <4> QED
        BY <1>6, <3>4, <4>1
    <3>5. i \in 1..n \/ i = n + 1
      BY <1>2
    <3> QED
      BY <1>2, <3>1, <3>2, <3>3, <3>4, <3>5
  <2> QED
    BY <1>7, <2>1, <2>3 DEF RefusesExactlyFloods
<1> QED
  BY <1>5, <1>8, <1>9, <1>10 DEF FloodInv

-----------------------------------------------------------------------------
(* Theorems *)

\* The strengthened invariant holds: the vector is the tail of the calls.
THEOREM FloodInvariant == FloodSpec => []FloodInv
<1>1. FloodInit => FloodInv
  BY FloodInitInv
<1>2. FloodInv /\ [FloodNext]_floodVars => FloodInv'
  <2> SUFFICES ASSUME FloodInv, [FloodNext]_floodVars PROVE FloodInv'
    OBVIOUS
  <2>1. CASE FloodTick
    BY <2>1, FloodTickInv
  <2>2. ASSUME NEW u \in Uids, CheckIsFloodAttack(u) PROVE FloodInv'
    BY <2>2, FloodCallInv
  <2>3. CASE UNCHANGED floodVars
    BY <2>3 DEF floodVars, FloodInv, FloodTypeOK, InOrder, KeepsTail, IsTail, Missing, RefusesExactlyFloods
  <2> QED
    BY <2>1, <2>2, <2>3 DEF FloodNext
<1> QED
  BY <1>1, <1>2, PTL DEF FloodSpec

\* Every step of the service asks flood control once, lets the clock go on, or
\* leaves both alone.
LEMMA FloodStep == [Next]_vars => [FloodNext]_floodVars
<1> SUFFICES ASSUME [Next]_vars PROVE [FloodNext]_floodVars
  OBVIOUS
<1>1. ASSUME NEW c \in Uids, BeginCall(c) PROVE [FloodNext]_floodVars
  BY <1>1 DEF BeginCall, FloodNext
<1>2. ASSUME NEW c \in Uids, Post(c) \/ GetStickyCommonEvent(c) PROVE [FloodNext]_floodVars
  BY <1>2 DEF Post, GetStickyCommonEvent
<1>3. CASE RunTask \/ HandOn \/ OnStart \/ OnStop
  BY <1>3 DEF RunTask, HandOn, OnStart, OnStop
<1>4. ASSUME NEW c \in connections, Connected(c) PROVE [FloodNext]_floodVars
  BY <1>4 DEF Connected
<1>5. CASE Changes
  BY <1>5 DEF Changes, PackageChanges, UserStops, UserStarts, Announce
<1>6. CASE Passes
  BY <1>6 DEF Passes, FloodNext
<1>7. CASE UNCHANGED vars
  BY <1>7 DEF vars
<1> QED
  BY <1>1, <1>2, <1>3, <1>4, <1>5, <1>6, <1>7 DEF Next, Work

\* The service uses flood control as FloodControl says.
THEOREM FloodIsControlled == Spec => FloodSpec
<1>1. Init => FloodInit
  BY DEF Init
<1> QED
  BY <1>1, FloodStep, PTL DEF Spec, FloodSpec

\* For every rate, CheckIsFloodAttack refuses a call exactly when the
\* FLOOD_ATTACK_NUMBER_MAX-th call before it came within the interval.
THEOREM RefusalIsExact == Spec => []RefusesExactlyFloods
<1>1. FloodInv => RefusesExactlyFloods
  BY DEF FloodInv
<1> QED
  BY <1>1, FloodInvariant, FloodIsControlled, PTL

\* The admitted calls after i within the interval have indices i to
\* i + FLOOD_ATTACK_NUMBER_MAX - 1: the next one would have been refused.
LEMMA RateFromRefusal == FloodInv => AdmittedRate
<1> SUFFICES ASSUME FloodInv, NEW u \in Uids, NEW i \in DOMAIN calls[u], ~calls[u][i].attacked
             PROVE  Cardinality({j \in i..Len(calls[u]) :
                        /\ ~calls[u][j].attacked
                        /\ calls[u][j].time - calls[u][i].time <= FLOOD_ATTACK_INTERVAL_MAX})
                    <= FLOOD_ATTACK_NUMBER_MAX
  BY DEF AdmittedRate
<1> DEFINE n == Len(calls[u])
           time(j) == calls[u][j].time
           attacked(j) == calls[u][j].attacked
           admitted == {j \in i..n : ~attacked(j) /\ time(j) - time(i) <= FLOOD_ATTACK_INTERVAL_MAX}
           last == i + FLOOD_ATTACK_NUMBER_MAX - 1
<1> USE FloodAssumption
<1>1. n \in Nat /\ i \in 1..n /\ \A j \in 1..n : time(j) \in Nat
  BY CallTypes DEF FloodInv
<1>2. \A j, l \in 1..n : j <= l => time(j) <= time(l)
  BY CallTypes DEF FloodInv, InOrder
<1>3. \A j \in 1..n : j > FLOOD_ATTACK_NUMBER_MAX =>
          (~attacked(j) => ~(time(j) - time(j - FLOOD_ATTACK_NUMBER_MAX) <= FLOOD_ATTACK_INTERVAL_MAX))
  BY CallTypes DEF FloodInv, RefusesExactlyFloods
<1>4. IsFiniteSet(i..last) /\ Cardinality(i..last) = FLOOD_ATTACK_NUMBER_MAX
  <2>1. i \in Int /\ last \in Int /\ i <= last /\ last - i + 1 = FLOOD_ATTACK_NUMBER_MAX
    BY <1>1
  <2> QED
    BY <2>1, FS_Interval
<1>5. admitted \in SUBSET (i..last)
  <2> HIDE DEF n, time, attacked
  <2> SUFFICES ASSUME NEW j \in admitted, j > last PROVE FALSE
    BY <1>1
  <2> DEFINE back == j - FLOOD_ATTACK_NUMBER_MAX
  <2>1. j \in 1..n /\ j > FLOOD_ATTACK_NUMBER_MAX /\ back \in 1..n /\ i <= back
    BY <1>1
  <2>2. time(i) <= time(back)
    BY <1>1, <1>2, <2>1
  <2>3. ~(time(j) - time(back) <= FLOOD_ATTACK_INTERVAL_MAX)
    BY <1>3, <2>1
  <2>4. time(i) \in Nat /\ time(j) \in Nat /\ time(back) \in Nat
    BY <1>1, <2>1
  <2>5. time(j) - time(i) <= FLOOD_ATTACK_INTERVAL_MAX
    OBVIOUS
  <2> QED
    BY <2>2, <2>3, <2>4, <2>5
<1>6. Cardinality(admitted) <= Cardinality(i..last)
  BY <1>4, <1>5, FS_Subset
<1> QED
  BY <1>4, <1>6

\* No caller is admitted more often than the limit allows.
THEOREM RateIsBounded == Spec => []AdmittedRate
BY RateFromRefusal, FloodInvariant, FloodIsControlled, PTL

-----------------------------------------------------------------------------
(* The order of the calls.  A call goes from the script of its caller to a *)
(* binder thread, to the queue of the main thread, to the main thread and  *)
(* to what was done.  The invariant InTurn says that whatever is further  *)
(* on this way comes before whatever is behind it, caller by caller.       *)

\* The operations whose tasks wait in the queue for their turn.
InLow == {"publish", "subscribe", "unsubscribe"}

\* The calls of a plan, and the place of one among those of its caller.
PlannedIn(p) == {call \in ServiceCalls : \E c \in Uids : \E i \in DOMAIN p.calls[c] : call = p.calls[c][i]}

IndexIn(p, call) == CHOOSE i \in DOMAIN p.calls[call.by] : p.calls[call.by][i] = call

\* Of two calls of one caller, the first was made before the second: the plan
\* orders its own calls, their numbers those that say what the changes were.
Before(p, a, b) ==
    a.by = b.by =>
        /\ a \in PlannedIn(p) /\ b \in PlannedIn(p) => IndexIn(p, a) < IndexIn(p, b)
        /\ a.id \in 1..p.changes /\ b.id \in 1..p.changes => a.id < b.id

\* A call is of the plan, or says what one of the first n changes was.
Comes(p, n, call) ==
    \/ call \in PlannedIn(p)
    \/ /\ call.op = "publish" /\ ~call.sticky
       /\ call.id \in 1..n /\ call.by \in {PackageManager, AccountManager}

\* A call comes before all that is still on binder threads or to be made, and
\* before the tasks that wait.
AheadOf(p, x, bs, ss) ==
    \A c \in Uids : /\ bs[c].at = "post" => Before(p, x, bs[c].call)
                    /\ \A i \in DOMAIN ss[c] : Before(p, x, ss[c][i])

AheadOfTasks(p, x, bs, ss, l) ==
    AheadOf(p, x, bs, ss) /\ \A i \in DOMAIN l : Before(p, x, l[i])

\* Where calls come from, and which of them can be where.
CallsOf(p, n, c, s, b) ==
    /\ \A i \in DOMAIN s : Comes(p, n, s[i]) /\ s[i].by = c
    /\ b.at = "post" => Comes(p, n, b.call) /\ b.call.by = c

Coming ==
    /\ plan \in Plans /\ changes \in 0..plan.changes
    /\ \A c \in Uids : CallsOf(plan, changes, c, script[c], binder[c])
    /\ \A i \in DOMAIN low : Comes(plan, changes, low[i]) /\ low[i].op \in InLow
    /\ \A i \in DOMAIN immediate : immediate[i].op \notin InLow
    /\ main.at = "hand" => Comes(plan, changes, main.call) /\ main.call.op = "publish"
    /\ \A d \in done : d.op \in InLow => Comes(plan, changes, d)
    /\ \A i \in DOMAIN handed : handed[i].call \in done /\ handed[i].call.op = "publish"

\* One call of a caller after the other.
CallerInTurn ==
    \A c \in Uids :
        /\ \A i, j \in DOMAIN script[c] : i < j => Before(plan, script[c][i], script[c][j])
        /\ binder[c].at = "post" => \A i \in DOMAIN script[c] : Before(plan, binder[c].call, script[c][i])

TasksInTurn ==
    /\ \A i, j \in DOMAIN low : i < j => Before(plan, low[i], low[j])
    /\ \A i \in DOMAIN low : AheadOf(plan, low[i], binder, script)

MainInTurn == main.at = "hand" => AheadOfTasks(plan, main.call, binder, script, low)

DoneInTurn ==
    \A d \in done : d.op \in InLow =>
        AheadOfTasks(plan, d, binder, script, low) /\ (main.at = "hand" => Before(plan, d, main.call))

HandedInTurn ==
    \A i, j \in DOMAIN handed : i < j => Before(plan, handed[i].call, handed[j].call)

InTurn == CallerInTurn /\ TasksInTurn /\ MainInTurn /\ DoneInTurn /\ HandedInTurn

TInv == IInv /\ Coming /\ InTurn

-----------------------------------------------------------------------------
(* The plan *)

\* The place of a call of the plan is where the plan has it.
LEMMA IndexFacts ==
    ASSUME NEW p \in Plans, NEW a \in PlannedIn(p)
    PROVE  /\ a.by \in Uids /\ IndexIn(p, a) \in DOMAIN p.calls[a.by]
           /\ p.calls[a.by][IndexIn(p, a)] = a /\ IndexIn(p, a) \in Nat
<1>1. PICK c \in Uids : \E i \in DOMAIN p.calls[c] : a = p.calls[c][i]
  BY DEF PlannedIn
<1>2. PICK i \in DOMAIN p.calls[c] : a = p.calls[c][i]
  BY <1>1
<1>3. a.by = c
  BY <1>2, CallsAssumption
<1>4. IndexIn(p, a) \in DOMAIN p.calls[c] /\ p.calls[c][IndexIn(p, a)] = a
  BY <1>2, <1>3 DEF IndexIn
<1>5. p.calls[c] \in Seq(ServiceCalls)
  BY ServiceAssumption
<1> QED
  BY <1>3, <1>4, <1>5

\* An id names one call of the plan.
LEMMA SameId ==
    ASSUME NEW p \in Plans, NEW a \in PlannedIn(p), NEW b \in PlannedIn(p), a.id = b.id
    PROVE  a = b
<1>1. PICK c \in Uids : \E i \in DOMAIN p.calls[c] : a = p.calls[c][i]
  BY DEF PlannedIn
<1>2. PICK i \in DOMAIN p.calls[c] : a = p.calls[c][i]
  BY <1>1
<1>3. PICK d \in Uids : \E j \in DOMAIN p.calls[d] : b = p.calls[d][j]
  BY DEF PlannedIn
<1>4. PICK j \in DOMAIN p.calls[d] : b = p.calls[d][j]
  BY <1>3
<1>5. c = d /\ i = j
  BY <1>2, <1>4, CallsAssumption
<1> QED
  BY <1>2, <1>4, <1>5

\* No call of the plan comes before itself.
LEMMA NotBeforeItself ==
    ASSUME NEW p \in Plans, NEW a \in PlannedIn(p)
    PROVE  ~Before(p, a, a)
BY IndexFacts DEF Before

\* What says what a change was is not of the plan.
LEMMA AnnouncedIsNotPlanned ==
    ASSUME NEW p \in Plans, NEW a, a.id \in 1..p.changes
    PROVE  a \notin PlannedIn(p)
<1> SUFFICES ASSUME a \in PlannedIn(p) PROVE FALSE
  OBVIOUS
<1>1. PICK c \in Uids : \E i \in DOMAIN p.calls[c] : a = p.calls[c][i]
  BY DEF PlannedIn
<1>2. PICK i \in DOMAIN p.calls[c] : a = p.calls[c][i]
  BY <1>1
<1> QED
  BY <1>2, CallsAssumption

LEMMA ComesLater ==
    ASSUME NEW p, NEW n \in Nat, NEW call, Comes(p, n, call)
    PROVE  Comes(p, n + 1, call)
BY DEF Comes

\* What is ahead stays ahead when calls only move on, or new ones come behind it.
LEMMA AheadKept ==
    ASSUME NEW p, NEW x, NEW bs, NEW ss, NEW bs2, NEW ss2, AheadOf(p, x, bs, ss),
           \A d \in Uids : bs2[d].at = "post" =>
               \/ bs[d].at = "post" /\ bs2[d].call = bs[d].call
               \/ \E i \in DOMAIN ss[d] : bs2[d].call = ss[d][i],
           \A d \in Uids : \A i \in DOMAIN ss2[d] :
               \/ \E j \in DOMAIN ss[d] : ss2[d][i] = ss[d][j]
               \/ Before(p, x, ss2[d][i])
    PROVE  AheadOf(p, x, bs2, ss2)
<1> SUFFICES ASSUME NEW d \in Uids
             PROVE  /\ bs2[d].at = "post" => Before(p, x, bs2[d].call)
                    /\ \A i \in DOMAIN ss2[d] : Before(p, x, ss2[d][i])
  BY DEF AheadOf
<1>1. bs2[d].at = "post" => Before(p, x, bs2[d].call)
  BY DEF AheadOf
<1>2. ASSUME NEW i \in DOMAIN ss2[d] PROVE Before(p, x, ss2[d][i])
  BY DEF AheadOf
<1> QED
  BY <1>1, <1>2

\* The tail of a sequence.
LEMMA TailFacts ==
    ASSUME NEW S, NEW s \in Seq(S), s # <<>>
    PROVE  /\ 1 \in DOMAIN s /\ Head(s) = s[1] /\ DOMAIN s = 1..Len(s)
           /\ Tail(s) \in Seq(S) /\ DOMAIN Tail(s) = 1..Len(s) - 1
           /\ \A i \in DOMAIN Tail(s) : i + 1 \in DOMAIN s /\ Tail(s)[i] = s[i + 1]
OBVIOUS

-----------------------------------------------------------------------------
(* Initially *)

LEMMA TurnsInit == Init => TInv
<1> SUFFICES ASSUME Init PROVE TInv
  OBVIOUS
<1>1. IInv /\ plan \in Plans
  BY InitHolds DEF Init
<1>2. ASSUME NEW c \in Uids, NEW i \in DOMAIN script[c]
      PROVE  /\ script[c][i] \in PlannedIn(plan) /\ script[c][i].by = c /\ i \in Nat
             /\ IndexIn(plan, script[c][i]) = i
  <2>1. script[c] = plan.calls[c] /\ script[c] \in Seq(ServiceCalls)
    BY <1>1, ServiceAssumption DEF Init
  <2>2. script[c][i] \in PlannedIn(plan) /\ i \in Nat
    BY <2>1, <1>2 DEF PlannedIn
  <2>3. script[c][i].by = c
    BY <2>1, <1>1, <1>2, CallsAssumption
  <2> DEFINE k == IndexIn(plan, script[c][i])
  <2>4. k \in DOMAIN plan.calls[c] /\ plan.calls[c][k] = script[c][i]
    BY <2>2, <2>3, <1>1, IndexFacts
  <2>5. k = i
    BY <2>4, <2>1, <1>1, <1>2, CallsAssumption
  <2> QED
    BY <2>2, <2>3, <2>5
<1>3. Coming
  <2>1. changes \in 0..plan.changes
    BY <1>1, ServiceAssumption DEF Init
  <2>2. \A c \in Uids : CallsOf(plan, changes, c, script[c], binder[c])
    BY <1>2 DEF Init, CallsOf, Comes, Idle
  <2> QED
    BY <1>1, <2>1, <2>2 DEF Coming, Init, Idle
<1>4. InTurn
  <2>1. \A c \in Uids : \A i \in DOMAIN script[c] : script[c][i].id \notin 1..plan.changes
    BY <1>1, <1>2, AnnouncedIsNotPlanned
  <2>2. CallerInTurn
    BY <1>2, <2>1 DEF CallerInTurn, Init, Before, Idle
  <2> QED
    BY <2>2 DEF InTurn, TasksInTurn, MainInTurn, DoneInTurn, HandedInTurn, Init, Idle
<1> QED
  BY <1>1, <1>3, <1>4 DEF TInv

-----------------------------------------------------------------------------
(* Binder threads *)

\* When only calls on binder threads and calls to be made change, all that is
\* further on stays as it is.
LEMMA OthersKeepTurns ==
    ASSUME TInv, UNCHANGED <<plan, low, main, done, handed>>,
           \A d \in Uids : binder'[d].at = "post" =>
               \/ binder[d].at = "post" /\ binder'[d].call = binder[d].call
               \/ \E i \in DOMAIN script[d] : binder'[d].call = script[d][i],
           \A d \in Uids : \A i \in DOMAIN script'[d] :
               \/ \E j \in DOMAIN script[d] : script'[d][i] = script[d][j]
               \/ \A x : Comes(plan, changes, x) => Before(plan, x, script'[d][i])
    PROVE  TasksInTurn' /\ MainInTurn' /\ DoneInTurn' /\ HandedInTurn'
<1>1. ASSUME NEW x, Comes(plan, changes, x), AheadOf(plan, x, binder, script)
      PROVE  AheadOf(plan', x, binder', script')
  <2>1. AheadOf(plan, x, binder', script')
    BY <1>1, AheadKept
  <2> QED
    BY <2>1
<1>2. TasksInTurn'
  BY <1>1 DEF TInv, Coming, InTurn, TasksInTurn
<1>3. MainInTurn'
  BY <1>1 DEF TInv, Coming, InTurn, MainInTurn, AheadOfTasks
<1>4. DoneInTurn'
  BY <1>1 DEF TInv, Coming, InTurn, DoneInTurn, AheadOfTasks
<1>5. HandedInTurn'
  BY DEF TInv, InTurn, HandedInTurn
<1> QED
  BY <1>2, <1>3, <1>4, <1>5

\* The next call of a caller leaves its script.
LEMMA BeginCallTurns ==
    ASSUME TInv, NEW c \in Uids, BeginCall(c)
    PROVE  Coming' /\ InTurn'
<1> DEFINE call == Head(script[c])
<1>1. TypeOK /\ script \in [Uids -> Seq(ServiceCalls)] /\ binder \in [Uids -> BinderStates]
  BY DEF TInv, IInv, TypeOK
<1>2. script[c] # <<>> /\ script' = [script EXCEPT ![c] = Tail(script[c])]
  BY <1>1 DEF BeginCall
<1>3. /\ 1 \in DOMAIN script[c] /\ call = script[c][1]
      /\ DOMAIN script[c] = 1..Len(script[c]) /\ DOMAIN Tail(script[c]) = 1..Len(script[c]) - 1
      /\ Len(script[c]) \in Nat
      /\ \A i \in DOMAIN Tail(script[c]) : i + 1 \in DOMAIN script[c] /\ Tail(script[c])[i] = script[c][i + 1]
  BY <1>1, <1>2, TailFacts
<1>4. UNCHANGED <<plan, changes, low, immediate, main, done, handed>>
  BY DEF BeginCall, taskVars, innerVars
<1>5. \/ binder' = [binder EXCEPT ![c] = [at |-> "post", call |-> call]]
      \/ binder' = [binder EXCEPT ![c] = Idle]
  BY DEF BeginCall, Answer
<1>6. /\ \A d \in Uids : d # c => binder'[d] = binder[d] /\ script'[d] = script[d]
      /\ binder'[c].at = "post" => binder'[c].call = script[c][1]
      /\ script'[c] = Tail(script[c])
  BY <1>1, <1>2, <1>3, <1>5 DEF Idle
<1>7. \A d \in Uids : CallsOf(plan, changes, d, script'[d], binder'[d])
  <2> SUFFICES ASSUME NEW d \in Uids
               PROVE  CallsOf(plan, changes, d, script'[d], binder'[d])
    OBVIOUS
  <2>1. CallsOf(plan, changes, d, script[d], binder[d])
    BY DEF TInv, Coming
  <2>2. CASE d # c
    BY <1>6, <2>1, <2>2
  <2>3. CASE d = c
    <3>1. \A i \in DOMAIN script'[c] : Comes(plan, changes, script'[c][i]) /\ script'[c][i].by = c
      BY <1>3, <1>6, <2>1, <2>3 DEF CallsOf
    <3>2. Comes(plan, changes, script[c][1]) /\ script[c][1].by = c
      BY <1>3, <2>1, <2>3 DEF CallsOf
    <3> QED
      BY <1>6, <2>3, <3>1, <3>2 DEF CallsOf
  <2> QED
    BY <2>2, <2>3
<1>8. Coming'
  BY <1>4, <1>7 DEF TInv, Coming
<1>9. CallerInTurn'
  <2> SUFFICES ASSUME NEW d \in Uids
               PROVE  /\ \A i, j \in DOMAIN script'[d] : i < j => Before(plan, script'[d][i], script'[d][j])
                      /\ binder'[d].at = "post" =>
                             \A i \in DOMAIN script'[d] : Before(plan, binder'[d].call, script'[d][i])
    BY <1>4 DEF CallerInTurn
  <2>1. CASE d # c
    BY <1>6, <2>1 DEF TInv, InTurn, CallerInTurn
  <2>2. CASE d = c
    <3>1. \A i, j \in DOMAIN script[c] : i < j => Before(plan, script[c][i], script[c][j])
      BY DEF TInv, InTurn, CallerInTurn
    <3>2. ASSUME NEW i \in DOMAIN script'[c], NEW j \in DOMAIN script'[c], i < j
          PROVE  Before(plan, script'[c][i], script'[c][j])
      <4>1. i + 1 < j + 1 /\ i + 1 \in DOMAIN script[c] /\ j + 1 \in DOMAIN script[c]
        BY <1>3, <1>6, <3>2
      <4>2. Before(plan, script[c][i + 1], script[c][j + 1])
        BY <3>1, <4>1
      <4> QED
        BY <4>2, <1>3, <1>6
    <3>3. ASSUME NEW i \in DOMAIN script'[c]
          PROVE  Before(plan, script[c][1], script'[c][i])
      <4>1. 1 < i + 1 /\ i + 1 \in DOMAIN script[c]
        BY <1>3, <1>6
      <4>2. Before(plan, script[c][1], script[c][i + 1])
        BY <1>3, <3>1, <4>1
      <4> QED
        BY <4>2, <1>3, <1>6
    <3> QED
      BY <1>6, <2>2, <3>2, <3>3
  <2> QED
    BY <2>1, <2>2
<1>10. TasksInTurn' /\ MainInTurn' /\ DoneInTurn' /\ HandedInTurn'
  <2>1. ASSUME NEW d \in Uids, binder'[d].at = "post"
        PROVE  \/ binder[d].at = "post" /\ binder'[d].call = binder[d].call
               \/ \E i \in DOMAIN script[d] : binder'[d].call = script[d][i]
    BY <1>3, <1>6, <2>1
  <2>2. ASSUME NEW d \in Uids, NEW i \in DOMAIN script'[d]
        PROVE  \E j \in DOMAIN script[d] : script'[d][i] = script[d][j]
    <3>1. CASE d # c
      BY <1>6, <3>1
    <3>2. CASE d = c
      <4>1. i \in DOMAIN Tail(script[c]) /\ script'[d][i] = Tail(script[c])[i]
        BY <1>6, <3>2
      <4> QED
        BY <1>3, <3>2, <4>1
    <3> QED
      BY <3>1, <3>2
  <2> QED
    BY <1>4, <2>1, <2>2, OthersKeepTurns
<1> QED
  BY <1>8, <1>9, <1>10 DEF InTurn

\* A read leaves the binder thread.
LEMMA GetStickyTurns ==
    ASSUME TInv, NEW c \in Uids, GetStickyCommonEvent(c)
    PROVE  Coming' /\ InTurn'
<1>1. binder \in [Uids -> BinderStates]
  BY DEF TInv, IInv, TypeOK
<1>2. UNCHANGED <<plan, changes, script, low, immediate, main, done, handed>>
  BY DEF GetStickyCommonEvent, taskVars, innerVars
<1>3. /\ \A d \in Uids : d # c => binder'[d] = binder[d]
      /\ binder'[c].at # "post"
  BY <1>1 DEF GetStickyCommonEvent, Answer, Idle
<1>4. \A d \in Uids : CallsOf(plan, changes, d, script[d], binder'[d])
  BY <1>3 DEF TInv, Coming, CallsOf
<1>5. Coming'
  BY <1>2, <1>4 DEF TInv, Coming
<1>6. CallerInTurn'
  BY <1>2, <1>3 DEF TInv, InTurn, CallerInTurn
<1>7. TasksInTurn' /\ MainInTurn' /\ DoneInTurn' /\ HandedInTurn'
  BY <1>2, <1>3, OthersKeepTurns
<1> QED
  BY <1>5, <1>6, <1>7 DEF InTurn

\* A call takes its place behind the tasks that wait.
LEMMA PostTurns ==
    ASSUME TInv, NEW c \in Uids, Post(c)
    PROVE  Coming' /\ InTurn'
<1> DEFINE call == binder[c].call
<1>1. /\ binder \in [Uids -> BinderStates] /\ low \in Seq(ServiceCalls)
      /\ immediate \in Seq(ServiceCalls) /\ script \in [Uids -> Seq(ServiceCalls)]
  BY DEF TInv, IInv, TypeOK
<1>2. UNCHANGED <<plan, changes, script, main, done, handed>>
  BY DEF Post, innerVars
<1>3. /\ \A d \in Uids : d # c => binder'[d] = binder[d]
      /\ binder'[c].at # "post" /\ binder[c].at = "post" /\ call.op \in Posted
  BY <1>1 DEF Post, Answer, Idle
<1>4. call \in ServiceCalls
  <2>1. binder[c] \in BinderStates
    BY <1>1
  <2> QED
    BY <1>3, <2>1 DEF BinderStates, Idle
<1>5. \/ UNCHANGED <<low, immediate>>
      \/ call.op \notin InLow /\ immediate' = Append(immediate, call) /\ UNCHANGED low
      \/ call.op \in InLow /\ low' = Append(low, call) /\ UNCHANGED immediate
  BY <1>3 DEF Post, PostTask, Posted, PostedImmediate, InLow
<1>6. /\ \A d \in Uids : CallsOf(plan, changes, d, script[d], binder'[d])
      /\ Comes(plan, changes, call) /\ call.by = c
  BY <1>3 DEF TInv, Coming, CallsOf
<1>7. /\ \A i \in DOMAIN low' : i \in DOMAIN low \/ (low'[i] = call /\ call.op \in InLow /\ i = Len(low) + 1)
      /\ \A i \in DOMAIN low' : i \in DOMAIN low => low'[i] = low[i]
      /\ DOMAIN low = 1..Len(low)
  <2>1. CASE UNCHANGED low
    BY <1>1, <2>1
  <2>2. CASE call.op \in InLow /\ low' = Append(low, call)
    <3>1. /\ DOMAIN low' = 1..Len(low) + 1 /\ DOMAIN low = 1..Len(low) /\ Len(low) \in Nat
          /\ \A i \in DOMAIN low : low'[i] = low[i]
          /\ low'[Len(low) + 1] = call
      BY <1>1, <1>4, <2>2, AppendFacts
    <3>2. \A i \in 1..Len(low) + 1 : i \in 1..Len(low) \/ i = Len(low) + 1
      BY <3>1
    <3> QED
      BY <2>2, <3>1, <3>2
  <2> QED
    BY <1>5, <2>1, <2>2
<1>8. \A i \in DOMAIN immediate' : immediate'[i].op \notin InLow
  <2>1. \A i \in DOMAIN immediate : immediate[i].op \notin InLow
    BY DEF TInv, Coming
  <2>2. CASE UNCHANGED immediate
    BY <2>1, <2>2
  <2>3. CASE call.op \notin InLow /\ immediate' = Append(immediate, call)
    <3>1. ASSUME NEW i \in DOMAIN immediate'
          PROVE  immediate'[i] = call \/ (i \in DOMAIN immediate /\ immediate'[i] = immediate[i])
      BY <1>1, <1>4, <2>3, AppendFacts
    <3> QED
      BY <2>1, <2>3, <3>1
  <2> QED
    BY <1>5, <2>2, <2>3
<1>9. Coming'
  <2>1. \A i \in DOMAIN low' : Comes(plan, changes, low'[i]) /\ low'[i].op \in InLow
    BY <1>6, <1>7 DEF TInv, Coming
  <2> QED
    BY <1>2, <1>6, <1>8, <2>1 DEF TInv, Coming
<1>10. CallerInTurn'
  BY <1>2, <1>3 DEF TInv, InTurn, CallerInTurn
<1>11. ASSUME NEW x, AheadOf(plan, x, binder, script)
       PROVE  AheadOf(plan, x, binder', script) /\ Before(plan, x, call)
  <2>1. Before(plan, x, call)
    BY <1>3, <1>11 DEF AheadOf
  <2>2. AheadOf(plan, x, binder', script)
    BY <1>3, <1>11 DEF AheadOf
  <2> QED
    BY <2>1, <2>2
<1>12. ASSUME NEW x, AheadOf(plan, x, binder, script), \A i \in DOMAIN low : Before(plan, x, low[i])
       PROVE  AheadOfTasks(plan, x, binder', script, low')
  BY <1>7, <1>11, <1>12 DEF AheadOfTasks
<1>13. MainInTurn'
  BY <1>2, <1>12 DEF TInv, InTurn, MainInTurn, AheadOfTasks
<1>14. DoneInTurn'
  BY <1>2, <1>12 DEF TInv, InTurn, DoneInTurn, AheadOfTasks
<1>15. AheadOf(plan, call, binder', script)
  <2> SUFFICES ASSUME NEW d \in Uids
               PROVE  /\ binder'[d].at = "post" => Before(plan, call, binder'[d].call)
                      /\ \A i \in DOMAIN script[d] : Before(plan, call, script[d][i])
    BY DEF AheadOf
  <2>1. CASE d = c
    BY <1>3, <2>1 DEF TInv, InTurn, CallerInTurn
  <2>2. CASE d # c
    BY <1>3, <1>6, <2>2 DEF TInv, Coming, CallsOf, Before
  <2> QED
    BY <2>1, <2>2
<1>16. TasksInTurn'
  <2>1. \A i \in DOMAIN low : AheadOf(plan, low[i], binder, script)
    BY DEF TInv, InTurn, TasksInTurn
  <2>2. \A i \in DOMAIN low' : AheadOf(plan, low'[i], binder', script)
    BY <1>7, <1>11, <1>15, <2>1
  <2>3. ASSUME NEW i \in DOMAIN low', NEW j \in DOMAIN low', i < j
        PROVE  Before(plan, low'[i], low'[j])
    <3>1. CASE j \in DOMAIN low
      <4>1. i \in DOMAIN low
        BY <1>1, <1>7, <2>3, <3>1
      <4> QED
        BY <1>7, <2>3, <3>1, <4>1 DEF TInv, InTurn, TasksInTurn
    <3>2. CASE j \notin DOMAIN low
      <4>1. low'[j] = call /\ j = Len(low) + 1
        BY <1>7, <3>2
      <4>2. i \in DOMAIN low
        BY <1>1, <1>7, <2>3, <4>1
      <4> QED
        BY <1>7, <1>11, <2>1, <4>1, <4>2
    <3> QED
      BY <3>1, <3>2
  <2> QED
    BY <1>2, <2>2, <2>3 DEF TasksInTurn
<1>17. HandedInTurn'
  BY <1>2 DEF TInv, InTurn, HandedInTurn
<1> QED
  BY <1>9, <1>10, <1>13, <1>14, <1>16, <1>17 DEF InTurn

-----------------------------------------------------------------------------
(* The main thread *)

\* Executing a call that waited for its turn either keeps it on the main thread
\* or has done with it; one that did not wait leaves both alone.
LEMMA ExecuteFacts ==
    ASSUME NEW call \in ServiceCalls, main = Idle, Execute(call)
    PROVE  /\ \/ UNCHANGED done /\ (main' = Idle \/ (/\ call.op = "publish" /\ main'.at = "hand"
                                                     /\ main'.call = call))
              \/ done' = done \cup {call} /\ main' = Idle /\ call.op # "publish"
           /\ UNCHANGED handed
<1>1. ASSUME NEW own \in OwnUser(call), InnerPublishCommonEvent(call, CheckUserId(call, own))
      PROVE  /\ UNCHANGED <<done, handed>>
             /\ main' = Idle \/ (call.op = "publish" /\ main'.at = "hand" /\ main'.call = call)
  BY <1>1 DEF InnerPublishCommonEvent
<1>2. ASSUME NEW own \in OwnUser(call), InnerSubscribeCommonEvent(call, CheckUserId(call, own))
      PROVE  UNCHANGED <<main, handed>> /\ (UNCHANGED done \/ done' = done \cup {call}) /\ call.op # "publish"
  BY <1>2 DEF InnerSubscribeCommonEvent, Executed
<1>3. CASE InnerUnsubscribeCommonEvent(call)
  BY <1>3 DEF InnerUnsubscribeCommonEvent, Executed
<1>4. CASE InnerFreeze(call)
  BY <1>4 DEF InnerFreeze, Executed
<1> QED
  BY <1>1, <1>2, <1>3, <1>4 DEF Execute

\* The first task that waits is executed when no immediate one is there.
LEMMA RunTaskTurns ==
    ASSUME TInv, RunTask
    PROVE  Coming' /\ InTurn'
<1> DEFINE call == Head(immediate \o low)
<1>1. /\ low \in Seq(ServiceCalls) /\ immediate \in Seq(ServiceCalls)
      /\ UNCHANGED <<plan, changes, script, binder>> /\ main = Idle /\ Execute(call)
  BY DEF TInv, IInv, TypeOK, RunTask, callVars
<1>2. call \in ServiceCalls
  BY <1>1, HeadOfTwo DEF RunTask
<1>3. /\ \/ UNCHANGED done /\ (main' = Idle \/ (/\ call.op = "publish" /\ main'.at = "hand"
                                                /\ main'.call = call))
         \/ done' = done \cup {call} /\ main' = Idle /\ call.op # "publish"
      /\ UNCHANGED handed
  BY <1>1, <1>2, ExecuteFacts
<1>4. Idle.at # "hand"
  BY DEF Idle
<1>5. HandedInTurn'
  BY <1>1, <1>3 DEF TInv, InTurn, HandedInTurn
<1>6. CallerInTurn'
  BY <1>1 DEF TInv, InTurn, CallerInTurn
<1>7. \A i \in DOMAIN handed : handed[i].call \in done' /\ handed[i].call.op = "publish"
  BY <1>3 DEF TInv, Coming
<1>8. CASE immediate # <<>>
  <2>1. immediate' = Tail(immediate) /\ UNCHANGED low
    BY <1>8 DEF RunTask
  <2>2. call = immediate[1] /\ 1 \in DOMAIN immediate
    BY <1>1, <1>8
  <2>3. call.op \notin InLow
    BY <2>2 DEF TInv, Coming
  <2>4. \A i \in DOMAIN immediate' : immediate'[i].op \notin InLow
    BY <1>1, <1>8, <2>1, TailFacts DEF TInv, Coming
  <2>5. main' = Idle /\ \A d \in done' : d.op \in InLow => d \in done
    BY <1>3, <2>3 DEF InLow
  <2>6. Coming'
    BY <1>1, <1>3, <1>4, <1>7, <2>1, <2>4, <2>5 DEF TInv, Coming
  <2>7. TasksInTurn' /\ MainInTurn'
    BY <1>1, <1>4, <2>1, <2>5 DEF TInv, InTurn, TasksInTurn, MainInTurn
  <2>8. DoneInTurn'
    BY <1>1, <1>4, <2>1, <2>5 DEF TInv, InTurn, DoneInTurn
  <2> QED
    BY <1>5, <1>6, <2>6, <2>7, <2>8 DEF InTurn
<1>9. CASE immediate = <<>>
  <2>1. low # <<>> /\ low' = Tail(low) /\ UNCHANGED immediate
    BY <1>9 DEF RunTask
  <2>2. immediate \o low = low
    BY <1>1, <1>9
  <2>3. /\ 1 \in DOMAIN low /\ call = low[1]
        /\ DOMAIN low = 1..Len(low) /\ DOMAIN low' = 1..Len(low) - 1
        /\ Len(low) \in Nat
        /\ \A i \in DOMAIN low' : i + 1 \in DOMAIN low /\ low'[i] = low[i + 1]
    BY <1>1, <2>1, <2>2, TailFacts
  <2>4. Comes(plan, changes, call) /\ call.op \in InLow
    BY <2>3 DEF TInv, Coming
  <2>5. Coming'
    <3>1. \A i \in DOMAIN low' : Comes(plan, changes, low'[i]) /\ low'[i].op \in InLow
      BY <2>3 DEF TInv, Coming
    <3>2. main'.at = "hand" => Comes(plan, changes, main'.call) /\ main'.call.op = "publish"
      BY <1>3, <1>4, <2>4
    <3>3. \A d \in done' : d.op \in InLow => Comes(plan, changes, d)
      BY <1>3, <2>4 DEF TInv, Coming
    <3> QED
      BY <1>1, <1>3, <1>7, <2>1, <3>1, <3>2, <3>3 DEF TInv, Coming
  <2>6. \A i, j \in DOMAIN low : i < j => Before(plan, low[i], low[j])
    BY DEF TInv, InTurn, TasksInTurn
  <2>7. TasksInTurn'
    <3>1. \A i \in DOMAIN low' : AheadOf(plan, low'[i], binder, script)
      BY <2>3 DEF TInv, InTurn, TasksInTurn
    <3>2. ASSUME NEW i \in DOMAIN low', NEW j \in DOMAIN low', i < j
          PROVE  Before(plan, low'[i], low'[j])
      <4>1. i + 1 < j + 1 /\ i + 1 \in DOMAIN low /\ j + 1 \in DOMAIN low
        BY <2>3, <3>2
      <4>2. Before(plan, low[i + 1], low[j + 1])
        BY <2>6, <4>1
      <4> QED
        BY <2>3, <4>2
    <3> QED
      BY <1>1, <3>1, <3>2 DEF TasksInTurn
  <2>8. AheadOfTasks(plan, call, binder, script, low')
    <3>1. AheadOf(plan, call, binder, script)
      BY <2>3 DEF TInv, InTurn, TasksInTurn
    <3>2. ASSUME NEW i \in DOMAIN low' PROVE Before(plan, call, low'[i])
      <4>1. 1 < i + 1 /\ i + 1 \in DOMAIN low
        BY <2>3
      <4>2. Before(plan, low[1], low[i + 1])
        BY <2>3, <2>6, <4>1
      <4> QED
        BY <2>3, <4>2
    <3> QED
      BY <3>1, <3>2 DEF AheadOfTasks
  <2>9. ASSUME NEW d \in done, d.op \in InLow
        PROVE  AheadOfTasks(plan, d, binder, script, low') /\ Before(plan, d, call)
    <3>1. AheadOfTasks(plan, d, binder, script, low)
      BY <2>9 DEF TInv, InTurn, DoneInTurn
    <3>2. AheadOfTasks(plan, d, binder, script, low')
      BY <2>3, <3>1 DEF AheadOfTasks
    <3>3. Before(plan, d, call)
      BY <2>3, <3>1 DEF AheadOfTasks
    <3> QED
      BY <3>2, <3>3
  <2>10. MainInTurn'
    BY <1>1, <1>3, <1>4, <2>8 DEF MainInTurn
  <2>11. DoneInTurn'
    <3> SUFFICES ASSUME NEW d \in done', d.op \in InLow
                 PROVE  /\ AheadOfTasks(plan, d, binder, script, low')
                        /\ main'.at = "hand" => Before(plan, d, main'.call)
      BY <1>1 DEF DoneInTurn
    <3>1. CASE d \in done
      BY <1>3, <1>4, <2>9, <3>1
    <3>2. CASE d \notin done
      BY <1>3, <1>4, <2>8, <3>2
    <3> QED
      BY <3>1, <3>2
  <2> QED
    BY <1>5, <1>6, <2>5, <2>7, <2>10, <2>11 DEF InTurn
<1> QED
  BY <1>8, <1>9

\* A publication that has been handed on is done.
LEMMA HandOnTurns ==
    ASSUME TInv, HandOn
    PROVE  Coming' /\ InTurn'
<1> DEFINE to  == {s.caller : s \in Receivers(main.call, main.user)}
           new == [call |-> main.call, user |-> main.user, to |-> to]
<1>1. TypeOK /\ main.at = "hand" /\ main.call \in ServiceCalls /\ main.user \in Int
  BY DEF TInv, IInv, HandOn, TypeOK, MainStates, Idle
<1>2. /\ UNCHANGED <<plan, changes, script, binder, low, immediate>>
      /\ main' = Idle /\ done' = done \cup {main.call}
      /\ handed' = Append(handed, new)
  BY DEF HandOn, callVars, Executed
<1>3. new \in HandedOn
  BY <1>1 DEF HandedOn, TypeOK, Receivers
<1>4. /\ handed \in Seq(HandedOn) /\ Len(handed) \in Nat /\ DOMAIN handed = 1..Len(handed)
      /\ DOMAIN handed' = 1..Len(handed) + 1
      /\ \A i \in DOMAIN handed : handed'[i] = handed[i]
      /\ handed'[Len(handed) + 1] = new /\ new.call = main.call
  BY <1>1, <1>2, <1>3, AppendFacts DEF TypeOK
<1>5. \A i \in DOMAIN handed' : i \in DOMAIN handed \/ i = Len(handed) + 1
  BY <1>4
<1>6. Idle.at # "hand"
  BY DEF Idle
<1>7. /\ Comes(plan, changes, main.call) /\ main.call.op = "publish"
      /\ AheadOfTasks(plan, main.call, binder, script, low)
  BY <1>1 DEF TInv, Coming, InTurn, MainInTurn
<1>8. Coming'
  <2>1. \A d \in done' : d.op \in InLow => Comes(plan, changes, d)
    BY <1>2, <1>7 DEF TInv, Coming
  <2>2. ASSUME NEW i \in DOMAIN handed'
        PROVE  handed'[i].call \in done' /\ handed'[i].call.op = "publish"
    BY <1>2, <1>4, <1>5, <1>7 DEF TInv, Coming
  <2> QED
    BY <1>2, <1>6, <2>1, <2>2 DEF TInv, Coming
<1>9. CallerInTurn' /\ TasksInTurn' /\ MainInTurn'
  BY <1>2, <1>6 DEF TInv, InTurn, CallerInTurn, TasksInTurn, MainInTurn
<1>10. DoneInTurn'
  BY <1>2, <1>6, <1>7 DEF TInv, InTurn, DoneInTurn
<1>11. HandedInTurn'
  <2> SUFFICES ASSUME NEW i \in DOMAIN handed', NEW j \in DOMAIN handed', i < j
               PROVE  Before(plan, handed'[i].call, handed'[j].call)
    BY <1>2 DEF HandedInTurn
  <2>1. i \in DOMAIN handed
    BY <1>4
  <2>2. CASE j \in DOMAIN handed
    BY <1>4, <2>1, <2>2 DEF TInv, InTurn, HandedInTurn
  <2>3. CASE j = Len(handed) + 1
    <3>1. handed[i].call \in done /\ handed[i].call.op \in InLow
      BY <2>1 DEF TInv, Coming, InLow
    <3>2. Before(plan, handed[i].call, main.call)
      BY <1>1, <3>1 DEF TInv, InTurn, DoneInTurn
    <3> QED
      BY <1>4, <2>1, <2>3, <3>2
  <2> QED
    BY <1>5, <2>2, <2>3
<1> QED
  BY <1>8, <1>9, <1>10, <1>11 DEF InTurn

-----------------------------------------------------------------------------
(* The service, other services and every step *)

\* A stop loses the tasks that wait.
LEMMA OnStopTurns ==
    ASSUME TInv, OnStop
    PROVE  Coming' /\ InTurn'
<1>1. /\ UNCHANGED <<plan, changes, script, binder, main, done, handed>>
      /\ low' = <<>> /\ immediate' = <<>>
  BY DEF OnStop, callVars, innerVars
<1>2. Coming'
  BY <1>1 DEF TInv, Coming
<1>3. CallerInTurn' /\ TasksInTurn' /\ HandedInTurn'
  BY <1>1 DEF TInv, InTurn, CallerInTurn, TasksInTurn, HandedInTurn
<1>4. MainInTurn' /\ DoneInTurn'
  BY <1>1 DEF TInv, InTurn, MainInTurn, DoneInTurn, AheadOfTasks
<1> QED
  BY <1>2, <1>3, <1>4 DEF InTurn

\* What is announced comes after the calls of the plan.
LEMMA AnnounceTurns ==
    ASSUME TInv, NEW c \in {PackageManager, AccountManager}, NEW about, about.name \in Names,
           about.bundle \in Bundles \cup {None}, about.of \in Users \cup {None},
           Announce(c, about)
    PROVE  Coming' /\ InTurn'
<1> DEFINE call == [op |-> "publish", by |-> c, id |-> changes', user |-> UNDEFINED_USER,
                    name |-> about.name, bundle |-> about.bundle, of |-> about.of,
                    sticky |-> FALSE, ordered |-> FALSE, last |-> FALSE, proxy |-> FALSE, token |-> c]
<1>1. c \in Uids /\ TypeOK /\ changes \in Nat
  BY ServiceAssumption DEF TInv, IInv, TypeOK
<1>2. /\ UNCHANGED <<plan, binder, low, immediate, main, done, handed>>
      /\ changes' = changes + 1 /\ changes < plan.changes
      /\ script' = [script EXCEPT ![c] = Append(@, call)]
  BY DEF Announce, taskVars, innerVars
<1>3. changes' \in 0..plan.changes /\ changes' \in 1..plan.changes /\ plan \in Plans
  BY <1>1, <1>2, ServiceAssumption DEF TInv, Coming
<1>4. call \in ServiceCalls
  BY <1>1, <1>2 DEF ServiceCalls, UNDEFINED_USER
<1>5. /\ script[c] \in Seq(ServiceCalls) /\ Len(script[c]) \in Nat
      /\ DOMAIN script[c] = 1..Len(script[c]) /\ DOMAIN script'[c] = 1..Len(script[c]) + 1
      /\ \A i \in DOMAIN script[c] : script'[c][i] = script[c][i]
      /\ script'[c][Len(script[c]) + 1] = call
      /\ \A d \in Uids : d # c => script'[d] = script[d]
  BY <1>1, <1>2, <1>4, AppendFacts DEF TypeOK
<1>6. \A i \in DOMAIN script'[c] : i \in DOMAIN script[c] \/ i = Len(script[c]) + 1
  BY <1>5
<1>7. call \notin PlannedIn(plan)
  BY <1>3, AnnouncedIsNotPlanned
<1>8. Comes(plan, changes', call) /\ call.by = c
  BY <1>3 DEF Comes
<1>9. ASSUME NEW x, Comes(plan, changes, x) PROVE Comes(plan, changes', x)
  BY <1>1, <1>2, <1>9, ComesLater
<1>10. \A d \in Uids : CallsOf(plan, changes', d, script'[d], binder[d])
  <2> SUFFICES ASSUME NEW d \in Uids
               PROVE  CallsOf(plan, changes', d, script'[d], binder[d])
    OBVIOUS
  <2>1. CallsOf(plan, changes, d, script[d], binder[d])
    BY DEF TInv, Coming
  <2>2. CallsOf(plan, changes', d, script[d], binder[d])
    BY <1>9, <2>1 DEF CallsOf
  <2>3. CASE d = c
    BY <1>5, <1>6, <1>8, <2>2, <2>3 DEF CallsOf
  <2> QED
    BY <1>5, <2>2, <2>3
<1>11. Coming'
  <2>1. \A i \in DOMAIN low : Comes(plan, changes', low[i]) /\ low[i].op \in InLow
    BY <1>9 DEF TInv, Coming
  <2>2. main.at = "hand" => Comes(plan, changes', main.call) /\ main.call.op = "publish"
    BY <1>9 DEF TInv, Coming
  <2>3. \A d \in done : d.op \in InLow => Comes(plan, changes', d)
    BY <1>9 DEF TInv, Coming
  <2> QED
    BY <1>2, <1>3, <1>10, <2>1, <2>2, <2>3 DEF TInv, Coming
<1>12. \A d \in Uids : \A i \in DOMAIN script'[d] :
           \/ i \in DOMAIN script[d] /\ script'[d][i] = script[d][i]
           \/ script'[d][i] = call /\ d = c /\ i = Len(script[c]) + 1
  BY <1>5, <1>6
<1>13. ASSUME NEW x, Comes(plan, changes, x) PROVE Before(plan, x, call)
  <2>1. x.id \in 1..plan.changes => x \notin PlannedIn(plan)
    BY <1>3, AnnouncedIsNotPlanned
  <2>2. x.id \in 1..plan.changes => x.id < changes + 1
    BY <1>1, <1>13, <2>1 DEF Comes
  <2> QED
    BY <1>2, <1>7, <2>2 DEF Before
<1> HIDE DEF call
<1>14. ASSUME NEW d \in Uids
        PROVE  /\ \A i \in DOMAIN script[d] : Comes(plan, changes, script[d][i])
               /\ binder[d].at = "post" => Comes(plan, changes, binder[d].call)
  BY DEF TInv, Coming, CallsOf
<1>15. CallerInTurn'
  <2> SUFFICES ASSUME NEW d \in Uids
               PROVE  /\ \A i, j \in DOMAIN script'[d] : i < j => Before(plan, script'[d][i], script'[d][j])
                      /\ binder[d].at = "post" =>
                             \A i \in DOMAIN script'[d] : Before(plan, binder[d].call, script'[d][i])
    BY <1>2 DEF CallerInTurn
  <2>1. binder[d].at = "post" => \A i \in DOMAIN script'[d] : Before(plan, binder[d].call, script'[d][i])
    BY <1>12, <1>13, <1>14 DEF TInv, InTurn, CallerInTurn
  <2>2. ASSUME NEW i \in DOMAIN script'[d], NEW j \in DOMAIN script'[d], i < j
        PROVE  Before(plan, script'[d][i], script'[d][j])
    <3>1. \A k, l \in DOMAIN script[d] : k < l => Before(plan, script[d][k], script[d][l])
      BY DEF TInv, InTurn, CallerInTurn
    <3>2. i \in DOMAIN script[d] /\ script'[d][i] = script[d][i]
      BY <1>5, <1>12, <2>2
    <3>3. CASE j \in DOMAIN script[d] /\ script'[d][j] = script[d][j]
      BY <2>2, <3>1, <3>2, <3>3
    <3>4. CASE script'[d][j] = call
      BY <1>13, <1>14, <3>2, <3>4
    <3> QED
      BY <1>12, <3>3, <3>4
  <2> QED
    BY <2>1, <2>2
<1>16. TasksInTurn' /\ MainInTurn' /\ DoneInTurn' /\ HandedInTurn'
  <2>1. \A d \in Uids : \A i \in DOMAIN script'[d] :
            \/ \E j \in DOMAIN script[d] : script'[d][i] = script[d][j]
            \/ \A x : Comes(plan, changes, x) => Before(plan, x, script'[d][i])
    BY <1>12, <1>13
  <2> QED
    BY <1>2, <2>1, OthersKeepTurns
<1> QED
  BY <1>11, <1>15, <1>16 DEF InTurn

LEMMA ChangesTurns ==
    ASSUME TInv, Changes
    PROVE  Coming' /\ InTurn'
<1>1. STOPPED \in Names
  BY ServiceAssumption
<1>2. PackageNames \subseteq Names /\ FillNames \subseteq Names
  BY StaticAssumption
<1>3. ASSUME NEW b \in Bundles, NEW u \in Users, NEW events \in Profiles, PackageChanges(b, u, events)
      PROVE  Coming' /\ InTurn'
  <2>1. /\ PackageEvent(b, u, events).name \in Names
        /\ PackageEvent(b, u, events).bundle = b /\ PackageEvent(b, u, events).of = u
    BY <1>2 DEF PackageEvent, About, PackageNames
  <2> QED
    BY <1>3, <2>1, AnnounceTurns DEF PackageChanges
<1>4. ASSUME NEW u \in Users, UserStops(u)
      PROVE  Coming' /\ InTurn'
  <2>1. About(STOPPED, None, u).name = STOPPED /\ About(STOPPED, None, u).bundle = None
        /\ About(STOPPED, None, u).of = u
    BY DEF About
  <2> QED
    BY <1>1, <1>4, <2>1, AnnounceTurns DEF UserStops
<1>5. ASSUME NEW u \in Users, NEW name \in FillNames, UserStarts(u, name)
      PROVE  Coming' /\ InTurn'
  <2>1. About(name, None, u).name = name /\ About(name, None, u).bundle = None
        /\ About(name, None, u).of = u
    BY DEF About
  <2> QED
    BY <1>2, <1>5, <2>1, AnnounceTurns DEF UserStarts
<1> QED
  BY <1>3, <1>4, <1>5 DEF Changes

LEMMA IdleTurns ==
    ASSUME TInv, UNCHANGED <<plan, changes, script, binder, low, immediate, main, done, handed>>
    PROVE  Coming' /\ InTurn'
<1>1. Coming'
  BY DEF TInv, Coming
<1>2. CallerInTurn' /\ TasksInTurn' /\ HandedInTurn'
  BY DEF TInv, InTurn, CallerInTurn, TasksInTurn, HandedInTurn
<1>3. MainInTurn' /\ DoneInTurn'
  BY DEF TInv, InTurn, MainInTurn, DoneInTurn
<1> QED
  BY <1>1, <1>2, <1>3 DEF InTurn

LEMMA TurnsStep ==
    ASSUME TInv, [Next]_vars
    PROVE  TInv'
<1>1. IInv'
  BY NextStep DEF TInv
<1>2. ASSUME NEW c \in Uids, BeginCall(c) PROVE TInv'
  BY <1>1, <1>2, BeginCallTurns DEF TInv
<1>3. ASSUME NEW c \in Uids, Post(c) PROVE TInv'
  BY <1>1, <1>3, PostTurns DEF TInv
<1>4. ASSUME NEW c \in Uids, GetStickyCommonEvent(c) PROVE TInv'
  BY <1>1, <1>4, GetStickyTurns DEF TInv
<1>5. CASE RunTask
  BY <1>1, <1>5, RunTaskTurns DEF TInv
<1>6. CASE HandOn
  BY <1>1, <1>6, HandOnTurns DEF TInv
<1>7. CASE OnStart
  BY <1>1, <1>7, IdleTurns DEF TInv, OnStart, callVars, taskVars, innerVars
<1>8. ASSUME NEW c \in connections, Connected(c) PROVE TInv'
  BY <1>1, <1>8, IdleTurns DEF TInv, Connected, callVars, taskVars, innerVars
<1>9. CASE OnStop
  BY <1>1, <1>9, OnStopTurns DEF TInv
<1>10. CASE Changes
  BY <1>1, <1>10, ChangesTurns DEF TInv
<1>11. CASE Passes
  BY <1>1, <1>11, IdleTurns DEF TInv, Passes, callVars, taskVars, innerVars
<1>12. CASE UNCHANGED vars
  BY <1>1, <1>12, IdleTurns DEF TInv, vars, callVars, taskVars, innerVars
<1> QED
  BY <1>2, <1>3, <1>4, <1>5, <1>6, <1>7, <1>8, <1>9, <1>10, <1>11, <1>12 DEF Next, Work

\* Subscriptions, unsubscriptions and publications of a caller are executed in
\* the order in which it made them.
THEOREM CallsAreInTurn == Spec => []TInv
<1>1. Init => TInv
  BY TurnsInit
<1>2. TInv /\ [Next]_vars => TInv'
  BY TurnsStep
<1> QED
  BY <1>1, <1>2, PTL DEF Spec

\* A call of the plan shares its id with no other call that comes.
LEMMA IdNamesCall ==
    ASSUME TInv, NEW a \in PlannedIn(plan), NEW b, Comes(plan, changes, b), a.id = b.id
    PROVE  a = b
<1>1. plan \in Plans /\ changes \in 0..plan.changes /\ plan.changes \in Nat
  BY ServiceAssumption DEF TInv, Coming
<1>2. CASE b \in PlannedIn(plan)
  BY <1>1, <1>2, SameId
<1>3. CASE b.id \in 1..changes
  BY <1>1, <1>3, AnnouncedIsNotPlanned
<1> QED
  BY <1>2, <1>3 DEF Comes

\* A task that waited for its turn comes after all that has been done.
LEMMA TaskIsNext ==
    ASSUME TInv, RunTask, Head(immediate \o low).op \in InLow
    PROVE  /\ Comes(plan, changes, Head(immediate \o low))
           /\ \A d \in done : d.op \in InLow => Before(plan, d, Head(immediate \o low))
<1> DEFINE call == Head(immediate \o low)
<1>1. low \in Seq(ServiceCalls) /\ immediate \in Seq(ServiceCalls)
  BY DEF TInv, IInv, TypeOK
<1>2. immediate = <<>>
  <2>1. SUFFICES ASSUME immediate # <<>> PROVE FALSE
    OBVIOUS
  <2>2. call = immediate[1] /\ 1 \in DOMAIN immediate
    BY <1>1, <2>1
  <2> QED
    BY <2>2 DEF TInv, Coming
<1>3. low # <<>>
  BY <1>2 DEF RunTask
<1>4. immediate \o low = low
  BY <1>1, <1>2
<1>5. 1 \in DOMAIN low /\ call = low[1]
  BY <1>1, <1>3, <1>4, TailFacts
<1>6. Comes(plan, changes, call)
  BY <1>5 DEF TInv, Coming
<1>7. ASSUME NEW d \in done, d.op \in InLow PROVE Before(plan, d, call)
  BY <1>5, <1>7 DEF TInv, InTurn, DoneInTurn, AheadOfTasks
<1> QED
  BY <1>6, <1>7

-----------------------------------------------------------------------------
(* Sticky events *)

IsSticky(call, n) == call.sticky /\ call.name = n

\* The last sticky event of this name that was handed on is the k-th.
Latest(h, k, n, id) ==
    /\ k \in DOMAIN h /\ IsSticky(h[k].call, n) /\ h[k].call.id = id
    /\ \A j \in DOMAIN h : j > k => ~IsSticky(h[j].call, n)

\* What is kept for a name is what is about to be handed on, or what was handed
\* on last.
KeptSticky ==
    /\ DOMAIN sticky = Names
    /\ \A n \in Names :
           /\ main.at = "hand" /\ IsSticky(main.call, n) => sticky[n] = main.call.id
           /\ ~(main.at = "hand" /\ IsSticky(main.call, n)) /\ sticky[n] # None =>
                  \E k \in DOMAIN handed : Latest(handed, k, n, sticky[n])

ReadsSeen == \A r \in reads : r.seen \in 0..Len(handed)

SInv == KeptSticky /\ ReadsSeen /\ HandedIsReadable

LEMMA StickyInit == Init => SInv
<1> SUFFICES ASSUME Init PROVE SInv
  OBVIOUS
<1>1. KeptSticky
  BY DEF Init, KeptSticky, Idle
<1>2. ReadsSeen /\ HandedIsReadable
  BY DEF Init, ReadsSeen, HandedIsReadable
<1> QED
  BY <1>1, <1>2 DEF SInv

LEMMA StickyKept ==
    ASSUME SInv, UNCHANGED <<sticky, main, handed, reads>>
    PROVE  SInv'
<1>1. KeptSticky'
  BY DEF SInv, KeptSticky
<1>2. ReadsSeen' /\ HandedIsReadable'
  BY DEF SInv, ReadsSeen, HandedIsReadable
<1> QED
  BY <1>1, <1>2 DEF SInv

\* A call that is handed on can be found among those handed on once.
LEMMA HandedOnce ==
    ASSUME TInv, NEW i \in DOMAIN handed, NEW j \in DOMAIN handed,
           handed[i].call \in PlannedIn(plan), handed[i].call.id = handed[j].call.id
    PROVE  i = j
<1>1. handed[j].call \in done /\ handed[j].call.op \in InLow
  BY DEF TInv, Coming, InLow
<1>2. handed[i].call = handed[j].call
  BY <1>1, IdNamesCall DEF TInv, Coming
<1>3. plan \in Plans /\ DOMAIN handed = 1..Len(handed)
  BY DEF TInv, IInv, TypeOK, Coming
<1>4. ~(i < j) /\ ~(j < i)
  <2>1. ~Before(plan, handed[i].call, handed[j].call) /\ ~Before(plan, handed[j].call, handed[i].call)
    BY <1>2, <1>3, NotBeforeItself
  <2> QED
    BY <2>1 DEF TInv, InTurn, HandedInTurn
<1> QED
  BY <1>3, <1>4

\* A sticky call that comes is of the plan.
LEMMA StickyIsPlanned ==
    ASSUME NEW p, NEW n, NEW call, Comes(p, n, call), call.sticky = TRUE
    PROVE  call \in PlannedIn(p)
BY DEF Comes

\* What is read is what was handed on last, or what has not been handed on yet.
LEMMA GetStickySticky ==
    ASSUME TInv, SInv, NEW c \in Uids, GetStickyCommonEvent(c)
    PROVE  SInv'
<1> DEFINE n   == binder[c].call.name
           new == [name |-> n, id |-> sticky[n], seen |-> Len(handed)]
<1>1. UNCHANGED <<sticky, main, handed>>
  BY DEF GetStickyCommonEvent, taskVars, innerVars
<1>2. \/ UNCHANGED reads
      \/ n # None /\ sticky[n] # None /\ reads' = reads \cup {new}
  BY DEF GetStickyCommonEvent
<1>3. CASE UNCHANGED reads
  BY <1>1, <1>3, StickyKept
<1>4. CASE n # None /\ sticky[n] # None /\ reads' = reads \cup {new}
  <2>1. handed \in Seq(HandedOn) /\ Len(handed) \in Nat /\ DOMAIN handed = 1..Len(handed)
    BY DEF TInv, IInv, TypeOK
  <2>2. n \in Names
    <3>1. binder[c] \in BinderStates /\ binder[c].at = "post"
      BY DEF TInv, IInv, TypeOK, GetStickyCommonEvent
    <3>2. binder[c].call \in ServiceCalls
      BY <3>1 DEF BinderStates, Idle
    <3> QED
      BY <1>4, <3>2 DEF ServiceCalls
  <2>3. \A i \in DOMAIN handed : handed[i].call \in done /\ handed[i].call.op \in InLow
                                 /\ Comes(plan, changes, handed[i].call)
    BY DEF TInv, Coming, InLow
  <2>4. ASSUME NEW i \in 1..Len(handed), IsSticky(handed[i].call, n), handed[i].call.id # sticky[n],
               NEW j \in 1..i
        PROVE  handed[j].call.id # sticky[n]
    <3>1. j \in DOMAIN handed /\ i \in DOMAIN handed /\ j <= i
      BY <2>1
    <3>2. CASE main.at = "hand" /\ IsSticky(main.call, n)
      <4>1. sticky[n] = main.call.id
        BY <2>2, <3>2 DEF SInv, KeptSticky
      <4>2. Comes(plan, changes, main.call)
        BY <3>2 DEF TInv, Coming
      <4>3. main.call \in PlannedIn(plan)
        BY <3>2, <4>2 DEF Comes, IsSticky
      <4>4. plan \in Plans
        BY DEF TInv, Coming
      <4>5. Before(plan, handed[j].call, main.call)
        BY <2>3, <3>1, <3>2 DEF TInv, InTurn, DoneInTurn
      <4>6. handed[j].call # main.call
        BY <4>3, <4>4, <4>5, NotBeforeItself
      <4> QED
        BY <2>3, <3>1, <4>1, <4>3, <4>6, IdNamesCall
    <3>3. CASE ~(main.at = "hand" /\ IsSticky(main.call, n))
      <4>1. PICK k \in DOMAIN handed : Latest(handed, k, n, sticky[n])
        BY <1>4, <2>2, <3>3 DEF SInv, KeptSticky
      <4>2. handed[k].call.id = sticky[n] /\ handed[k].call.sticky
        BY <4>1 DEF Latest, IsSticky
      <4>3. handed[k].call \in PlannedIn(plan)
        BY <2>3, <4>2 DEF Comes
      <4>4. SUFFICES ASSUME handed[j].call.id = sticky[n] PROVE FALSE
        OBVIOUS
      <4>5. k = j
        BY <3>1, <4>2, <4>3, <4>4, HandedOnce
      <4>6. i # k
        BY <2>4, <4>2
      <4>7. i > k
        BY <2>1, <3>1, <4>5, <4>6
      <4> QED
        BY <2>4, <3>1, <4>1, <4>7 DEF Latest
    <3> QED
      BY <3>2, <3>3
  <2>5. KeptSticky'
    BY <1>1 DEF SInv, KeptSticky
  <2>6. ReadsSeen'
    BY <1>1, <1>4, <2>1 DEF SInv, ReadsSeen
  <2>7. HandedIsReadable'
    <3> SUFFICES ASSUME NEW r \in reads', NEW i \in 1..r.seen,
                        handed[i].call.sticky, handed[i].call.name = r.name,
                        handed[i].call.id # r.id, NEW j \in 1..i
                 PROVE  handed[j].call.id # r.id
      BY <1>1 DEF HandedIsReadable
    <3>1. CASE r \in reads
      BY <3>1 DEF SInv, HandedIsReadable
    <3>2. CASE r = new
      <4>1. r.seen = Len(handed) /\ r.name = n /\ r.id = sticky[n]
        BY <3>2
      <4> QED
        BY <2>4, <4>1 DEF IsSticky
    <3> QED
      BY <1>4, <3>1, <3>2
  <2> QED
    BY <2>5, <2>6, <2>7 DEF SInv
<1> QED
  BY <1>2, <1>3, <1>4

\* A sticky event is kept when it is about to be handed on.
LEMMA RunTaskSticky ==
    ASSUME TInv, SInv, RunTask
    PROVE  SInv'
<1> DEFINE call == Head(immediate \o low)
<1>1. UNCHANGED reads /\ main = Idle /\ Execute(call)
  BY DEF RunTask, callVars
<1>2. call \in ServiceCalls
  BY HeadOfTwo DEF TInv, IInv, TypeOK, RunTask
<1>3. UNCHANGED handed
  BY <1>1, <1>2, ExecuteFacts
<1> DEFINE Passed == UNCHANGED sticky /\ main'.at = "hand" /\ main'.call = call /\ ~call.sticky
           Kept   == /\ sticky' = [sticky EXCEPT ![call.name] = call.id] /\ call.name # None
                     /\ main'.at = "hand" /\ main'.call = call /\ call.sticky
<1>4. UNCHANGED <<sticky, main>> \/ Passed \/ Kept
  <2>1. ASSUME NEW own \in OwnUser(call), InnerPublishCommonEvent(call, CheckUserId(call, own))
        PROVE  UNCHANGED <<sticky, main>> \/ Passed \/ Kept
    <3> DEFINE user == CheckUserId(call, own)
    <3>1. CASE UNCHANGED <<sticky, main>>
      BY <3>1
    <3>2. CASE /\ PublishAllowed(call, user)
               /\ IF call.sticky THEN UpdateStickyEvent(call) ELSE UNCHANGED sticky
               /\ main' = [at |-> "hand", call |-> call, user |-> user]
      <4>1. main'.at = "hand" /\ main'.call = call /\ call.name # None
        BY <3>2 DEF PublishAllowed
      <4>2. CASE call.sticky
        BY <3>2, <4>1, <4>2 DEF UpdateStickyEvent
      <4>3. CASE ~call.sticky
        BY <3>2, <4>1, <4>3
      <4> QED
        BY <4>2, <4>3
    <3> QED
      BY <2>1, <3>1, <3>2 DEF InnerPublishCommonEvent
  <2>2. ASSUME NEW own \in OwnUser(call), InnerSubscribeCommonEvent(call, CheckUserId(call, own))
        PROVE  UNCHANGED <<sticky, main>>
    BY <2>2 DEF InnerSubscribeCommonEvent
  <2>3. CASE InnerUnsubscribeCommonEvent(call) \/ InnerFreeze(call)
    BY <2>3 DEF InnerUnsubscribeCommonEvent, InnerFreeze
  <2> QED
    BY <1>1, <2>1, <2>2, <2>3 DEF Execute
<1>5. Idle.at # "hand"
  BY DEF Idle
<1>6. KeptSticky'
  <2>1. CASE UNCHANGED <<sticky, main>>
    BY <1>3, <2>1 DEF SInv, KeptSticky
  <2>2. CASE Passed
    BY <1>1, <1>3, <1>5, <2>2 DEF SInv, KeptSticky, IsSticky
  <2>3. CASE Kept
    <3>1. DOMAIN sticky = Names /\ call.name \in Names
      BY <1>2, <2>3 DEF SInv, KeptSticky, ServiceCalls
    <3>2. DOMAIN sticky' = Names
      BY <2>3, <3>1
    <3>3. ASSUME NEW n \in Names, n = call.name
          PROVE  sticky'[n] = main'.call.id /\ IsSticky(main'.call, n)
      BY <2>3, <3>1, <3>3 DEF IsSticky
    <3>4. ASSUME NEW n \in Names, n # call.name, sticky'[n] # None
          PROVE  ~IsSticky(main'.call, n) /\ \E k \in DOMAIN handed : Latest(handed, k, n, sticky'[n])
      <4>1. sticky'[n] = sticky[n]
        BY <2>3, <3>1, <3>4
      <4> QED
        BY <1>1, <1>5, <2>3, <3>4, <4>1 DEF SInv, KeptSticky, IsSticky
    <3> QED
      BY <1>3, <2>3, <3>2, <3>3, <3>4 DEF KeptSticky, IsSticky
  <2> QED
    BY <1>4, <2>1, <2>2, <2>3
<1>7. ReadsSeen' /\ HandedIsReadable'
  BY <1>1, <1>3 DEF SInv, ReadsSeen, HandedIsReadable
<1> QED
  BY <1>6, <1>7 DEF SInv

\* What is handed on is the last of its name.
LEMMA HandOnSticky ==
    ASSUME TInv, SInv, HandOn
    PROVE  SInv'
<1> DEFINE to  == {s.caller : s \in Receivers(main.call, main.user)}
           new == [call |-> main.call, user |-> main.user, to |-> to]
<1>1. TypeOK /\ main.at = "hand" /\ main.call \in ServiceCalls /\ main.user \in Int
  BY DEF TInv, IInv, HandOn, TypeOK, MainStates, Idle
<1>2. UNCHANGED <<sticky, reads>> /\ main' = Idle /\ handed' = Append(handed, new)
  BY DEF HandOn, callVars
<1>3. new \in HandedOn
  BY <1>1 DEF HandedOn, TypeOK, Receivers
<1>4. /\ handed \in Seq(HandedOn) /\ Len(handed) \in Nat /\ DOMAIN handed = 1..Len(handed)
      /\ DOMAIN handed' = 1..Len(handed) + 1 /\ Len(handed') = Len(handed) + 1
      /\ \A i \in DOMAIN handed : handed'[i] = handed[i]
      /\ handed'[Len(handed) + 1].call = main.call
  BY <1>1, <1>2, <1>3, AppendFacts DEF TypeOK
<1>5. Idle.at # "hand"
  BY DEF Idle
<1>6. ASSUME NEW n \in Names, sticky[n] # None
      PROVE  \E k \in DOMAIN handed' : Latest(handed', k, n, sticky[n])
  <2>1. CASE IsSticky(main.call, n)
    <3>1. sticky[n] = main.call.id
      BY <1>1, <2>1 DEF SInv, KeptSticky
    <3>2. Latest(handed', Len(handed) + 1, n, sticky[n])
      BY <1>4, <2>1, <3>1 DEF Latest
    <3> QED
      BY <1>4, <3>2
  <2>2. CASE ~IsSticky(main.call, n)
    <3>1. PICK k \in DOMAIN handed : Latest(handed, k, n, sticky[n])
      BY <1>6, <2>2 DEF SInv, KeptSticky
    <3>2. k \in DOMAIN handed' /\ IsSticky(handed'[k].call, n) /\ handed'[k].call.id = sticky[n]
      BY <1>4, <3>1 DEF Latest
    <3>3. ASSUME NEW j \in DOMAIN handed', j > k PROVE ~IsSticky(handed'[j].call, n)
      <4>1. j \in DOMAIN handed \/ j = Len(handed) + 1
        BY <1>4
      <4>2. CASE j \in DOMAIN handed
        BY <1>4, <3>1, <3>3, <4>2 DEF Latest
      <4>3. CASE j = Len(handed) + 1
        BY <1>4, <2>2, <4>3
      <4> QED
        BY <4>1, <4>2, <4>3
    <3> QED
      BY <3>2, <3>3 DEF Latest
  <2> QED
    BY <2>1, <2>2
<1>7. KeptSticky'
  BY <1>2, <1>5, <1>6 DEF SInv, KeptSticky
<1>8. ReadsSeen'
  <2>1. \A r \in reads : r.seen \in 0..Len(handed)
    BY DEF SInv, ReadsSeen
  <2> QED
    BY <1>2, <1>4, <2>1 DEF ReadsSeen
<1>9. HandedIsReadable'
  <2> SUFFICES ASSUME NEW r \in reads, NEW i \in 1..r.seen,
                      handed'[i].call.sticky, handed'[i].call.name = r.name,
                      handed'[i].call.id # r.id, NEW j \in 1..i
               PROVE  handed'[j].call.id # r.id
    BY <1>2 DEF HandedIsReadable
  <2>1. r.seen \in 0..Len(handed)
    BY DEF SInv, ReadsSeen
  <2>2. i \in DOMAIN handed /\ j \in DOMAIN handed
    BY <1>4, <2>1
  <2>3. handed'[i] = handed[i] /\ handed'[j] = handed[j]
    BY <1>4, <2>2
  <2> QED
    BY <2>3 DEF SInv, HandedIsReadable
<1> QED
  BY <1>7, <1>8, <1>9 DEF SInv

LEMMA StickyStep ==
    ASSUME TInv, SInv, [Next]_vars
    PROVE  SInv'
<1>1. ASSUME NEW c \in Uids, BeginCall(c) PROVE SInv'
  BY <1>1, StickyKept DEF BeginCall, taskVars, innerVars
<1>2. ASSUME NEW c \in Uids, Post(c) PROVE SInv'
  BY <1>2, StickyKept DEF Post, innerVars
<1>3. ASSUME NEW c \in Uids, GetStickyCommonEvent(c) PROVE SInv'
  BY <1>3, GetStickySticky
<1>4. CASE RunTask
  BY <1>4, RunTaskSticky
<1>5. CASE HandOn
  BY <1>5, HandOnSticky
<1>6. CASE OnStart
  BY <1>6, StickyKept DEF OnStart, callVars, taskVars, innerVars
<1>7. ASSUME NEW c \in connections, Connected(c) PROVE SInv'
  BY <1>7, StickyKept DEF Connected, callVars, taskVars, innerVars
<1>8. CASE OnStop
  BY <1>8, StickyKept DEF OnStop, callVars, innerVars
<1>9. CASE Changes
  BY <1>9, StickyKept DEF Changes, PackageChanges, UserStarts, UserStops, Announce, taskVars, innerVars
<1>10. CASE Passes
  BY <1>10, StickyKept DEF Passes, callVars, taskVars, innerVars
<1>11. CASE UNCHANGED vars
  BY <1>11, StickyKept DEF vars, callVars, taskVars, innerVars
<1> QED
  BY <1>1, <1>2, <1>3, <1>4, <1>5, <1>6, <1>7, <1>8, <1>9, <1>10, <1>11 DEF Next, Work

\* A sticky event is read on a binder thread while the main thread replaces it,
\* before or after the publication is handed on: whoever reads it, nobody gets
\* an earlier event of the name once a later one has been handed on.
THEOREM HandedOnIsReadable == Spec => []HandedIsReadable
<1>1. Init => SInv
  BY StickyInit
<1>2. TInv /\ SInv /\ [Next]_vars => SInv'
  BY StickyStep
<1>3. SInv => HandedIsReadable
  BY DEF SInv
<1> QED
  BY <1>1, <1>2, <1>3, CallsAreInTurn, PTL DEF Spec

-----------------------------------------------------------------------------
(* Subscriptions *)

SubscriptionsOf(calls_, c) == {d \in calls_ : d.by = c /\ d.op \in {"subscribe", "unsubscribe"}}

StandingIn(p, calls_) ==
    {d \in calls_ : d.op = "subscribe" /\
                    \A o \in calls_ : o.op = "unsubscribe" => IndexIn(p, o) < IndexIn(p, d)}

\* The users that a set of subscriptions by c is for.
UsersOf(p, calls_, c) ==
    {CheckUserId(d, Caller[c].user) : d \in StandingIn(p, SubscriptionsOf(calls_, c))}

\* The registry has what stands of the subscriptions that were made.
SubscribersFollow ==
    \A c \in Uids : Caller[c].known =>
        \A u : [caller |-> c, user |-> u] \in subscribers <=> u \in UsersOf(plan, done, c)

EarlierIn(p, calls_, call) ==
    {d \in SubscriptionsOf(calls_, call.by) : IndexIn(p, d) < IndexIn(p, call)}

\* One publication was received as the calls before it say.
Follows(p, calls_, h) ==
    h.call.by \notin {PackageManager, AccountManager} /\ Caller[h.call.by].known =>
        (h.call.by \in h.to <=>
            \E d \in StandingIn(p, EarlierIn(p, calls_, h.call)) :
                CheckSubscriberByUserId(CheckUserId(d, Caller[h.call.by].user),
                                        IsSystem(h.call) /\ ~h.call.proxy, h.user))

RInv == SubscribersFollow /\ \A i \in DOMAIN handed : Follows(plan, done, handed[i])

LEMMA ReceiversInit == Init => RInv
BY DEF Init, RInv, SubscribersFollow, UsersOf, StandingIn, SubscriptionsOf

LEMMA ReceiversKept ==
    ASSUME RInv, UNCHANGED <<plan, subscribers, done, handed>>
    PROVE  RInv'
BY DEF RInv, SubscribersFollow

\* x comes after all that its caller has subscribed and unsubscribed.
IsNewest(p, calls_, x) ==
    \A d \in SubscriptionsOf(calls_, x.by) : IndexIn(p, d) < IndexIn(p, x)

\* A subscription that comes after all others stands with those that stood.
LEMMA SubscribedStands ==
    ASSUME NEW p, NEW calls_, NEW x, x.op = "subscribe", IsNewest(p, calls_, x)
    PROVE  StandingIn(p, SubscriptionsOf(calls_ \cup {x}, x.by)) =
               StandingIn(p, SubscriptionsOf(calls_, x.by)) \cup {x}
<1> DEFINE old == SubscriptionsOf(calls_, x.by)
<1>1. SubscriptionsOf(calls_ \cup {x}, x.by) = old \cup {x}
  BY DEF SubscriptionsOf
<1> HIDE DEF old
<1>2. \A d \in old : IndexIn(p, d) < IndexIn(p, x)
  BY DEF IsNewest, old
<1>3. StandingIn(p, old \cup {x}) = StandingIn(p, old) \cup {x}
  BY <1>2 DEF StandingIn
<1> QED
  BY <1>1, <1>3 DEF old

\* After an unsubscription that comes after all others none stands.
LEMMA UnsubscribedStandsNot ==
    ASSUME NEW p, NEW calls_, NEW x, x.op = "unsubscribe", IndexIn(p, x) \in Nat,
           \A d \in SubscriptionsOf(calls_, x.by) :
               IndexIn(p, d) < IndexIn(p, x) /\ IndexIn(p, d) \in Nat
    PROVE  StandingIn(p, SubscriptionsOf(calls_ \cup {x}, x.by)) = {}
<1> DEFINE new == SubscriptionsOf(calls_ \cup {x}, x.by)
<1>1. x \in new /\ \A d \in new : d \in SubscriptionsOf(calls_, x.by) \/ d = x
  BY DEF SubscriptionsOf
<1>2. \A d \in new : ~(IndexIn(p, x) < IndexIn(p, d))
  BY <1>1
<1> HIDE DEF new
<1> QED
  BY <1>1, <1>2 DEF StandingIn, new

\* What is done next about a caller comes after what was done about it, and
\* after what it published.
LEMMA NextSubscription ==
    ASSUME TInv, RunTask, Head(immediate \o low).op \in {"subscribe", "unsubscribe"}
    PROVE  LET x == Head(immediate \o low) IN
           /\ x.by \in Uids /\ IndexIn(plan, x) \in Nat
           /\ \A d \in SubscriptionsOf(done, x.by) :
                  IndexIn(plan, d) < IndexIn(plan, x) /\ IndexIn(plan, d) \in Nat
           /\ \A i \in DOMAIN handed :
                  handed[i].call.by = x.by /\ x.by \notin {PackageManager, AccountManager} =>
                      ~(IndexIn(plan, x) < IndexIn(plan, handed[i].call))
<1> DEFINE x == Head(immediate \o low)
<1>1. x \in PlannedIn(plan) /\ plan \in Plans
  BY TaskIsNext DEF InLow, Comes, TInv, Coming
<1>2. x.by \in Uids /\ IndexIn(plan, x) \in Nat
  BY <1>1, IndexFacts
<1>3. ASSUME NEW d \in SubscriptionsOf(done, x.by)
      PROVE  IndexIn(plan, d) < IndexIn(plan, x) /\ IndexIn(plan, d) \in Nat
  <2>1. d \in done /\ d.op \in InLow /\ d.by = x.by /\ d.op # "publish"
    BY DEF SubscriptionsOf, InLow
  <2>2. d \in PlannedIn(plan)
    BY <2>1 DEF TInv, Coming, Comes
  <2>3. Before(plan, d, x)
    BY <2>1, TaskIsNext DEF InLow
  <2> QED
    BY <1>1, <2>1, <2>2, <2>3, IndexFacts DEF Before
<1>4. ASSUME NEW i \in DOMAIN handed, handed[i].call.by = x.by,
             x.by \notin {PackageManager, AccountManager}
      PROVE  ~(IndexIn(plan, x) < IndexIn(plan, handed[i].call))
  <2>1. handed[i].call \in done /\ handed[i].call.op \in InLow
    BY DEF TInv, Coming, InLow
  <2>2. handed[i].call \in PlannedIn(plan)
    BY <1>4, <2>1 DEF TInv, Coming, Comes
  <2>3. Before(plan, handed[i].call, x)
    BY <2>1, TaskIsNext DEF InLow
  <2>4. IndexIn(plan, handed[i].call) < IndexIn(plan, x) /\ IndexIn(plan, handed[i].call) \in Nat
    BY <1>1, <1>4, <2>2, <2>3, IndexFacts DEF Before
  <2>5. \A a, b \in Nat : a < b => ~(b < a)
    OBVIOUS
  <2> QED
    BY <1>2, <2>4, <2>5
<1> QED
  BY <1>2, <1>3, <1>4

\* What is executed does not change what was received before.
LEMMA FollowsKept ==
    ASSUME NEW p, NEW calls_, NEW h, NEW x, Follows(p, calls_, h),
           \/ x.op \notin {"subscribe", "unsubscribe"}
           \/ h.call.by # x.by
           \/ h.call.by \notin {PackageManager, AccountManager} =>
                  ~(IndexIn(p, x) < IndexIn(p, h.call))
    PROVE  Follows(p, calls_ \cup {x}, h)
<1>1. CASE h.call.by \in {PackageManager, AccountManager}
  BY <1>1 DEF Follows
<1>2. CASE h.call.by \notin {PackageManager, AccountManager}
  <2>1. EarlierIn(p, calls_ \cup {x}, h.call) = EarlierIn(p, calls_, h.call)
    BY <1>2 DEF EarlierIn, SubscriptionsOf
  <2> QED
    BY <2>1 DEF Follows
<1> QED
  BY <1>1, <1>2

\* The registry changes with what is done.
LEMMA RunTaskReceivers ==
    ASSUME TInv, RInv, RunTask
    PROVE  RInv'
<1> DEFINE x == Head(immediate \o low)
<1>1. UNCHANGED plan /\ main = Idle /\ Execute(x)
  BY DEF RunTask, callVars
<1>2. x \in ServiceCalls
  BY HeadOfTwo DEF TInv, IInv, TypeOK, RunTask
<1>3. UNCHANGED handed
  BY <1>1, <1>2, ExecuteFacts
<1>4. x.by \in Uids
  BY <1>2 DEF ServiceCalls
<1> DEFINE Others == \A c \in Uids \ {x.by} : \A u :
                        [caller |-> c, user |-> u] \in subscribers' <=> [caller |-> c, user |-> u] \in subscribers
<1>5. \/ UNCHANGED <<subscribers, done>>
      \/ done' = done \cup {x} /\ UNCHANGED subscribers /\ x.op \notin {"subscribe", "unsubscribe"}
      \/ /\ x.op = "unsubscribe" /\ done' = done \cup {x}
         /\ subscribers' = {s \in subscribers : s.caller # x.by}
      \/ /\ x.op = "subscribe" /\ done' = done \cup {x}
         /\ \E own \in OwnUser(x) :
                subscribers' = subscribers \cup {[caller |-> x.by, user |-> CheckUserId(x, own)]}
  <2>1. ASSUME NEW own \in OwnUser(x), InnerPublishCommonEvent(x, CheckUserId(x, own))
        PROVE  UNCHANGED <<subscribers, done>>
    BY <2>1 DEF InnerPublishCommonEvent
  <2>2. ASSUME NEW own \in OwnUser(x), InnerSubscribeCommonEvent(x, CheckUserId(x, own))
        PROVE  \/ UNCHANGED <<subscribers, done>>
               \/ /\ x.op = "subscribe" /\ done' = done \cup {x}
                  /\ subscribers' = subscribers \cup {[caller |-> x.by, user |-> CheckUserId(x, own)]}
    BY <2>2 DEF InnerSubscribeCommonEvent, Executed
  <2>3. CASE InnerUnsubscribeCommonEvent(x)
    BY <2>3 DEF InnerUnsubscribeCommonEvent, Executed
  <2>4. CASE InnerFreeze(x)
    BY <2>4 DEF InnerFreeze, Executed
  <2> QED
    BY <1>1, <2>1, <2>2, <2>3, <2>4 DEF Execute
<1>6. CASE UNCHANGED <<subscribers, done>>
  BY <1>1, <1>3, <1>6, ReceiversKept
<1>7. CASE done' = done \cup {x}
  <2>1. \A i \in DOMAIN handed : Follows(plan, done', handed[i])
    <3> SUFFICES ASSUME NEW i \in DOMAIN handed PROVE Follows(plan, done \cup {x}, handed[i])
      BY <1>7
    <3>1. Follows(plan, done, handed[i])
      BY DEF RInv
    <3>2. CASE x.op \notin {"subscribe", "unsubscribe"}
      BY <3>1, <3>2, FollowsKept
    <3>3. CASE x.op \in {"subscribe", "unsubscribe"}
      BY <3>1, <3>3, NextSubscription, FollowsKept
    <3> QED
      BY <3>2, <3>3
  <2>2. ASSUME NEW c \in Uids, c # x.by \/ x.op \notin {"subscribe", "unsubscribe"}
        PROVE  UsersOf(plan, done', c) = UsersOf(plan, done, c)
    <3>1. SubscriptionsOf(done', c) = SubscriptionsOf(done, c)
      BY <1>7, <2>2 DEF SubscriptionsOf
    <3> QED
      BY <3>1 DEF UsersOf
  <2>3. \A c \in Uids : Caller[c].known =>
            \A u : [caller |-> c, user |-> u] \in subscribers <=> u \in UsersOf(plan, done, c)
    BY DEF RInv, SubscribersFollow
  <2>4. \A c \in Uids : Caller[c].known =>
            \A u : [caller |-> c, user |-> u] \in subscribers' <=> u \in UsersOf(plan, done', c)
    <3>1. CASE UNCHANGED subscribers /\ x.op \notin {"subscribe", "unsubscribe"}
      BY <2>2, <2>3, <3>1
    <3>2. CASE x.op = "unsubscribe" /\ subscribers' = {s \in subscribers : s.caller # x.by}
      <4> SUFFICES ASSUME NEW c \in Uids, Caller[c].known, NEW u
                   PROVE  [caller |-> c, user |-> u] \in subscribers' <=> u \in UsersOf(plan, done', c)
        OBVIOUS
      <4>1. CASE c # x.by
        BY <2>2, <2>3, <3>2, <4>1
      <4>2. CASE c = x.by
        <5>1. StandingIn(plan, SubscriptionsOf(done', c)) = {}
          BY <1>7, <3>2, <4>2, NextSubscription, UnsubscribedStandsNot
        <5> QED
          BY <3>2, <4>2, <5>1 DEF UsersOf
      <4> QED
        BY <4>1, <4>2
    <3>3. ASSUME x.op = "subscribe", NEW own \in OwnUser(x),
                 subscribers' = subscribers \cup {[caller |-> x.by, user |-> CheckUserId(x, own)]},
                 NEW c \in Uids, Caller[c].known, NEW u
          PROVE  [caller |-> c, user |-> u] \in subscribers' <=> u \in UsersOf(plan, done', c)
      <4>1. CASE c # x.by
        BY <2>2, <2>3, <3>3, <4>1
      <4>2. CASE c = x.by
        <5>1. own = Caller[c].user
          BY <3>3, <4>2 DEF OwnUser
        <5>2. StandingIn(plan, SubscriptionsOf(done', c)) = StandingIn(plan, SubscriptionsOf(done, c)) \cup {x}
          <6>1. x.op = "subscribe"
            BY <3>3
          <6>2. IsNewest(plan, done, x)
            BY <3>3, NextSubscription DEF IsNewest
          <6> HIDE DEF x
          <6>3. StandingIn(plan, SubscriptionsOf(done \cup {x}, x.by)) =
                    StandingIn(plan, SubscriptionsOf(done, x.by)) \cup {x}
            BY ONLY <6>1, <6>2, SubscribedStands
          <6> QED
            BY <1>7, <4>2, <6>3
        <5>3. UsersOf(plan, done', c) = UsersOf(plan, done, c) \cup {CheckUserId(x, Caller[c].user)}
          BY <5>2 DEF UsersOf
        <5>4. [caller |-> c, user |-> u] \in subscribers' <=>
                  [caller |-> c, user |-> u] \in subscribers \/ u = CheckUserId(x, own)
          BY <3>3, <4>2
        <5> QED
          BY <2>3, <3>3, <5>1, <5>3, <5>4
      <4> QED
        BY <4>1, <4>2
    <3> QED
      BY <1>5, <1>7, <2>2, <2>3, <3>1, <3>2, <3>3
  <2> QED
    BY <1>1, <1>3, <2>1, <2>4 DEF RInv, SubscribersFollow
<1> QED
  BY <1>5, <1>6, <1>7

\* The snapshot of the receivers is that of the registry.
LEMMA HandOnReceivers ==
    ASSUME TInv, RInv, HandOn
    PROVE  RInv'
<1> DEFINE call == main.call
           to  == {s.caller : s \in Receivers(call, main.user)}
           new == [call |-> call, user |-> main.user, to |-> to]
<1>1. TypeOK /\ main.at = "hand" /\ call \in ServiceCalls /\ main.user \in Int
  BY DEF TInv, IInv, HandOn, TypeOK, MainStates, Idle
<1>2. /\ UNCHANGED <<plan, subscribers>> /\ done' = done \cup {call}
      /\ handed' = Append(handed, new)
  BY DEF HandOn, callVars, Executed
<1>3. new \in HandedOn
  BY <1>1 DEF HandedOn, TypeOK, Receivers
<1>4. /\ handed \in Seq(HandedOn) /\ DOMAIN handed = 1..Len(handed)
      /\ DOMAIN handed' = 1..Len(handed) + 1
      /\ \A i \in DOMAIN handed : handed'[i] = handed[i]
      /\ handed'[Len(handed) + 1] = new
  BY <1>1, <1>2, <1>3, AppendFacts DEF TypeOK
<1>5. call.op = "publish" /\ Comes(plan, changes, call) /\ plan \in Plans
  BY <1>1 DEF TInv, Coming
<1>6. \A c \in Uids : SubscriptionsOf(done', c) = SubscriptionsOf(done, c)
  BY <1>2, <1>5 DEF SubscriptionsOf
<1>7. SubscribersFollow'
  BY <1>2, <1>6 DEF RInv, SubscribersFollow, UsersOf
<1>8. ASSUME NEW i \in DOMAIN handed PROVE Follows(plan, done', handed[i])
  BY <1>2, <1>5, FollowsKept DEF RInv
<1>9. Follows(plan, done', new)
  <2> SUFFICES ASSUME call.by \notin {PackageManager, AccountManager}, Caller[call.by].known
               PROVE  call.by \in to <=>
                          \E d \in StandingIn(plan, EarlierIn(plan, done', call)) :
                              CheckSubscriberByUserId(CheckUserId(d, Caller[call.by].user),
                                                      IsSystem(call) /\ ~call.proxy, main.user)
    BY DEF Follows
  <2>1. call.by \in Uids /\ call \in PlannedIn(plan)
    BY <1>1, <1>5 DEF ServiceCalls, Comes
  <2>2. EarlierIn(plan, done', call) = SubscriptionsOf(done, call.by)
    <3>1. ASSUME NEW d \in SubscriptionsOf(done, call.by)
          PROVE  IndexIn(plan, d) < IndexIn(plan, call)
      <4>1. d \in done /\ d.op \in InLow /\ d.by = call.by /\ d.op # "publish"
        BY DEF SubscriptionsOf, InLow
      <4>2. d \in PlannedIn(plan)
        BY <4>1 DEF TInv, Coming, Comes
      <4>3. Before(plan, d, call)
        BY <1>1, <4>1 DEF TInv, InTurn, DoneInTurn
      <4> QED
        BY <2>1, <4>1, <4>2, <4>3 DEF Before
    <3> QED
      BY <1>6, <2>1, <3>1 DEF EarlierIn
  <2>3. call.by \in to <=> \E u : /\ [caller |-> call.by, user |-> u] \in subscribers
                                  /\ CheckSubscriberByUserId(u, IsSystem(call) /\ ~call.proxy, main.user)
    <3>1. \A s \in subscribers : s = [caller |-> s.caller, user |-> s.user]
      BY <1>1 DEF TypeOK
    <3> QED
      BY <3>1 DEF Receivers
  <2>4. \A u : [caller |-> call.by, user |-> u] \in subscribers <=> u \in UsersOf(plan, done, call.by)
    BY <2>1 DEF RInv, SubscribersFollow
  <2> QED
    BY <2>2, <2>3, <2>4 DEF UsersOf
<1>10. ASSUME NEW i \in DOMAIN handed' PROVE Follows(plan, done', handed'[i])
  <2>1. i \in DOMAIN handed \/ i = Len(handed) + 1
    BY <1>4
  <2>2. CASE i \in DOMAIN handed
    BY <1>4, <1>8, <2>2
  <2>3. CASE i = Len(handed) + 1
    BY <1>4, <1>9, <2>3
  <2> QED
    BY <2>1, <2>2, <2>3
<1> QED
  BY <1>2, <1>7, <1>10 DEF RInv

LEMMA ReceiversStep ==
    ASSUME TInv, RInv, [Next]_vars
    PROVE  RInv'
<1>1. ASSUME NEW c \in Uids, BeginCall(c) PROVE RInv'
  BY <1>1, ReceiversKept DEF BeginCall, taskVars, innerVars
<1>2. ASSUME NEW c \in Uids, Post(c) PROVE RInv'
  BY <1>2, ReceiversKept DEF Post, innerVars
<1>3. ASSUME NEW c \in Uids, GetStickyCommonEvent(c) PROVE RInv'
  BY <1>3, ReceiversKept DEF GetStickyCommonEvent, taskVars, innerVars
<1>4. CASE RunTask
  BY <1>4, RunTaskReceivers
<1>5. CASE HandOn
  BY <1>5, HandOnReceivers
<1>6. CASE OnStart
  BY <1>6, ReceiversKept DEF OnStart, callVars, taskVars, innerVars
<1>7. ASSUME NEW c \in connections, Connected(c) PROVE RInv'
  BY <1>7, ReceiversKept DEF Connected, callVars, taskVars, innerVars
<1>8. CASE OnStop
  BY <1>8, ReceiversKept DEF OnStop, callVars, innerVars
<1>9. CASE Changes
  BY <1>9, ReceiversKept DEF Changes, PackageChanges, UserStarts, UserStops, Announce, taskVars, innerVars
<1>10. CASE Passes
  BY <1>10, ReceiversKept DEF Passes, callVars, taskVars, innerVars
<1>11. CASE UNCHANGED vars
  BY <1>11, ReceiversKept DEF vars, callVars, taskVars, innerVars
<1> QED
  BY <1>1, <1>2, <1>3, <1>4, <1>5, <1>6, <1>7, <1>8, <1>9, <1>10, <1>11 DEF Next, Work

\* Subscriptions, unsubscriptions and publications are answered before they are
\* done, freezes overtake them and a stop loses some: still a publication is
\* received by its own publisher exactly when a subscription that stands among
\* the calls made before it says so.
THEOREM ReceiversAsCalled == Spec => []ReceiversFollowCalls
<1>1. Init => RInv
  BY ReceiversInit
<1>2. TInv /\ RInv /\ [Next]_vars => RInv'
  BY ReceiversStep
<1>3. RInv => ReceiversFollowCalls
  <2>1. \A call : CallIndex(call) = IndexIn(plan, call)
    BY DEF CallIndex, IndexIn
  <2>2. \A call : SubscriptionsBefore(call) = EarlierIn(plan, done, call)
    BY <2>1 DEF SubscriptionsBefore, EarlierIn, SubscriptionsOf
  <2>3. \A calls_ : Standing(calls_) = StandingIn(plan, calls_)
    BY <2>1 DEF Standing, StandingIn
  <2> QED
    BY <2>2, <2>3 DEF RInv, Follows, ReceiversFollowCalls
<1> QED
  BY <1>1, <1>2, <1>3, CallsAreInTurn, PTL DEF Spec
-----------------------------------------------------------------------------
(* Static subscribers.  An extension is connected once for a publication   *)
(* because nothing makes the table name it twice, and because an id is     *)
(* executed once: what was connected is never asked for again.             *)

Entries == [bundle : Bundles, user : Users, permission : Permissions]

\* The table names an extension at most once for a name.
IsTable(table) ==
    /\ table \in [Names -> Seq(Entries)]
    /\ \A n \in Names : IsInjective(table[n])

StaticTypeOK ==
    /\ active \subseteq Users /\ IsTable(validSubscribers)
    /\ connected \in Seq([to : Entries, event : Nat])

\* What the bundle manager found, as a sequence.
LEMMA SetToSeqFacts ==
    ASSUME NEW T, IsFiniteSet(T)
    PROVE  /\ SetToSeq(T) \in Seq(T) /\ ToSet(SetToSeq(T)) = T
           /\ IsInjective(SetToSeq(T))
<1>1. PICK f \in Bijection(1..Cardinality(T), T) : TRUE
  BY FS_CardinalityType DEF ExistsBijection
<1>2. f \in [1..Cardinality(T) -> T] /\ IsInjective(f)
  BY <1>1 DEF Bijection, Injection, Surjection, IsInjective
<1>3. SetToSeq(T) \in [1..Cardinality(T) -> T] /\ IsInjective(SetToSeq(T))
  BY <1>2 DEF SetToSeq
<1>4. Cardinality(T) \in Nat
  BY FS_CardinalityType
<1>5. ToSet(SetToSeq(T)) = T
  <2> DEFINE n == Cardinality(T)
             g == SetToSeq(T)
  <2>1. g \in Injection(1..n, T)
    BY <1>3 DEF Injection, IsInjective
  <2>2. Cardinality(1..n) = n
    BY <1>4, FS_Interval
  <2>3. g \in Surjection(1..n, T)
    BY <2>1, <2>2, FS_Injection
  <2> QED
    BY <2>3 DEF Surjection, ToSet
<1> QED
  BY <1>3, <1>4, <1>5

\* Sequences without a common element, one after the other.
LEMMA JoinFacts ==
    ASSUME NEW S, NEW s \in Seq(S), NEW t \in Seq(S), IsInjective(s), IsInjective(t),
           \A i \in DOMAIN s : \A j \in DOMAIN t : s[i] # t[j]
    PROVE  s \o t \in Seq(S) /\ IsInjective(s \o t)
<1>1. /\ s \o t \in Seq(S) /\ Len(s) \in Nat /\ Len(t) \in Nat
      /\ DOMAIN s = 1..Len(s) /\ DOMAIN t = 1..Len(t) /\ DOMAIN (s \o t) = 1..Len(s) + Len(t)
  OBVIOUS
<1>2. \A i \in 1..Len(s) + Len(t) : (s \o t)[i] = IF i <= Len(s) THEN s[i] ELSE t[i - Len(s)]
  OBVIOUS
<1> DEFINE u == s \o t
           n == Len(s)
           m == Len(t)
<1>3. \A i \in 1..n + m : u[i] = IF i <= n THEN s[i] ELSE t[i - n]
  BY <1>2
<1>4. DOMAIN u = 1..n + m /\ n \in Nat /\ m \in Nat /\ DOMAIN s = 1..n /\ DOMAIN t = 1..m
  BY <1>1
<1> HIDE DEF u, n, m
<1>5. ASSUME NEW i \in 1..n + m, NEW j \in 1..n + m, u[i] = u[j]
      PROVE  i = j
  <2>1. CASE i <= n /\ j <= n
    BY <1>3, <1>4, <1>5, <2>1 DEF IsInjective
  <2>2. CASE ~(i <= n) /\ ~(j <= n)
    <3>1. i - n \in 1..m /\ j - n \in 1..m /\ u[i] = t[i - n] /\ u[j] = t[j - n]
      BY <1>3, <1>4, <2>2
    <3>2. i - n = j - n
      BY <1>4, <1>5, <3>1 DEF IsInjective
    <3> QED
      BY <1>4, <3>2
  <2>3. CASE i <= n /\ ~(j <= n)
    <3>1. i \in DOMAIN s /\ j - n \in DOMAIN t /\ u[i] = s[i] /\ u[j] = t[j - n]
      BY <1>3, <1>4, <2>3
    <3> QED
      BY <1>5, <3>1
  <2>4. CASE ~(i <= n) /\ j <= n
    <3>1. j \in DOMAIN s /\ i - n \in DOMAIN t /\ u[j] = s[j] /\ u[i] = t[i - n]
      BY <1>3, <1>4, <2>4
    <3> QED
      BY <1>5, <3>1
  <2> QED
    BY <2>1, <2>2, <2>3, <2>4
<1>6. IsInjective(u)
  BY <1>4, <1>5 DEF IsInjective
<1> QED
  BY <1>1, <1>6 DEF u

\* What one sequence after the other has.
LEMMA JoinHas ==
    ASSUME NEW S, NEW s \in Seq(S), NEW t \in Seq(S)
    PROVE  ToSet(s \o t) = ToSet(s) \cup ToSet(t)
<1>1. /\ Len(s) \in Nat /\ Len(t) \in Nat
      /\ DOMAIN s = 1..Len(s) /\ DOMAIN t = 1..Len(t) /\ DOMAIN (s \o t) = 1..Len(s) + Len(t)
  OBVIOUS
<1>2. \A i \in 1..Len(s) + Len(t) : (s \o t)[i] = IF i <= Len(s) THEN s[i] ELSE t[i - Len(s)]
  OBVIOUS
<1> DEFINE u == s \o t
           n == Len(s)
           m == Len(t)
<1>3. /\ \A i \in 1..n + m : u[i] = IF i <= n THEN s[i] ELSE t[i - n]
      /\ DOMAIN u = 1..n + m /\ n \in Nat /\ m \in Nat /\ DOMAIN s = 1..n /\ DOMAIN t = 1..m
  BY <1>1, <1>2
<1> HIDE DEF u, n, m
<1>4. ASSUME NEW i \in DOMAIN u PROVE u[i] \in ToSet(s) \cup ToSet(t)
  <2>1. CASE i <= n
    BY <1>3, <2>1 DEF ToSet
  <2>2. CASE ~(i <= n)
    <3>1. i - n \in DOMAIN t /\ u[i] = t[i - n]
      BY <1>3, <2>2
    <3> QED
      BY <3>1 DEF ToSet
  <2> QED
    BY <2>1, <2>2
<1>5. ASSUME NEW i \in DOMAIN s PROVE s[i] \in ToSet(u)
  <2>1. i \in DOMAIN u /\ u[i] = s[i]
    BY <1>3
  <2> QED
    BY <2>1 DEF ToSet
<1>6. ASSUME NEW j \in DOMAIN t PROVE t[j] \in ToSet(u)
  <2>1. n + j \in DOMAIN u /\ ~(n + j <= n) /\ n + j - n = j
    BY <1>3
  <2>2. u[n + j] = t[j]
    BY <1>3, <2>1
  <2> QED
    BY <2>1, <2>2 DEF ToSet
<1>7. ToSet(u) = ToSet(s) \cup ToSet(t)
  BY <1>4, <1>5, <1>6 DEF ToSet
<1> QED
  BY <1>7 DEF u

LEMMA EntriesFinite == IsFiniteSet(Entries)
<1> DEFINE S == Bundles \X (Users \X Permissions)
           f == [e \in Entries |-> <<e.bundle, <<e.user, e.permission>>>>]
<1>1. IsFiniteSet(S)
  <2>1. IsFiniteSet(Users \X Permissions)
    BY FS_Product, StaticAssumption
  <2> QED
    BY <2>1, FS_Product, StaticAssumption
<1>2. f \in Injection(Entries, S)
  <2>1. f \in [Entries -> S]
    BY DEF Entries
  <2>2. ASSUME NEW d \in Entries, NEW e \in Entries, f[d] = f[e]
        PROVE  d = e
    BY <2>2 DEF Entries
  <2> QED
    BY <2>1, <2>2 DEF Injection, IsInjective
<1> QED
  BY <1>1, <1>2, FS_Injection

\* Nothing is added that is there.
LEMMA AddedFacts ==
    ASSUME NEW s \in Seq(Entries), IsInjective(s), NEW found, found \subseteq Entries
    PROVE  /\ AddToValidSubscribers(s, found) \in Seq(Entries)
           /\ IsInjective(AddToValidSubscribers(s, found))
           /\ ToSet(AddToValidSubscribers(s, found)) = ToSet(s) \cup found
<1> DEFINE T == found \ ToSet(s)
           t == SetToSeq(T)
<1>1. IsFiniteSet(Entries)
  BY EntriesFinite
<1>2. IsFiniteSet(T)
  <2>1. T \in SUBSET Entries
    OBVIOUS
  <2> QED
    BY <1>1, <2>1, FS_Subset
<1>3. t \in Seq(T) /\ IsInjective(t) /\ ToSet(t) = T
  BY <1>2, SetToSeqFacts
<1> HIDE DEF t
<1>4. \A j \in DOMAIN t : t[j] \in T
  BY <1>3
<1>5. t \in Seq(Entries)
  BY <1>3
<1>6. \A i \in DOMAIN s : \A j \in DOMAIN t : s[i] # t[j]
  BY <1>4 DEF ToSet
<1>7. ToSet(s \o t) = ToSet(s) \cup found
  BY <1>3, <1>5, JoinHas
<1> QED
  BY <1>3, <1>5, <1>6, <1>7, JoinFacts DEF AddToValidSubscribers, t

\* A fill, or an addition, keeps a table a table.
LEMMA AddAllFacts ==
    ASSUME NEW table, IsTable(table), NEW extensions
    PROVE  IsTable(AddAll(table, extensions))
<1> SUFFICES ASSUME NEW n \in Names
             PROVE  /\ AddSubscribers(table[n], n, extensions) \in Seq(Entries)
                    /\ IsInjective(AddSubscribers(table[n], n, extensions))
  BY DEF AddAll, IsTable
<1>1. table[n] \in Seq(Entries) /\ IsInjective(table[n])
  BY DEF IsTable
<1>2. Declared(n, extensions) \subseteq Entries
  BY StaticAssumption DEF Declared, Entries
<1> QED
  BY <1>1, <1>2, AddedFacts DEF AddSubscribers

\* So does a removal.
LEMMA RemoveFacts ==
    ASSUME NEW table, IsTable(table), NEW b, NEW u
    PROVE  IsTable(RemoveSubscriberWithBundleName(table, b, u))
<1> DEFINE left(n) == Selected(table[n], {s \in ToSet(table[n]) : Extension(s) # [bundle |-> b, user |-> u]})
<1> SUFFICES ASSUME NEW n \in Names
             PROVE  left(n) \in Seq(Entries) /\ IsInjective(left(n))
  BY DEF RemoveSubscriberWithBundleName, IsTable
<1>1. table[n] \in Seq(Entries) /\ IsInjective(table[n])
  BY DEF IsTable
<1> QED
  BY <1>1, SelectedFacts

LEMMA UpdateFacts ==
    ASSUME NEW table, IsTable(table), NEW e, NEW known, NEW answered
    PROVE  IsTable(UpdateSubscriber(table, e, known, answered))
<1> DEFINE added(t) == AddSubscriberWithBundleName(t, e.bundle, e.of, answered)
           removed == RemoveSubscriberWithBundleName(table, e.bundle, e.of)
<1>1. IsTable(removed)
  BY RemoveFacts
<1>2. ASSUME NEW t, IsTable(t) PROVE IsTable(added(t))
  BY <1>2, AddAllFacts DEF AddSubscriberWithBundleName
<1>3. IsTable(added(table)) /\ IsTable(added(removed))
  BY <1>1, <1>2
<1>4. UpdateSubscriber(table, e, known, answered) \in {table, added(table), removed, added(removed)}
  BY DEF UpdateSubscriber
<1> QED
  BY <1>1, <1>3, <1>4

\* What a publication does: the table stays a table, and each extension that
\* is connected is so once.
LEMMA StaticFacts ==
    ASSUME StaticTypeOK, NEW e, e.name \in Names, StaticPublishCommonEvent(e)
    PROVE  /\ active' \subseteq Users /\ IsTable(validSubscribers')
           /\ \E new \in Seq(Entries) :
                  /\ IsInjective(new)
                  /\ connected' = connected \o [i \in DOMAIN new |-> [to |-> new[i], event |-> e.id]]
<1>1. IsTable(NoSubscribers)
  BY DEF IsTable, NoSubscribers, IsInjective
<1>2. <<>> \in Seq(Entries) /\ IsInjective(<<>>)
  BY DEF IsInjective
<1>3. connected = connected \o [i \in DOMAIN <<>> |-> [to |-> <<>>[i], event |-> e.id]]
  <2>1. [i \in DOMAIN <<>> |-> [to |-> <<>>[i], event |-> e.id]] = <<>>
    OBVIOUS
  <2> QED
    BY <2>1 DEF StaticTypeOK
<1>4. CASE NoAllowList
  BY <1>2, <1>3, <1>4 DEF NoAllowList, StaticTypeOK, worldVars
<1>5. CASE NoExtensions(e)
  BY <1>1, <1>2, <1>3, <1>5 DEF NoExtensions, StaticTypeOK, worldVars
<1>6. CASE StaticPublish(e)
  <2>1. PICK answered \in Answered(Extensions(active)),
             known \in {TRUE, ~(MayFail /\ e.name \in PackageNames)} :
          LET fill    == FillsBefore(e.name)
              table   == UpdateSubscriber(
                             IF fill THEN AddAll(NoSubscribers, answered) ELSE validSubscribers,
                             e, known, answered)
              targets == Selected(table[e.name], {s \in ToSet(table[e.name]) : Receives(s, e)})
              incomplete == ~known \/ answered # Extensions(active)
          IN  /\ ~(fill /\ active = {})
              /\ \E reached \in Answered(ToSet(targets)) :
                  /\ hasInitAllowList' = TRUE /\ hasInitValidSubscribers' = TRUE
                  /\ validSubscribers' = table
                  /\ spoiled' = ((spoiled /\ ~fill) \/ incomplete)
                  /\ failures' = IF incomplete \/ reached # ToSet(targets) THEN failures + 1 ELSE failures
                  /\ ConnectAbility(targets, reached, e)
                  /\ UNCHANGED worldVars
    BY <1>6 DEF StaticPublish
  <2> DEFINE fill    == FillsBefore(e.name)
             before  == IF fill THEN AddAll(NoSubscribers, answered) ELSE validSubscribers
             table   == UpdateSubscriber(before, e, known, answered)
             targets == Selected(table[e.name], {s \in ToSet(table[e.name]) : Receives(s, e)})
  <2>2. PICK reached : /\ validSubscribers' = table
                       /\ ConnectAbility(targets, reached, e)
                       /\ UNCHANGED worldVars
    BY <2>1
  <2>4. IsTable(before)
    <3>1. IsTable(AddAll(NoSubscribers, answered))
      BY <1>1, AddAllFacts
    <3> QED
      BY <3>1 DEF StaticTypeOK
  <2>5. IsTable(table)
    <3> HIDE DEF before
    <3> QED
      BY <2>4, UpdateFacts
  <2> HIDE DEF table
  <2>6. targets \in Seq(Entries) /\ IsInjective(targets)
    <3>1. table[e.name] \in Seq(Entries) /\ IsInjective(table[e.name])
      BY <2>5 DEF IsTable
    <3> QED
      BY <3>1, SelectedFacts
  <2> HIDE DEF targets
  <2> DEFINE new == Selected(targets, reached)
  <2>7. new \in Seq(Entries) /\ IsInjective(new)
    BY <2>6, SelectedFacts
  <2>8. connected' = connected \o [i \in DOMAIN new |-> [to |-> new[i], event |-> e.id]]
    BY <2>2 DEF ConnectAbility
  <2>9. active' \subseteq Users
    BY <2>2 DEF worldVars, StaticTypeOK
  <2> HIDE DEF new
  <2> QED
    BY <2>2, <2>5, <2>7, <2>8, <2>9
<1> QED
  BY <1>4, <1>5, <1>6 DEF StaticPublishCommonEvent

-----------------------------------------------------------------------------
(* An id names one call, wherever it has got to *)

NotScripted(x, ss) == \A c \in Uids : \A i \in DOMAIN ss[c] : ss[c][i].id # x
NotPosted(x, bs) == \A c \in Uids : bs[c].at = "post" => bs[c].call.id # x
NotWaiting(x, l) == \A i \in DOMAIN l : l[i].id # x

OneEach ==
    /\ \A c, d \in Uids : \A i \in DOMAIN script[c] : \A j \in DOMAIN script[d] :
           script[c][i].id = script[d][j].id => c = d /\ i = j
    /\ \A c \in Uids : binder[c].at = "post" =>
           /\ NotScripted(binder[c].call.id, script)
           /\ \A d \in Uids : binder[d].at = "post" /\ binder[d].call.id = binder[c].call.id => c = d
    /\ \A i \in DOMAIN low : NotScripted(low[i].id, script) /\ NotPosted(low[i].id, binder)
    /\ \A i, j \in DOMAIN low : low[i].id = low[j].id => i = j

\* An id is that of a call of the plan, or the number of a change that was made.
Asked(p, n, x) == x \in 1..n \/ \E call \in PlannedIn(p) : call.id = x

\* What extensions were started for is not asked for any more.
Gone ==
    \A i \in DOMAIN connected :
        /\ Asked(plan, changes, connected[i].event)
        /\ NotScripted(connected[i].event, script)
        /\ NotPosted(connected[i].event, binder)
        /\ NotWaiting(connected[i].event, low)

OInv == StaticTypeOK /\ OneEach /\ Gone /\ StartedOnce

LEMMA ComesIsAsked ==
    ASSUME NEW p, NEW n, NEW call, Comes(p, n, call)
    PROVE  Asked(p, n, call.id)
BY DEF Comes, Asked

\* The number of the next change is nobody's yet.
LEMMA NextIsFresh ==
    ASSUME NEW p \in Plans, NEW n \in Nat, n < p.changes, NEW x, Asked(p, n, x)
    PROVE  x # n + 1 /\ Asked(p, n + 1, x)
<1>1. p.changes \in Nat
  BY ServiceAssumption
<1>2. CASE x \in 1..n
  BY <1>2 DEF Asked
<1>3. ASSUME NEW call \in PlannedIn(p), call.id = x
      PROVE  x # n + 1
  <2>1. x \notin 1..p.changes
    BY <1>3, AnnouncedIsNotPlanned
  <2> QED
    BY <1>1, <2>1
<1> QED
  BY <1>2, <1>3 DEF Asked

LEMMA OnceInit == Init => OInv
<1> SUFFICES ASSUME Init PROVE OInv
  OBVIOUS
<1>1. StaticTypeOK
  BY DEF Init, StaticInit, StaticTypeOK, IsTable, NoSubscribers, IsInjective
<1>2. /\ low = <<>> /\ connected = <<>> /\ plan \in Plans /\ script = plan.calls
      /\ \A c \in Uids : binder[c].at # "post"
  BY DEF Init, StaticInit, Idle
<1>3. \A c, d \in Uids : \A i \in DOMAIN script[c] : \A j \in DOMAIN script[d] :
           script[c][i].id = script[d][j].id => c = d /\ i = j
  BY <1>2, CallsAssumption
<1>4. OneEach
  BY <1>2, <1>3 DEF OneEach
<1> QED
  BY <1>1, <1>2, <1>4 DEF OInv, Gone, StartedOnce

LEMMA OnceKept ==
    ASSUME OInv, UNCHANGED <<plan, changes, script, binder, low, validSubscribers, connected>>,
           active' \subseteq Users
    PROVE  OInv'
BY DEF OInv, StaticTypeOK, OneEach, Gone, StartedOnce

\* A call goes from the script to a binder thread.
LEMMA BeginCallOnce ==
    ASSUME TInv, OInv, NEW c \in Uids, BeginCall(c)
    PROVE  OInv'
<1>1. script \in [Uids -> Seq(ServiceCalls)] /\ binder \in [Uids -> BinderStates]
  BY DEF TInv, IInv, TypeOK
<1>2. script[c] # <<>> /\ script' = [script EXCEPT ![c] = Tail(script[c])]
  BY <1>1 DEF BeginCall
<1>3. /\ 1 \in DOMAIN script[c] /\ Head(script[c]) = script[c][1]
      /\ DOMAIN script[c] = 1..Len(script[c]) /\ DOMAIN Tail(script[c]) = 1..Len(script[c]) - 1
      /\ \A i \in DOMAIN Tail(script[c]) : i + 1 \in DOMAIN script[c] /\ Tail(script[c])[i] = script[c][i + 1]
  BY <1>1, <1>2, TailFacts
<1>4. UNCHANGED <<plan, changes, low, staticVars>>
  BY DEF BeginCall, taskVars
<1>5. UNCHANGED <<active, validSubscribers, connected>>
  BY <1>4 DEF staticVars, worldVars, tableVars
<1>6. \/ binder' = [binder EXCEPT ![c] = [at |-> "post", call |-> Head(script[c])]]
      \/ binder' = [binder EXCEPT ![c] = Idle]
  BY DEF BeginCall, Answer
<1>7. /\ \A d \in Uids : d # c => binder'[d] = binder[d] /\ script'[d] = script[d]
      /\ binder'[c].at = "post" => binder'[c].call = script[c][1]
      /\ script'[c] = Tail(script[c])
  BY <1>1, <1>2, <1>3, <1>6 DEF Idle
<1>8. \A d \in Uids : \A i \in DOMAIN script'[d] :
          IF d = c THEN i + 1 \in DOMAIN script[d] /\ script'[d][i] = script[d][i + 1]
                   ELSE i \in DOMAIN script[d] /\ script'[d][i] = script[d][i]
  BY <1>3, <1>7
<1>9. \A i \in DOMAIN script'[c] : i \in Int /\ i + 1 # 1
  BY <1>3, <1>7
<1>10. ASSUME NEW x, NotScripted(x, script) PROVE NotScripted(x, script')
  BY <1>8, <1>10 DEF NotScripted
<1>11. ASSUME NEW x, NotScripted(x, script), NotPosted(x, binder) PROVE NotPosted(x, binder')
  BY <1>3, <1>7, <1>11 DEF NotScripted, NotPosted
<1>12. ASSUME NEW d \in Uids, NEW e \in Uids, NEW i \in DOMAIN script'[d], NEW j \in DOMAIN script'[e],
              script'[d][i].id = script'[e][j].id
       PROVE  d = e /\ i = j
  <2> DEFINE k == IF d = c THEN i + 1 ELSE i
             l == IF e = c THEN j + 1 ELSE j
  <2>1. k \in DOMAIN script[d] /\ l \in DOMAIN script[e]
        /\ script'[d][i] = script[d][k] /\ script'[e][j] = script[e][l]
    BY <1>8
  <2>2. d = e /\ k = l
    <3> HIDE DEF k, l
    <3> QED
      BY <1>12, <2>1 DEF OInv, OneEach
  <2> QED
    BY <1>9, <2>2
<1>13. NotScripted(script[c][1].id, script')
  <2> SUFFICES ASSUME NEW d \in Uids, NEW i \in DOMAIN script'[d], script'[d][i].id = script[c][1].id
               PROVE  FALSE
    BY DEF NotScripted
  <2>1. CASE d = c
    <3>1. i + 1 \in DOMAIN script[c] /\ script[c][i + 1].id = script[c][1].id /\ i + 1 # 1
      BY <1>8, <1>9, <2>1
    <3> QED
      BY <1>3, <3>1 DEF OInv, OneEach
  <2>2. CASE d # c
    <3>1. i \in DOMAIN script[d] /\ script[d][i].id = script[c][1].id
      BY <1>8, <2>2
    <3> QED
      BY <1>3, <2>2, <3>1 DEF OInv, OneEach
  <2> QED
    BY <2>1, <2>2
<1>14. ASSUME NEW d \in Uids, binder'[d].at = "post"
       PROVE  /\ NotScripted(binder'[d].call.id, script')
              /\ \A e \in Uids : binder'[e].at = "post" /\ binder'[e].call.id = binder'[d].call.id => d = e
  <2>1. \A e \in Uids : e # c /\ binder'[e].at = "post" => binder'[e].call.id # script[c][1].id
    BY <1>3, <1>7 DEF OInv, OneEach, NotScripted
  <2>2. CASE d = c
    BY <1>7, <1>13, <1>14, <2>1, <2>2
  <2>3. CASE d # c
    <3>1. binder[d].at = "post" /\ binder'[d] = binder[d]
      BY <1>7, <1>14, <2>3
    <3>2. NotScripted(binder[d].call.id, script')
      BY <1>10, <3>1 DEF OInv, OneEach
    <3>3. ASSUME NEW e \in Uids, binder'[e].at = "post", binder'[e].call.id = binder'[d].call.id
          PROVE  d = e
      <4>1. e # c
        BY <1>7, <1>14, <2>1, <2>3, <3>3
      <4>2. binder'[e] = binder[e]
        BY <1>7, <4>1
      <4> QED
        BY <3>1, <3>3, <4>2 DEF OInv, OneEach
    <3> QED
      BY <3>1, <3>2, <3>3
  <2> QED
    BY <2>2, <2>3
<1>15. OneEach'
  BY <1>4, <1>10, <1>11, <1>12, <1>14 DEF OInv, OneEach
<1>16. Gone'
  BY <1>4, <1>5, <1>10, <1>11 DEF OInv, Gone
<1> QED
  BY <1>5, <1>15, <1>16 DEF OInv, StaticTypeOK, StartedOnce

\* A call leaves its binder thread.
LEMMA LeavesThread ==
    ASSUME TInv, OInv, NEW c \in Uids, binder[c].at = "post", binder' = [binder EXCEPT ![c] = Idle],
           UNCHANGED <<plan, changes, script, active, validSubscribers, connected>>,
           \/ UNCHANGED low
           \/ low' = Append(low, binder[c].call)
    PROVE  OInv'
<1> DEFINE call == binder[c].call
<1>1. /\ binder \in [Uids -> BinderStates] /\ low \in Seq(ServiceCalls) /\ Idle.at # "post"
  BY DEF TInv, IInv, TypeOK, Idle
<1>2. /\ \A d \in Uids : d # c => binder'[d] = binder[d]
      /\ binder'[c].at # "post"
  BY <1>1
<1>3. call \in ServiceCalls
  <2>1. binder[c] \in BinderStates
    BY <1>1
  <2> QED
    BY <2>1 DEF BinderStates, Idle
<1>4. /\ \A i \in DOMAIN low' :
             IF i \in DOMAIN low THEN low'[i] = low[i] ELSE low'[i] = call /\ i = Len(low) + 1
      /\ DOMAIN low = 1..Len(low) /\ Len(low) \in Nat
  <2>1. CASE UNCHANGED low
    BY <1>1, <2>1
  <2>2. CASE low' = Append(low, call)
    <3>1. /\ DOMAIN low' = 1..Len(low) + 1 /\ DOMAIN low = 1..Len(low) /\ Len(low) \in Nat
          /\ \A i \in DOMAIN low : low'[i] = low[i]
          /\ low'[Len(low) + 1] = call
      BY <1>1, <1>3, <2>2, AppendFacts
    <3>2. \A i \in 1..Len(low) + 1 : i \in 1..Len(low) \/ i = Len(low) + 1
      BY <3>1
    <3> QED
      BY <3>1, <3>2
  <2> QED
    BY <2>1, <2>2
<1>5. ASSUME NEW x, NotPosted(x, binder) PROVE NotPosted(x, binder')
  BY <1>2, <1>5 DEF NotPosted
<1>6. NotScripted(call.id, script) /\ NotPosted(call.id, binder')
  BY <1>2 DEF OInv, OneEach, NotPosted
<1>7. \A i \in DOMAIN low : low[i].id # call.id
  BY DEF OInv, OneEach, NotPosted
<1>8. \A d \in Uids : binder'[d].at = "post" => binder[d].at = "post" /\ binder'[d] = binder[d]
  BY <1>2
<1>9. OneEach'
  <2>1. \A d \in Uids : binder'[d].at = "post" =>
           /\ NotScripted(binder'[d].call.id, script)
           /\ \A e \in Uids : binder'[e].at = "post" /\ binder'[e].call.id = binder'[d].call.id => d = e
    BY <1>8 DEF OInv, OneEach
  <2>2. \A i \in DOMAIN low' : NotScripted(low'[i].id, script) /\ NotPosted(low'[i].id, binder')
    BY <1>4, <1>5, <1>6 DEF OInv, OneEach
  <2>3. ASSUME NEW i \in DOMAIN low', NEW j \in DOMAIN low', low'[i].id = low'[j].id
        PROVE  i = j
    BY <1>4, <1>7, <2>3 DEF OInv, OneEach
  <2>4. \A d, e \in Uids : \A i \in DOMAIN script[d] : \A j \in DOMAIN script[e] :
            script[d][i].id = script[e][j].id => d = e /\ i = j
    BY DEF OInv, OneEach
  <2>5. script' = script
    OBVIOUS
  <2> QED
    BY ONLY <2>1, <2>2, <2>3, <2>4, <2>5 DEF OneEach
<1>10. Gone'
  <2> SUFFICES ASSUME NEW k \in DOMAIN connected
               PROVE  NotPosted(connected[k].event, binder') /\ NotWaiting(connected[k].event, low')
    BY DEF OInv, Gone
  <2>1. NotPosted(connected[k].event, binder) /\ NotWaiting(connected[k].event, low)
    BY DEF OInv, Gone
  <2>2. call.id # connected[k].event
    BY <2>1 DEF NotPosted
  <2> QED
    BY <1>4, <1>5, <2>1, <2>2 DEF NotWaiting
<1> QED
  BY <1>9, <1>10 DEF OInv, StaticTypeOK, StartedOnce

LEMMA PostOnce ==
    ASSUME TInv, OInv, NEW c \in Uids, Post(c)
    PROVE  OInv'
<1>1. /\ binder[c].at = "post" /\ binder' = [binder EXCEPT ![c] = Idle]
      /\ UNCHANGED <<plan, changes, script, staticVars>>
  BY DEF Post, Answer
<1>2. UNCHANGED <<active, validSubscribers, connected>>
  BY <1>1 DEF staticVars, worldVars, tableVars
<1>3. UNCHANGED low \/ low' = Append(low, binder[c].call)
  BY DEF Post, PostTask
<1> QED
  BY <1>1, <1>2, <1>3, LeavesThread

LEMMA GetStickyOnce ==
    ASSUME TInv, OInv, NEW c \in Uids, GetStickyCommonEvent(c)
    PROVE  OInv'
<1>1. /\ binder[c].at = "post" /\ binder' = [binder EXCEPT ![c] = Idle]
      /\ UNCHANGED <<plan, changes, script, low, staticVars>>
  BY DEF GetStickyCommonEvent, Answer, taskVars
<1>2. UNCHANGED <<active, validSubscribers, connected>>
  BY <1>1 DEF staticVars, worldVars, tableVars
<1> QED
  BY <1>1, <1>2, LeavesThread

\* The tasks are lost.
LEMMA OnStopOnce ==
    ASSUME OInv, OnStop
    PROVE  OInv'
<1>1. /\ low' = <<>>
      /\ UNCHANGED <<plan, changes, script, binder, active, validSubscribers, connected>>
  BY DEF OnStop, callVars, worldVars
<1> QED
  BY <1>1 DEF OInv, StaticTypeOK, OneEach, Gone, StartedOnce, NotWaiting

\* The number of a change is new.
LEMMA AnnounceOnce ==
    ASSUME TInv, OInv, NEW c \in {PackageManager, AccountManager}, NEW about, Announce(c, about),
           about.name \in Names, about.bundle \in Bundles \cup {None}, about.of \in Users \cup {None},
           active' \subseteq Users, UNCHANGED <<validSubscribers, connected>>
    PROVE  OInv'
<1> DEFINE call == [op |-> "publish", by |-> c, id |-> changes', user |-> UNDEFINED_USER,
                    name |-> about.name, bundle |-> about.bundle, of |-> about.of,
                    sticky |-> FALSE, ordered |-> FALSE, last |-> FALSE, proxy |-> FALSE, token |-> c]
<1>1. c \in Uids /\ TypeOK /\ changes \in Nat /\ plan \in Plans
  BY ServiceAssumption DEF TInv, IInv, TypeOK, Coming
<1>2. /\ UNCHANGED <<plan, binder, low>>
      /\ changes' = changes + 1 /\ changes < plan.changes
      /\ script' = [script EXCEPT ![c] = Append(@, call)]
  BY DEF Announce, taskVars
<1>3. call \in ServiceCalls
  BY <1>1, <1>2 DEF ServiceCalls, UNDEFINED_USER
<1>4. /\ script[c] \in Seq(ServiceCalls) /\ Len(script[c]) \in Nat
      /\ DOMAIN script[c] = 1..Len(script[c]) /\ DOMAIN script'[c] = 1..Len(script[c]) + 1
      /\ \A i \in DOMAIN script[c] : script'[c][i] = script[c][i]
      /\ script'[c][Len(script[c]) + 1] = call
      /\ \A d \in Uids : d # c => script'[d] = script[d]
  BY <1>1, <1>2, <1>3, AppendFacts DEF TypeOK
<1>5. \A i \in DOMAIN script'[c] : i \in DOMAIN script[c] \/ i = Len(script[c]) + 1
  BY <1>4
<1>6. \A d \in Uids : \A i \in DOMAIN script'[d] :
          IF i \in DOMAIN script[d] THEN script'[d][i] = script[d][i]
          ELSE d = c /\ i = Len(script[c]) + 1 /\ script'[d][i].id = changes + 1
  BY <1>2, <1>4, <1>5
<1>7. ASSUME NEW x, Asked(plan, changes, x), NotScripted(x, script)
      PROVE  NotScripted(x, script')
  <2>1. x # changes + 1
    BY <1>1, <1>2, <1>7, NextIsFresh
  <2> QED
    BY <1>6, <1>7, <2>1 DEF NotScripted
<1>8. \A d \in Uids : \A i \in DOMAIN script[d] : script[d][i].id # changes + 1
  <2> SUFFICES ASSUME NEW d \in Uids, NEW i \in DOMAIN script[d] PROVE script[d][i].id # changes + 1
    OBVIOUS
  <2>1. Asked(plan, changes, script[d][i].id)
    BY ComesIsAsked DEF TInv, Coming, CallsOf
  <2> QED
    BY <1>1, <1>2, <2>1, NextIsFresh
<1>9. ASSUME NEW d \in Uids, NEW e \in Uids, NEW i \in DOMAIN script'[d], NEW j \in DOMAIN script'[e],
             script'[d][i].id = script'[e][j].id
      PROVE  d = e /\ i = j
  BY <1>6, <1>8, <1>9 DEF OInv, OneEach
<1>10. ASSUME NEW d \in Uids, binder[d].at = "post"
       PROVE  NotScripted(binder[d].call.id, script')
  <2>1. Asked(plan, changes, binder[d].call.id)
    BY <1>10, ComesIsAsked DEF TInv, Coming, CallsOf
  <2> QED
    BY <1>7, <1>10, <2>1 DEF OInv, OneEach
<1>11. ASSUME NEW i \in DOMAIN low
       PROVE  NotScripted(low[i].id, script')
  <2>1. Asked(plan, changes, low[i].id)
    BY ComesIsAsked DEF TInv, Coming
  <2> QED
    BY <1>7, <2>1 DEF OInv, OneEach
<1>12. OneEach'
  BY <1>2, <1>9, <1>10, <1>11 DEF OInv, OneEach
<1>13. Gone'
  <2> SUFFICES ASSUME NEW k \in DOMAIN connected
               PROVE  Asked(plan, changes + 1, connected[k].event) /\ NotScripted(connected[k].event, script')
    BY <1>2 DEF OInv, Gone
  <2>1. Asked(plan, changes, connected[k].event) /\ NotScripted(connected[k].event, script)
    BY DEF OInv, Gone
  <2> QED
    BY <1>1, <1>2, <1>7, <2>1, NextIsFresh
<1> QED
  BY <1>12, <1>13 DEF OInv, StaticTypeOK, StartedOnce

LEMMA ChangesOnce ==
    ASSUME TInv, OInv, Changes
    PROVE  OInv'
<1>1. STOPPED \in Names
  BY ServiceAssumption
<1>2. PackageNames \subseteq Names /\ FillNames \subseteq Names /\ active \subseteq Users
  BY StaticAssumption DEF OInv, StaticTypeOK
<1>3. ASSUME NEW b \in Bundles, NEW u \in Users, NEW events \in Profiles, PackageChanges(b, u, events)
      PROVE  OInv'
  <2>1. /\ PackageEvent(b, u, events).name \in Names
        /\ PackageEvent(b, u, events).bundle = b /\ PackageEvent(b, u, events).of = u
    BY <1>2 DEF PackageEvent, About, PackageNames
  <2>2. /\ Announce(PackageManager, PackageEvent(b, u, events))
        /\ UNCHANGED <<active, validSubscribers, connected>>
    BY <1>3 DEF PackageChanges, ChangePackage, tableVars
  <2> QED
    BY <1>2, <2>1, <2>2, AnnounceOnce
<1>4. ASSUME NEW u \in Users, UserStops(u)
      PROVE  OInv'
  <2>1. About(STOPPED, None, u).name = STOPPED /\ About(STOPPED, None, u).bundle = None
        /\ About(STOPPED, None, u).of = u
    BY DEF About
  <2>2. /\ Announce(AccountManager, About(STOPPED, None, u))
        /\ active' \subseteq Users /\ UNCHANGED <<validSubscribers, connected>>
    BY <1>2, <1>4 DEF UserStops, StopUser, tableVars
  <2> QED
    BY <1>1, <2>1, <2>2, AnnounceOnce
<1>5. ASSUME NEW u \in Users, NEW name \in FillNames, UserStarts(u, name)
      PROVE  OInv'
  <2>1. About(name, None, u).name = name /\ About(name, None, u).bundle = None
        /\ About(name, None, u).of = u
    BY DEF About
  <2>2. /\ Announce(AccountManager, About(name, None, u))
        /\ active' \subseteq Users /\ UNCHANGED <<validSubscribers, connected>>
    BY <1>2, <1>5 DEF UserStarts, StartUser, tableVars
  <2> QED
    BY <1>2, <2>1, <2>2, AnnounceOnce
<1> QED
  BY <1>3, <1>4, <1>5 DEF Changes

\* What a task does to the table and the connections.
LEMMA ExecuteOnce ==
    ASSUME StaticTypeOK, NEW call \in ServiceCalls, Execute(call)
    PROVE  /\ active' \subseteq Users /\ IsTable(validSubscribers')
           /\ \/ UNCHANGED connected
              \/ /\ call.op = "publish"
                 /\ \E new \in Seq(Entries) :
                        /\ IsInjective(new)
                        /\ connected' = connected \o [i \in DOMAIN new |-> [to |-> new[i], event |-> call.id]]
<1>1. ASSUME NEW own \in OwnUser(call), InnerPublishCommonEvent(call, CheckUserId(call, own))
      PROVE  call.op = "publish" /\
             \/ UNCHANGED <<active, validSubscribers, connected>>
             \/ \E e : /\ e.name \in Names /\ e.id = call.id
                       /\ StaticPublishCommonEvent(e)
  <2> DEFINE user == CheckUserId(call, own)
             e == [name |-> call.name, user |-> user, id |-> call.id,
                   bundle |-> call.bundle, of |-> call.of]
  <2>1. call.op = "publish"
    BY <1>1 DEF InnerPublishCommonEvent
  <2>2. CASE PublishAllowed(call, user)
    <3>1. call.name \in Names
      BY <2>2 DEF PublishAllowed, ServiceCalls
    <3>2. StaticPublishCommonEvent(e)
      BY <1>1, <2>2 DEF InnerPublishCommonEvent
    <3>3. e.name \in Names /\ e.id = call.id
      BY <3>1
    <3> HIDE DEF e
    <3> QED
      BY <2>1, <3>2, <3>3
  <2>3. CASE ~PublishAllowed(call, user)
    <3>1. UNCHANGED staticVars
      BY <1>1, <2>3 DEF InnerPublishCommonEvent
    <3> QED
      BY <2>1, <3>1 DEF staticVars, worldVars, tableVars
  <2> QED
    BY <2>2, <2>3
<1>2. ASSUME NEW own \in OwnUser(call), InnerSubscribeCommonEvent(call, CheckUserId(call, own))
      PROVE  UNCHANGED <<active, validSubscribers, connected>>
  BY <1>2 DEF InnerSubscribeCommonEvent, staticVars, worldVars, tableVars
<1>3. CASE InnerUnsubscribeCommonEvent(call) \/ InnerFreeze(call)
  BY <1>3 DEF InnerUnsubscribeCommonEvent, InnerFreeze, StaticTypeOK, staticVars, worldVars, tableVars
<1>4. CASE UNCHANGED <<active, validSubscribers, connected>>
  BY <1>4 DEF StaticTypeOK
<1>5. ASSUME call.op = "publish", NEW e, e.name \in Names, e.id = call.id, StaticPublishCommonEvent(e)
      PROVE  /\ active' \subseteq Users /\ IsTable(validSubscribers')
             /\ \E new \in Seq(Entries) :
                    /\ IsInjective(new)
                    /\ connected' = connected \o [i \in DOMAIN new |-> [to |-> new[i], event |-> call.id]]
  BY <1>5, StaticFacts
<1> QED
  BY <1>1, <1>2, <1>3, <1>4, <1>5 DEF Execute

\* Extensions are started for the task that was first in the queue, for whose
\* id none was started before.
LEMMA RunTaskOnce ==
    ASSUME TInv, OInv, RunTask
    PROVE  OInv'
<1> DEFINE call == Head(immediate \o low)
           S == [to : Entries, event : Nat]
<1>1. /\ low \in Seq(ServiceCalls) /\ immediate \in Seq(ServiceCalls)
      /\ UNCHANGED <<plan, changes, script, binder>> /\ Execute(call)
  BY DEF TInv, IInv, TypeOK, RunTask, callVars
<1>2. call \in ServiceCalls /\ call.id \in Nat
  <2>1. call \in ServiceCalls
    BY <1>1, HeadOfTwo DEF RunTask
  <2> QED
    BY <2>1 DEF ServiceCalls
<1>3. active' \subseteq Users /\ IsTable(validSubscribers')
  BY <1>1, <1>2, ExecuteOnce DEF OInv
<1>4. CASE immediate # <<>>
  <2>1. UNCHANGED low
    BY <1>4 DEF RunTask
  <2>2. call = immediate[1] /\ 1 \in DOMAIN immediate
    BY <1>1, <1>4
  <2>3. call.op # "publish"
    BY <2>2 DEF TInv, Coming, InLow
  <2>4. UNCHANGED connected
    BY <1>1, <1>2, <2>3, ExecuteOnce DEF OInv
  <2> QED
    BY <1>1, <1>3, <2>1, <2>4 DEF OInv, StaticTypeOK, OneEach, Gone, StartedOnce
<1>5. CASE immediate = <<>>
  <2>1. low # <<>> /\ low' = Tail(low)
    BY <1>5 DEF RunTask
  <2>2. immediate \o low = low
    BY <1>1, <1>5
  <2>3. /\ 1 \in DOMAIN low /\ call = low[1]
        /\ \A i \in DOMAIN low' : i \in Int /\ i + 1 # 1 /\ i + 1 \in DOMAIN low /\ low'[i] = low[i + 1]
    BY <1>1, <2>1, <2>2, TailFacts
  <2> HIDE DEF call
  <2>4. OneEach'
    <3>1. \A i \in DOMAIN low' : NotScripted(low'[i].id, script) /\ NotPosted(low'[i].id, binder)
      BY <2>3 DEF OInv, OneEach
    <3>2. ASSUME NEW i \in DOMAIN low', NEW j \in DOMAIN low', low'[i].id = low'[j].id
          PROVE  i = j
      <4>1. i + 1 = j + 1
        BY <2>3, <3>2 DEF OInv, OneEach
      <4> QED
        BY <2>3, <4>1
    <3> QED
      BY <1>1, <3>1, <3>2 DEF OInv, OneEach
  <2>5. /\ Asked(plan, changes, call.id)
        /\ NotScripted(call.id, script) /\ NotPosted(call.id, binder) /\ NotWaiting(call.id, low')
    <3>1. Asked(plan, changes, call.id)
      BY <2>3, ComesIsAsked DEF TInv, Coming
    <3>2. NotScripted(call.id, script) /\ NotPosted(call.id, binder)
      BY <2>3 DEF OInv, OneEach
    <3>3. NotWaiting(call.id, low')
      BY <2>3 DEF OInv, OneEach, NotWaiting
    <3> QED
      BY <3>1, <3>2, <3>3
  <2>6. \A i \in DOMAIN connected :
            /\ Asked(plan, changes, connected[i].event)
            /\ NotScripted(connected[i].event, script) /\ NotPosted(connected[i].event, binder)
            /\ NotWaiting(connected[i].event, low') /\ connected[i].event # call.id
    BY <2>3 DEF OInv, Gone, NotWaiting
  <2>7. CASE UNCHANGED connected
    <3>1. Gone'
      BY <1>1, <2>6, <2>7 DEF Gone
    <3> QED
      BY <1>3, <2>4, <2>7, <3>1 DEF OInv, StaticTypeOK, StartedOnce
  <2>8. ASSUME NEW new \in Seq(Entries), IsInjective(new),
               connected' = connected \o [i \in DOMAIN new |-> [to |-> new[i], event |-> call.id]]
        PROVE  OInv'
    <3> DEFINE t == [i \in DOMAIN new |-> [to |-> new[i], event |-> call.id]]
    <3>1. connected \in Seq(S) /\ IsInjective(connected)
      BY DEF OInv, StaticTypeOK, StartedOnce, IsInjective
    <3>2. \A i \in DOMAIN new : new[i] \in Entries
      OBVIOUS
    <3>3. t \in Seq(S) /\ DOMAIN t = DOMAIN new
      <4>1. DOMAIN new = 1..Len(new) /\ Len(new) \in Nat
        OBVIOUS
      <4>2. \A i \in DOMAIN new : [to |-> new[i], event |-> call.id] \in S
        BY <1>2, <3>2
      <4>3. t \in [DOMAIN new -> S]
        BY <4>2
      <4> HIDE DEF t, S
      <4>4. PICK n \in Nat : n = Len(new)
        BY <4>1
      <4>5. t \in [1..n -> S]
        BY <4>1, <4>3, <4>4
      <4>6. t \in Seq(S) /\ DOMAIN t = 1..n
        BY ONLY <4>4, <4>5
      <4> QED
        BY <4>1, <4>4, <4>6
    <3>4. IsInjective(t)
      <4> SUFFICES ASSUME NEW i \in DOMAIN new, NEW j \in DOMAIN new, t[i] = t[j] PROVE i = j
        BY <3>3 DEF IsInjective
      <4>1. t[i].to = new[i] /\ t[j].to = new[j]
        OBVIOUS
      <4> QED
        BY <2>8, <4>1 DEF IsInjective
    <3>5. \A j \in DOMAIN t : t[j].event = call.id
      BY <3>3
    <3> HIDE DEF t
    <3>6. \A i \in DOMAIN connected : \A j \in DOMAIN t : connected[i] # t[j]
      BY <2>6, <3>5
    <3> HIDE DEF S
    <3>7. connected' \in Seq(S) /\ IsInjective(connected')
      BY <2>8, <3>1, <3>3, <3>4, <3>6, JoinFacts DEF t
    <3>8. \A i \in DOMAIN connected' :
              (\E j \in DOMAIN connected : connected'[i] = connected[j]) \/ connected'[i].event = call.id
      <4>1. connected' = connected \o t
        BY <2>8 DEF t
      <4>2. ASSUME NEW i \in DOMAIN (connected \o t)
            PROVE  \/ \E j \in DOMAIN connected : (connected \o t)[i] = connected[j]
                   \/ \E j \in DOMAIN t : (connected \o t)[i] = t[j]
        <5>1. /\ connected \in Seq(S) /\ t \in Seq(S)
              /\ DOMAIN connected = 1..Len(connected) /\ DOMAIN t = 1..Len(t)
              /\ Len(connected) \in Nat /\ Len(t) \in Nat
          BY <3>1, <3>3
        <5>2. /\ i \in 1..Len(connected) + Len(t)
              /\ (connected \o t)[i] = IF i <= Len(connected) THEN connected[i] ELSE t[i - Len(connected)]
          BY <5>1
        <5> QED
          BY <5>1, <5>2
      <4> QED
        BY <3>5, <4>1, <4>2
    <3>9. Gone'
      <4> SUFFICES ASSUME NEW i \in DOMAIN connected'
                   PROVE  /\ Asked(plan, changes, connected'[i].event)
                          /\ NotScripted(connected'[i].event, script)
                          /\ NotPosted(connected'[i].event, binder)
                          /\ NotWaiting(connected'[i].event, low')
        BY <1>1 DEF Gone
      <4> QED
        BY <2>5, <2>6, <3>8
    <3>10. StaticTypeOK' /\ StartedOnce'
      BY <1>3, <3>7 DEF StaticTypeOK, StartedOnce, IsInjective, S
    <3> QED
      BY <2>4, <3>9, <3>10 DEF OInv
  <2>9. \/ UNCHANGED connected
        \/ \E new \in Seq(Entries) :
               /\ IsInjective(new)
               /\ connected' = connected \o [i \in DOMAIN new |-> [to |-> new[i], event |-> call.id]]
    BY <1>1, <1>2, ExecuteOnce DEF OInv, call
  <2> QED
    BY <2>7, <2>8, <2>9
<1> QED
  BY <1>4, <1>5

LEMMA OnceStep ==
    ASSUME TInv, OInv, [Next]_vars
    PROVE  OInv'
<1> USE DEF callVars, taskVars
<1>1. ASSUME NEW c \in Uids, BeginCall(c) \/ Post(c) \/ GetStickyCommonEvent(c) PROVE OInv'
  BY <1>1, BeginCallOnce, PostOnce, GetStickyOnce
<1>2. CASE RunTask
  BY <1>2, RunTaskOnce
<1>3. ASSUME UNCHANGED <<plan, changes, script, binder, low, staticVars>> PROVE OInv'
  <2>1. UNCHANGED <<active, validSubscribers, connected>>
    BY <1>3 DEF staticVars, worldVars, tableVars
  <2> QED
    BY <1>3, <2>1, OnceKept DEF OInv, StaticTypeOK
<1>4. CASE HandOn
  BY <1>3, <1>4 DEF HandOn
<1>5. CASE OnStart
  BY <1>3, <1>5 DEF OnStart
<1>6. ASSUME NEW c \in connections, Connected(c) PROVE OInv'
  <2>1. UNCHANGED <<plan, changes, script, binder, low, active, validSubscribers, connected>>
    BY <1>6 DEF Connected, OnAbilityConnectDone, worldVars, tableVars
  <2> QED
    BY <2>1, OnceKept DEF OInv, StaticTypeOK
<1>7. CASE OnStop
  BY <1>7, OnStopOnce
<1>8. CASE Changes
  BY <1>8, ChangesOnce
<1>9. CASE Passes
  BY <1>3, <1>9 DEF Passes
<1>10. CASE UNCHANGED vars
  BY <1>3, <1>10 DEF vars
<1> QED
  BY <1>1, <1>2, <1>4, <1>5, <1>6, <1>7, <1>8, <1>9, <1>10 DEF Next, Work

\* For all packages, users, plans and changes: no publication starts an
\* extension twice for the same permission.
THEOREM StaticStartedOnce == Spec => []StartedOnce
<1>1. Init => OInv
  BY OnceInit
<1>2. TInv /\ OInv /\ [Next]_vars => OInv'
  BY OnceStep
<1>3. OInv => StartedOnce
  BY DEF OInv
<1> QED
  BY <1>1, <1>2, <1>3, CallsAreInTurn, PTL DEF Spec

-----------------------------------------------------------------------------
(* The table of static subscribers.  Once all that was announced has been  *)
(* dealt with, the table says what the packages of the active users        *)
(* declare: what is still announced is what it may be wrong about.         *)

Declarations == [name : Names, permission : Permissions]

Entry(b, u, p) == [bundle |-> b, user |-> u, permission |-> p]

Lists(table, dec, b, u) == Entry(b, u, dec.permission) \in ToSet(table[dec.name])

Declares(dec, b, u) == b \in AllowList /\ dec \in installed[u][b]

LEMMA EntryFacts ==
    ASSUME NEW b, NEW u, NEW p
    PROVE  /\ Entry(b, u, p).bundle = b /\ Entry(b, u, p).user = u /\ Entry(b, u, p).permission = p
           /\ Extension(Entry(b, u, p)) = [bundle |-> b, user |-> u]
BY DEF Entry, Extension

LEMMA ExtensionFacts ==
    ASSUME active \subseteq Users
    PROVE  \A b, u : [bundle |-> b, user |-> u] \in Extensions(active)
                            <=> b \in AllowList /\ u \in active /\ installed[u][b] # {}
<1> SUFFICES ASSUME NEW b, NEW u
             PROVE  [bundle |-> b, user |-> u] \in Extensions(active)
                        <=> b \in AllowList /\ u \in active /\ installed[u][b] # {}
  OBVIOUS
<1> DEFINE e == [bundle |-> b, user |-> u]
<1>1. e.bundle = b /\ e.user = u
  OBVIOUS
<1>2. e \in [bundle : AllowList, user : active] <=> b \in AllowList /\ u \in active
  OBVIOUS
<1> HIDE DEF e
<1>3. e \in Extensions(active) <=> b \in AllowList /\ u \in active /\ installed[u][b] # {}
  BY <1>1, <1>2 DEF Extensions
<1> QED
  BY <1>3 DEF e

\* What is found of an extension is what it declares.
LEMMA DeclaredFacts ==
    ASSUME NEW name, NEW extensions
    PROVE  /\ Declared(name, extensions) \subseteq Entries
           /\ \A b \in AllowList, u \in Users, p \in Permissions :
                  Entry(b, u, p) \in Declared(name, extensions) <=>
                      /\ [bundle |-> b, user |-> u] \in extensions
                      /\ [name |-> name, permission |-> p] \in installed[u][b]
<1>1. Declared(name, extensions) \subseteq Entries
  BY StaticAssumption DEF Declared, Entries
<1>2. ASSUME NEW b \in AllowList, NEW u \in Users, NEW p \in Permissions
      PROVE  Entry(b, u, p) \in [bundle : AllowList, user : Users, permission : Permissions]
  BY DEF Entry
<1>3. ASSUME NEW b \in AllowList, NEW u \in Users, NEW p \in Permissions
      PROVE  Entry(b, u, p) \in Declared(name, extensions) <=>
                 /\ [bundle |-> b, user |-> u] \in extensions
                 /\ [name |-> name, permission |-> p] \in installed[u][b]
  BY <1>2, EntryFacts DEF Declared
<1> QED
  BY <1>1, <1>3

LEMMA AddAllLists ==
    ASSUME NEW table, IsTable(table), NEW extensions, NEW dec \in Declarations,
           NEW b \in AllowList, NEW u \in Users
    PROVE  Lists(AddAll(table, extensions), dec, b, u) <=>
               \/ Lists(table, dec, b, u)
               \/ [bundle |-> b, user |-> u] \in extensions /\ dec \in installed[u][b]
<1> DEFINE n == dec.name
           found == Declared(n, extensions)
           e == Entry(b, u, dec.permission)
<1>1. n \in Names /\ dec.permission \in Permissions
      /\ dec = [name |-> n, permission |-> dec.permission]
  BY DEF Declarations
<1>2. found \subseteq Entries /\ (e \in found <=> [bundle |-> b, user |-> u] \in extensions /\ dec \in installed[u][b])
  BY <1>1, DeclaredFacts
<1> HIDE DEF found, e, n
<1>3. AddAll(table, extensions)[n] = AddToValidSubscribers(table[n], found)
  BY <1>1 DEF AddAll, AddSubscribers, found
<1>4. table[n] \in Seq(Entries) /\ IsInjective(table[n])
  BY <1>1 DEF IsTable
<1>5. ToSet(AddToValidSubscribers(table[n], found)) = ToSet(table[n]) \cup found
  BY <1>2, <1>4, AddedFacts
<1>6. e \in ToSet(AddAll(table, extensions)[n]) <=> e \in ToSet(table[n]) \/ e \in found
  BY <1>3, <1>5
<1> QED
  BY <1>2, <1>6 DEF Lists, e, n

\* What is not of the configuration file is not added.
LEMMA AddAllKeeps ==
    ASSUME NEW table, IsTable(table), NEW extensions, NEW dec \in Declarations, NEW b, NEW u, b \notin AllowList
    PROVE  Lists(AddAll(table, extensions), dec, b, u) <=> Lists(table, dec, b, u)
<1> DEFINE n == dec.name
           found == Declared(n, extensions)
           e == Entry(b, u, dec.permission)
<1>1. n \in Names
  BY DEF Declarations
<1>2. found \subseteq Entries
  BY DeclaredFacts
<1>3. e \notin found
  <2>1. e.bundle = b
    BY EntryFacts
  <2> HIDE DEF e
  <2> QED
    BY <2>1 DEF Declared
<1> HIDE DEF found, e, n
<1>4. AddAll(table, extensions)[n] = AddToValidSubscribers(table[n], found)
  BY <1>1 DEF AddAll, AddSubscribers, found
<1>5. table[n] \in Seq(Entries) /\ IsInjective(table[n])
  BY <1>1 DEF IsTable
<1>6. ToSet(AddToValidSubscribers(table[n], found)) = ToSet(table[n]) \cup found
  BY <1>2, <1>5, AddedFacts
<1> QED
  BY <1>3, <1>4, <1>6 DEF Lists, e, n

LEMMA RemoveLists ==
    ASSUME NEW table, IsTable(table), NEW dec \in Declarations, NEW b, NEW u, NEW c, NEW v
    PROVE  Lists(RemoveSubscriberWithBundleName(table, c, v), dec, b, u) <=>
               Lists(table, dec, b, u) /\ ~(b = c /\ u = v)
<1> DEFINE n == dec.name
           e == Entry(b, u, dec.permission)
           stay == {s \in ToSet(table[n]) : Extension(s) # [bundle |-> c, user |-> v]}
<1>1. n \in Names
  BY DEF Declarations
<1>2. RemoveSubscriberWithBundleName(table, c, v)[n] = Selected(table[n], stay)
  BY <1>1 DEF RemoveSubscriberWithBundleName
<1>3. table[n] \in Seq(Entries)
  BY <1>1 DEF IsTable
<1>4. Extension(e) = [bundle |-> c, user |-> v] <=> b = c /\ u = v
  <2>1. Extension(e) = [bundle |-> b, user |-> u]
    BY EntryFacts
  <2>2. [bundle |-> b, user |-> u] = [bundle |-> c, user |-> v] <=> b = c /\ u = v
    OBVIOUS
  <2> QED
    BY <2>1, <2>2
<1> HIDE DEF e, n
<1>5. e \in stay <=> e \in ToSet(table[n]) /\ ~(b = c /\ u = v)
  BY <1>4
<1> HIDE DEF stay
<1>6. ToSet(Selected(table[n], stay)) = ToSet(table[n]) \cap stay
  BY <1>3, SelectedFacts
<1> QED
  BY <1>2, <1>5, <1>6 DEF Lists, e, n

\* After a fill the table says what the packages declare.
LEMMA FillLists ==
    ASSUME active \subseteq Users, NEW dec \in Declarations, NEW b, NEW u \in active
    PROVE  Lists(AddAll(NoSubscribers, Extensions(active)), dec, b, u) <=> Declares(dec, b, u)
<1>1. IsTable(NoSubscribers)
  BY DEF IsTable, NoSubscribers, IsInjective
<1>2. ~Lists(NoSubscribers, dec, b, u)
  BY DEF Lists, NoSubscribers, ToSet, Declarations
<1>3. CASE b \in AllowList
  <2>1. Lists(AddAll(NoSubscribers, Extensions(active)), dec, b, u) <=>
            [bundle |-> b, user |-> u] \in Extensions(active) /\ dec \in installed[u][b]
    BY <1>1, <1>2, <1>3, AddAllLists
  <2> QED
    BY <1>3, <2>1, ExtensionFacts DEF Declares
<1>4. CASE b \notin AllowList
  BY <1>1, <1>2, <1>4, AddAllKeeps DEF Declares
<1> QED
  BY <1>3, <1>4

\* An addition of package c for user v, after which the table lists it as it
\* is declared.
LEMMA AdditionLists ==
    ASSUME active \subseteq Users, NEW table, IsTable(table), NEW dec \in Declarations, NEW b, NEW u \in active,
           NEW c, NEW v
    PROVE  Lists(AddSubscriberWithBundleName(table, c, v, Extensions(active)), dec, b, u) <=>
               Lists(table, dec, b, u) \/ (b = c /\ u = v /\ Declares(dec, b, u))
<1> DEFINE e == [bundle |-> b, user |-> u]
           f == [bundle |-> c, user |-> v]
           found == {s \in Extensions(active) : s = f}
<1>1. e = f <=> b = c /\ u = v
  <2>1. e.bundle = b /\ e.user = u /\ f.bundle = c /\ f.user = v
    OBVIOUS
  <2> QED
    BY <2>1
<1>2. e \in found <=> e \in Extensions(active) /\ b = c /\ u = v
  BY <1>1
<1>3. e \in Extensions(active) <=> b \in AllowList /\ installed[u][b] # {}
  BY ExtensionFacts
<1> HIDE DEF found
<1>4. AddSubscriberWithBundleName(table, c, v, Extensions(active)) = AddAll(table, found)
  BY DEF AddSubscriberWithBundleName, found
<1>5. CASE b \in AllowList
  <2>1. Lists(AddAll(table, found), dec, b, u) <=>
            Lists(table, dec, b, u) \/ (e \in found /\ dec \in installed[u][b])
    BY <1>5, AddAllLists
  <2> QED
    BY <1>2, <1>3, <1>4, <1>5, <2>1 DEF Declares
<1>6. CASE b \notin AllowList
  BY <1>4, <1>6, AddAllKeeps DEF Declares
<1> QED
  BY <1>5, <1>6

\* What becomes of the entry of package b for user u when an event is handled.
LEMMA UpdateLists ==
    ASSUME active \subseteq Users, NEW table, IsTable(table), NEW e, NEW dec \in Declarations, NEW b, NEW u \in active
    PROVE  LET lists == Lists(UpdateSubscriber(table, e, TRUE, Extensions(active)), dec, b, u)
               about == e.name \in PackageNames /\ e.bundle = b /\ e.of = u
           IN  /\ ~about => (lists <=> Lists(table, dec, b, u))
               /\ about /\ e.name = "added" => (lists <=> Lists(table, dec, b, u) \/ Declares(dec, b, u))
               /\ about /\ e.name = "removed" => ~lists
               /\ about /\ e.name = "changed" => (lists <=> Declares(dec, b, u))
<1> DEFINE after == UpdateSubscriber(table, e, TRUE, Extensions(active))
           removed == RemoveSubscriberWithBundleName(table, e.bundle, e.of)
           added(t) == AddSubscriberWithBundleName(t, e.bundle, e.of, Extensions(active))
           same == e.bundle = b /\ e.of = u
<1>1. after = CASE e.of \notin active    -> table
                [] e.of \in active /\ e.name = "added"   -> added(table)
                [] e.of \in active /\ e.name = "removed" -> removed
                [] e.of \in active /\ e.name = "changed" -> added(removed)
                [] OTHER -> table
  BY DEF UpdateSubscriber
<1>2. /\ e.of \notin active \/ e.name \notin PackageNames => after = table
      /\ e.of \in active /\ e.name = "added" => after = added(table)
      /\ e.of \in active /\ e.name = "removed" => after = removed
      /\ e.of \in active /\ e.name = "changed" => after = added(removed)
  BY <1>1 DEF PackageNames
<1>3. IsTable(removed)
  BY RemoveFacts
<1>4. Lists(removed, dec, b, u) <=> Lists(table, dec, b, u) /\ ~same
  BY RemoveLists
<1>5. Lists(added(table), dec, b, u) <=> Lists(table, dec, b, u) \/ (same /\ Declares(dec, b, u))
  BY AdditionLists
<1> HIDE DEF removed
<1>6. Lists(added(removed), dec, b, u) <=> Lists(removed, dec, b, u) \/ (same /\ Declares(dec, b, u))
  BY <1>3, AdditionLists
<1> HIDE DEF added, after
<1>7. e.of \in active /\ e.name \in PackageNames =>
          e.name = "added" \/ e.name = "removed" \/ e.name = "changed"
  BY DEF PackageNames
<1>8. /\ same => e.of \in active
      /\ {"added", "removed", "changed"} = PackageNames
  BY DEF PackageNames
<1>9. /\ e.name = "added" => e.name \in PackageNames /\ e.name # "removed" /\ e.name # "changed"
      /\ e.name = "removed" => e.name \in PackageNames /\ e.name # "changed"
      /\ e.name = "changed" => e.name \in PackageNames
  BY DEF PackageNames
<1>10. ~(e.name \in PackageNames /\ same) => (Lists(after, dec, b, u) <=> Lists(table, dec, b, u))
  BY <1>2, <1>4, <1>5, <1>6, <1>7
<1>11. e.name = "added" /\ same => (Lists(after, dec, b, u) <=> Lists(table, dec, b, u) \/ Declares(dec, b, u))
  BY <1>2, <1>5, <1>8
<1>12. e.name = "removed" /\ same => ~Lists(after, dec, b, u)
  BY <1>2, <1>4, <1>8
<1>13. e.name = "changed" /\ same => (Lists(after, dec, b, u) <=> Declares(dec, b, u))
  BY <1>2, <1>4, <1>6, <1>8
<1> QED
  BY <1>10, <1>11, <1>12, <1>13 DEF after

\* Of the events of packages, the plans leave all to the package manager, and
\* the account manager publishes none.
PackagesAreAnnounced ==
    /\ STOPPED \notin PackageNames
    /\ \A p \in Plans : \A call \in PlannedIn(p) : call.op = "publish" => call.name \notin PackageNames

\* The calls that are still to be executed.
OnTheWay ==
    {call \in ServiceCalls :
        \/ \E c \in Uids : \E i \in DOMAIN script[c] : script[c][i] = call
        \/ \E c \in Uids : binder[c].at = "post" /\ binder[c].call = call
        \/ \E i \in DOMAIN low : low[i] = call}

InHand == IF main.at = "hand" THEN {main.call} ELSE {}

\* No announcement was refused or lost.
Kept == \A k \in 1..changes : \E x \in OnTheWay \cup done \cup InHand : x.id = k

\* What is still to be handled about package b of user u.
Pending(b, u) ==
    {q \in OnTheWay : q.op = "publish" /\ q.name \in PackageNames /\ q.bundle = b /\ q.of = u}

\* A fill is still to come.
FillPending == \E q \in OnTheWay : q.op = "publish" /\ q.name \in FillNames /\ q.id \in 1..changes

\* The last event about a package says whether it is still there.
LastSays(b, u) ==
    Pending(b, u) # {} =>
        \E q \in Pending(b, u) : /\ \A p \in Pending(b, u) : p.id <= q.id
                                 /\ q.name = "removed" <=> installed[u][b] = {}

Named(dec, b, u) == Lists(validSubscribers, dec, b, u)

\* The table names too much only if an event that takes it back is still to
\* come, and too little only if any is.
Settled(b, u) ==
    /\ (\A q \in Pending(b, u) : q.name = "added") =>
           \A dec \in Declarations : Named(dec, b, u) => Declares(dec, b, u)
    /\ Pending(b, u) = {} => \A dec \in Declarations : Declares(dec, b, u) => Named(dec, b, u)

\* What overtakes is of the plan.
Urgent ==
    /\ \A i \in DOMAIN immediate : immediate[i].id \notin 1..plan.changes
    /\ \A d \in done : d.op \notin InLow => d.id \notin 1..plan.changes

\* What is still to be executed has not been.
Fresh == \A x \in OnTheWay : x.id \in 1..changes => \A d \in done \cup InHand : d.id # x.id

Announcing ==
    \A q \in OnTheWay : q.op = "publish" /\ q.name \in PackageNames =>
        q.id \in 1..changes /\ q.by = PackageManager

NInv ==
    /\ installed \in [Users -> [Bundles -> Profiles]]
    /\ hasInitValidSubscribers => hasInitAllowList
    /\ Urgent /\ Fresh /\ Announcing
    /\ Kept => \A b \in Bundles, u \in Users : LastSays(b, u)
    /\ Kept /\ hasInitValidSubscribers /\ ~spoiled /\ ~FillPending =>
           \A b \in Bundles, u \in active : Settled(b, u)

\* What is on its way is of the plan or announced, and has an id of its own.
LEMMA WayFacts ==
    ASSUME TInv, OInv
    PROVE  /\ \A x \in OnTheWay : Comes(plan, changes, x)
           /\ \A x, y \in OnTheWay : x.id = y.id => x = y
<1>1. \A x \in OnTheWay : Comes(plan, changes, x)
  BY DEF TInv, Coming, CallsOf, OnTheWay
<1>2. ASSUME NEW x \in OnTheWay, NEW y \in OnTheWay, x.id = y.id
      PROVE  x = y
  <2>1. ASSUME NEW c \in Uids, NEW i \in DOMAIN script[c], script[c][i] = x
        PROVE  x = y
    <3>1. \A d \in Uids : binder[d].at = "post" => binder[d].call # y
      BY <1>2, <2>1 DEF OInv, OneEach, NotScripted
    <3>2. \A j \in DOMAIN low : low[j] # y
      BY <1>2, <2>1 DEF OInv, OneEach, NotScripted
    <3>3. PICK d \in Uids : \E j \in DOMAIN script[d] : script[d][j] = y
      BY <3>1, <3>2 DEF OnTheWay
    <3> QED
      BY <1>2, <2>1, <3>3 DEF OInv, OneEach
  <2>2. ASSUME NEW c \in Uids, binder[c].at = "post", binder[c].call = x
        PROVE  x = y
    <3>1. \A d \in Uids : \A j \in DOMAIN script[d] : script[d][j] # y
      BY <1>2, <2>2 DEF OInv, OneEach, NotScripted
    <3>2. \A j \in DOMAIN low : low[j] # y
      BY <1>2, <2>2 DEF OInv, OneEach, NotPosted
    <3>3. PICK d \in Uids : binder[d].at = "post" /\ binder[d].call = y
      BY <3>1, <3>2 DEF OnTheWay
    <3> QED
      BY <1>2, <2>2, <3>3 DEF OInv, OneEach
  <2>3. ASSUME NEW i \in DOMAIN low, low[i] = x
        PROVE  x = y
    <3>1. \A d \in Uids : \A j \in DOMAIN script[d] : script[d][j] # y
      BY <1>2, <2>3 DEF OInv, OneEach, NotScripted
    <3>2. \A d \in Uids : binder[d].at = "post" => binder[d].call # y
      BY <1>2, <2>3 DEF OInv, OneEach, NotPosted
    <3>3. PICK j \in DOMAIN low : low[j] = y
      BY <3>1, <3>2 DEF OnTheWay
    <3> QED
      BY <1>2, <2>3, <3>3 DEF OInv, OneEach
  <2> QED
    BY <2>1, <2>2, <2>3 DEF OnTheWay
<1> QED
  BY <1>1, <1>2

LEMMA NamedInit ==
    ASSUME PackagesAreAnnounced, Init
    PROVE  NInv
<1>1. TInv /\ OInv
  BY TurnsInit, OnceInit
<1>2. /\ changes = 0 /\ plan \in Plans /\ low = <<>> /\ immediate = <<>> /\ done = {}
      /\ script = plan.calls /\ \A c \in Uids : binder[c].at # "post"
      /\ installed \in [Users -> [Bundles -> Profiles]] /\ hasInitValidSubscribers = FALSE
  BY DEF Init, StaticInit, Idle
<1>3. \A x \in OnTheWay : x \in PlannedIn(plan)
  BY <1>2 DEF OnTheWay, PlannedIn
<1>4. \A x \in OnTheWay : x.op = "publish" => x.name \notin PackageNames
  BY <1>2, <1>3 DEF PackagesAreAnnounced
<1>5. Urgent /\ Fresh /\ Announcing
  <2>1. 1..changes = {}
    BY <1>2
  <2> QED
    BY <1>2, <1>4, <2>1 DEF Urgent, Fresh, Announcing
<1>6. \A b, u : LastSays(b, u)
  BY <1>4 DEF LastSays, Pending
<1> QED
  BY <1>2, <1>5, <1>6 DEF NInv

\* What was announced and nobody lost stays on its way until it is executed.
LEMMA StaysOnTheWay ==
    ASSUME TInv, OInv, Fresh, NEW q \in OnTheWay, q.id \in 1..changes, UNCHANGED changes,
           Kept', OnTheWay' \subseteq OnTheWay,
           \A d \in done' \cup InHand' : d \in done \cup InHand \/ d.id # q.id
    PROVE  q \in OnTheWay'
<1>1. PICK x \in OnTheWay' \cup done' \cup InHand' : x.id = q.id
  BY DEF Kept
<1>2. x \in OnTheWay'
  BY <1>1 DEF Fresh
<1> QED
  BY <1>1, <1>2, WayFacts

\* As long as no publication is handled, the table and what is announced stay
\* in step.
LEMMA NothingHandled ==
    ASSUME TInv, OInv, NInv, OnTheWay' \subseteq OnTheWay, Urgent',
           UNCHANGED <<plan, changes, installed, active, hasInitAllowList, hasInitValidSubscribers,
                       validSubscribers, spoiled>>,
           \A d \in done' \cup InHand' : d \in done \cup InHand \/ d.id \notin 1..changes
    PROVE  NInv'
<1>1. Fresh' /\ Announcing'
  BY DEF NInv, Fresh, Announcing
<1>2. Kept' => Kept
  <2> SUFFICES ASSUME Kept', NEW k \in 1..changes
               PROVE  \E x \in OnTheWay \cup done \cup InHand : x.id = k
    BY DEF Kept
  <2>1. PICK x \in OnTheWay' \cup done' \cup InHand' : x.id = k
    BY DEF Kept
  <2> QED
    BY <2>1
<1>3. ASSUME Kept', NEW q \in OnTheWay, q.id \in 1..changes
      PROVE  q \in OnTheWay'
  <2>1. \A d \in done' \cup InHand' : d \in done \cup InHand \/ d.id # q.id
    BY <1>3
  <2> QED
    BY <1>3, <2>1, StaysOnTheWay DEF NInv
<1>4. ASSUME Kept', NEW b, NEW u
      PROVE  Pending(b, u)' = Pending(b, u)
  BY <1>3, <1>4 DEF Pending, NInv, Announcing
<1>5. ASSUME Kept'
      PROVE  FillPending' <=> FillPending
  BY <1>3, <1>5 DEF FillPending
<1>6. ASSUME Kept', NEW b \in Bundles, NEW u \in Users
      PROVE  LastSays(b, u)'
  <2>1. LastSays(b, u)
    BY <1>2, <1>6 DEF NInv
  <2> QED
    BY <1>4, <1>6, <2>1 DEF LastSays
<1>7. ASSUME Kept', hasInitValidSubscribers, ~spoiled, ~FillPending', NEW b \in Bundles, NEW u \in active
      PROVE  Settled(b, u)'
  <2>1. Settled(b, u)
    BY <1>2, <1>5, <1>7 DEF NInv
  <2> QED
    BY <1>4, <1>7, <2>1 DEF Settled, Named, Lists, Declares
<1> QED
  BY <1>1, <1>6, <1>7 DEF NInv

\* What static subscribers make of a publication: the table and whether it is
\* spoiled, for some answers of the other services.
LEMMA TablePublished ==
    ASSUME NEW e, StaticPublish(e)
    PROVE  \E answered \in Answered(Extensions(active)), known \in {TRUE, ~(MayFail /\ e.name \in PackageNames)} :
               /\ validSubscribers' = UpdateSubscriber(
                      IF FillsBefore(e.name) THEN AddAll(NoSubscribers, answered) ELSE validSubscribers,
                      e, known, answered)
               /\ spoiled' = ((spoiled /\ ~FillsBefore(e.name)) \/ ~known \/ answered # Extensions(active))
<1>1. PICK answered \in Answered(Extensions(active)),
           known \in {TRUE, ~(MayFail /\ e.name \in PackageNames)} :
        LET fill    == FillsBefore(e.name)
            table   == UpdateSubscriber(
                           IF fill THEN AddAll(NoSubscribers, answered) ELSE validSubscribers,
                           e, known, answered)
            targets == Selected(table[e.name], {s \in ToSet(table[e.name]) : Receives(s, e)})
            incomplete == ~known \/ answered # Extensions(active)
        IN  /\ ~(fill /\ active = {})
            /\ \E reached \in Answered(ToSet(targets)) :
                /\ hasInitAllowList' = TRUE /\ hasInitValidSubscribers' = TRUE
                /\ validSubscribers' = table
                /\ spoiled' = ((spoiled /\ ~fill) \/ incomplete)
                /\ failures' = IF incomplete \/ reached # ToSet(targets) THEN failures + 1 ELSE failures
                /\ ConnectAbility(targets, reached, e)
                /\ UNCHANGED worldVars
  BY Zenon DEF StaticPublish
<1>2. validSubscribers' = UpdateSubscriber(
          IF FillsBefore(e.name) THEN AddAll(NoSubscribers, answered) ELSE validSubscribers,
          e, known, answered)
  BY <1>1, Zenon
<1>3. spoiled' = ((spoiled /\ ~FillsBefore(e.name)) \/ ~known \/ answered # Extensions(active))
  BY <1>1, Zenon
<1> QED
  BY <1>2, <1>3, Zenon

\* The publication that is first in the queue is handed to static subscribers.
LEMMA PublicationHandled ==
    ASSUME TInv, OInv, NInv, NEW h \in OnTheWay, h.op = "publish", OnTheWay' = OnTheWay \ {h},
           \A q \in OnTheWay : q # h /\ q.by = h.by /\ q.id \in 1..changes /\ h.id \in 1..changes => h.id < q.id,
           UNCHANGED <<plan, changes, done, immediate>>, InHand = {}, InHand' \subseteq {h},
           NEW e, e.name = h.name, e.bundle = h.bundle, e.of = h.of, StaticPublishCommonEvent(e)
    PROVE  NInv'
<1>1. Urgent' /\ Announcing'
  BY DEF NInv, Urgent, Announcing
<1>2. Fresh'
  <2> SUFFICES ASSUME NEW x \in OnTheWay', x.id \in 1..changes, NEW d \in done' \cup InHand'
               PROVE  d.id # x.id
    BY DEF Fresh
  <2>1. CASE d = h
    BY <2>1, WayFacts
  <2>2. CASE d \in done
    BY <2>2 DEF NInv, Fresh
  <2> QED
    BY <2>1, <2>2
<1>3. Kept' => Kept
  <2> SUFFICES ASSUME Kept', NEW k \in 1..changes
               PROVE  \E x \in OnTheWay \cup done \cup InHand : x.id = k
    BY DEF Kept
  <2>1. PICK x \in OnTheWay' \cup done' \cup InHand' : x.id = k
    BY DEF Kept
  <2> QED
    BY <2>1
<1>4. \A q \in OnTheWay : q.id \in Nat
  BY DEF OnTheWay, ServiceCalls
<1>5. UNCHANGED <<installed, active>>
  BY DEF StaticPublishCommonEvent, NoAllowList, NoExtensions, StaticPublish, worldVars
<1>6. \A b, u : Pending(b, u)' = Pending(b, u) \ {h}
  BY DEF Pending
<1>7. ASSUME NEW b \in Bundles, NEW u \in Users, LastSays(b, u)
      PROVE  LastSays(b, u)'
  <2> SUFFICES ASSUME NEW p \in Pending(b, u)'
               PROVE  \E q \in Pending(b, u)' : /\ \A r \in Pending(b, u)' : r.id <= q.id
                                                /\ q.name = "removed" <=> installed'[u][b] = {}
    BY DEF LastSays
  <2>1. PICK q \in Pending(b, u) : /\ \A r \in Pending(b, u) : r.id <= q.id
                                   /\ q.name = "removed" <=> installed[u][b] = {}
    BY <1>6, <1>7 DEF LastSays
  <2>2. q # h
    <3> SUFFICES ASSUME q = h PROVE FALSE
      OBVIOUS
    <3>1. p \in OnTheWay /\ p # h /\ p.id <= h.id
      BY <1>6, <2>1 DEF Pending
    <3>2. p.by = h.by /\ p.id \in 1..changes /\ h.id \in 1..changes
      BY <1>6, <2>1 DEF Pending, NInv, Announcing
    <3>3. h.id < p.id
      BY <3>1, <3>2
    <3> QED
      BY <1>4, <3>1, <3>3
  <2> QED
    BY <1>5, <1>6, <2>1, <2>2
<1>8. hasInitValidSubscribers' => hasInitAllowList'
  BY DEF NInv, StaticPublishCommonEvent, NoAllowList, NoExtensions, StaticPublish
<1>9. ASSUME Kept', hasInitValidSubscribers', ~spoiled', ~FillPending'
      PROVE  \A b \in Bundles, u \in active' : Settled(b, u)'
  <2>1. StaticPublish(e)
    BY <1>9 DEF NInv, StaticPublishCommonEvent, NoAllowList, NoExtensions
  <2> DEFINE fill   == FillsBefore(e.name)
             before == IF fill THEN AddAll(NoSubscribers, Extensions(active)) ELSE validSubscribers
  <2>2. /\ validSubscribers' = UpdateSubscriber(before, e, TRUE, Extensions(active))
        /\ fill \/ ~spoiled
    <3>1. PICK answered \in Answered(Extensions(active)),
               known \in {TRUE, ~(MayFail /\ e.name \in PackageNames)} :
            /\ validSubscribers' = UpdateSubscriber(
                   IF fill THEN AddAll(NoSubscribers, answered) ELSE validSubscribers, e, known, answered)
            /\ spoiled' = ((spoiled /\ ~fill) \/ ~known \/ answered # Extensions(active))
      BY <2>1, TablePublished, Zenon
    <3>2. known = TRUE /\ answered = Extensions(active) /\ (fill \/ ~spoiled)
      BY <1>9, <3>1
    <3> QED
      BY <3>1, <3>2
  <2>3. active \subseteq Users
    BY DEF OInv, StaticTypeOK
  <2>4. IsTable(before)
    <3>1. IsTable(NoSubscribers)
      BY DEF IsTable, NoSubscribers, IsInjective
    <3>2. IsTable(AddAll(NoSubscribers, Extensions(active)))
      BY <3>1, AddAllFacts
    <3> QED
      BY <3>2 DEF OInv, StaticTypeOK
  <2>5. ASSUME NEW b \in Bundles, NEW u \in active
        PROVE  /\ (\A q \in Pending(b, u) : q.name = "added") =>
                      \A dec \in Declarations : Lists(before, dec, b, u) => Declares(dec, b, u)
               /\ Pending(b, u) = {} => \A dec \in Declarations : Declares(dec, b, u) => Lists(before, dec, b, u)
    <3>1. CASE fill
      BY <2>3, <3>1, FillLists
    <3>2. CASE ~fill
      <4>1. hasInitValidSubscribers /\ e.name \notin FillNames
        BY <3>2 DEF FillsBefore
      <4>2. ~FillPending
        BY <1>9, <4>1 DEF FillPending
      <4>3. Settled(b, u)
        BY <1>3, <1>9, <2>2, <3>2, <4>1, <4>2 DEF NInv
      <4>4. \A dec : Lists(before, dec, b, u) <=> Named(dec, b, u)
        BY <3>2 DEF Named
      <4> QED
        BY <4>3, <4>4 DEF Settled
    <3> QED
      BY <3>1, <3>2
  <2> HIDE DEF before, fill
  <2> SUFFICES ASSUME NEW b \in Bundles, NEW u \in active
               PROVE  Settled(b, u)'
    BY <1>5
  <2> DEFINE lists(dec) == Lists(UpdateSubscriber(before, e, TRUE, Extensions(active)), dec, b, u)
             about == e.name \in PackageNames /\ e.bundle = b /\ e.of = u
  <2>6. \A dec : Named(dec, b, u)' <=> lists(dec)
    BY <2>2 DEF Named
  <2>7. \A dec : Declares(dec, b, u)' <=> Declares(dec, b, u)
    BY <1>5 DEF Declares
  <2>8. \A dec \in Declarations :
            /\ ~about => (lists(dec) <=> Lists(before, dec, b, u))
            /\ about /\ e.name = "added" => (lists(dec) <=> Lists(before, dec, b, u) \/ Declares(dec, b, u))
            /\ about /\ e.name = "removed" => ~lists(dec)
            /\ about /\ e.name = "changed" => (lists(dec) <=> Declares(dec, b, u))
    BY <2>3, <2>4, UpdateLists
  <2>9. about <=> h \in Pending(b, u)
    BY DEF Pending
  <2>10. about => e.name \in {"added", "removed", "changed"}
    BY DEF PackageNames
  <2> HIDE DEF lists, about
  <2>11. SUFFICES /\ (\A q \in Pending(b, u) \ {h} : q.name = "added") =>
                         \A dec \in Declarations : lists(dec) => Declares(dec, b, u)
                  /\ Pending(b, u) \ {h} = {} => \A dec \in Declarations : Declares(dec, b, u) => lists(dec)
    BY <1>6, <2>6, <2>7 DEF Settled
  <2>12. CASE ~about
    <3>1. Pending(b, u) \ {h} = Pending(b, u)
      BY <2>9, <2>12
    <3> QED
      BY <2>5, <2>8, <2>12, <3>1
  <2>13. CASE about /\ e.name = "added"
    <3>1. (\A q \in Pending(b, u) \ {h} : q.name = "added") => \A q \in Pending(b, u) : q.name = "added"
      BY <2>13
    <3> QED
      BY <2>5, <2>8, <2>13, <3>1
  <2>14. CASE about /\ e.name = "removed"
    <3>1. ASSUME Pending(b, u) \ {h} = {}, NEW dec \in Declarations
          PROVE  ~Declares(dec, b, u)
      <4>1. LastSays(b, u)
        BY <1>3, <1>9, <2>3 DEF NInv
      <4>2. PICK q \in Pending(b, u) : q.name = "removed" <=> installed[u][b] = {}
        BY <2>9, <2>14, <4>1 DEF LastSays
      <4>3. q = h
        BY <3>1, <4>2
      <4> QED
        BY <2>14, <4>2, <4>3 DEF Declares
    <3> QED
      BY <2>8, <2>14, <3>1
  <2>15. CASE about /\ e.name = "changed"
    BY <2>8, <2>15
  <2> QED
    BY <2>10, <2>12, <2>13, <2>14, <2>15
<1> QED
  BY <1>1, <1>2, <1>3, <1>5, <1>7, <1>8, <1>9 DEF NInv

\* What is announced takes its place behind everything that is on its way.
LEMMA AnnouncedOnTheWay ==
    ASSUME TInv, OInv, NInv, NEW c \in {PackageManager, AccountManager}, NEW about, Announce(c, about),
           about.name \in Names, about.bundle \in Bundles \cup {None}, about.of \in Users \cup {None},
           about.name \in PackageNames => c = PackageManager
    PROVE  /\ \E q : /\ OnTheWay' = OnTheWay \cup {q} /\ q.id = changes + 1 /\ q.op = "publish"
                     /\ q.name = about.name /\ q.bundle = about.bundle /\ q.of = about.of
           /\ \A x \in OnTheWay : x.id # changes + 1 /\ x.id \in Nat
           /\ changes' = changes + 1 /\ changes \in Nat
           /\ Urgent' /\ Fresh' /\ Announcing'
           /\ Kept' => Kept
<1> DEFINE q == [op |-> "publish", by |-> c, id |-> changes', user |-> UNDEFINED_USER,
                 name |-> about.name, bundle |-> about.bundle, of |-> about.of,
                 sticky |-> FALSE, ordered |-> FALSE, last |-> FALSE, proxy |-> FALSE, token |-> c]
<1>1. c \in Uids /\ TypeOK /\ changes \in Nat /\ plan \in Plans /\ plan.changes \in Nat
  BY ServiceAssumption DEF TInv, IInv, TypeOK, Coming
<1>2. /\ UNCHANGED <<plan, binder, low, immediate, done, main>>
      /\ changes' = changes + 1 /\ changes < plan.changes
      /\ script' = [script EXCEPT ![c] = Append(@, q)]
  BY DEF Announce, taskVars
<1>3. q \in ServiceCalls
  BY <1>1, <1>2 DEF ServiceCalls, UNDEFINED_USER
<1>4. /\ Len(script[c]) \in Nat
      /\ DOMAIN script[c] = 1..Len(script[c]) /\ DOMAIN script'[c] = 1..Len(script[c]) + 1
      /\ \A i \in DOMAIN script[c] : script'[c][i] = script[c][i]
      /\ script'[c][Len(script[c]) + 1] = q
      /\ \A d \in Uids : d # c => script'[d] = script[d]
  BY <1>1, <1>2, <1>3, AppendFacts DEF TypeOK
<1>5. \A i \in DOMAIN script'[c] : i \in DOMAIN script[c] \/ i = Len(script[c]) + 1
  BY <1>4
<1>6. /\ q.id = changes + 1 /\ q.op = "publish" /\ q.name = about.name
      /\ q.bundle = about.bundle /\ q.of = about.of /\ q.by = c
  BY <1>2
<1> HIDE DEF q
<1>7. \A x : (\E d \in Uids : \E i \in DOMAIN script'[d] : script'[d][i] = x)
                 <=> x = q \/ \E d \in Uids : \E i \in DOMAIN script[d] : script[d][i] = x
  <2> SUFFICES ASSUME NEW x
               PROVE  (\E d \in Uids : \E i \in DOMAIN script'[d] : script'[d][i] = x)
                          <=> x = q \/ \E d \in Uids : \E i \in DOMAIN script[d] : script[d][i] = x
    OBVIOUS
  <2>1. ASSUME NEW d \in Uids, NEW i \in DOMAIN script'[d], script'[d][i] = x
        PROVE  x = q \/ \E k \in DOMAIN script[d] : script[d][k] = x
    BY <1>4, <1>5, <2>1
  <2>2. ASSUME NEW d \in Uids, NEW i \in DOMAIN script[d], script[d][i] = x
        PROVE  \E k \in DOMAIN script'[d] : script'[d][k] = x
    BY <1>4, <2>2
  <2>3. Len(script[c]) + 1 \in DOMAIN script'[c]
    BY <1>4
  <2> QED
    BY <1>1, <1>4, <2>1, <2>2, <2>3
<1>8. OnTheWay' = OnTheWay \cup {q}
  BY <1>2, <1>3, <1>7 DEF OnTheWay
<1>9. \A x \in OnTheWay : x.id # changes + 1 /\ x.id \in Nat
  <2> SUFFICES ASSUME NEW x \in OnTheWay PROVE x.id # changes + 1 /\ x.id \in Nat
    OBVIOUS
  <2>1. Asked(plan, changes, x.id)
    BY WayFacts, ComesIsAsked
  <2> QED
    BY <1>1, <1>2, <2>1, NextIsFresh DEF OnTheWay, ServiceCalls
<1>10. \A d \in done \cup InHand : d.id # changes + 1
  <2> SUFFICES ASSUME NEW d \in done \cup InHand PROVE d.id # changes + 1
    OBVIOUS
  <2>1. CASE d.op \in InLow
    <3>1. Asked(plan, changes, d.id)
      BY <2>1, ComesIsAsked DEF TInv, Coming, InHand
    <3> QED
      BY <1>1, <1>2, <3>1, NextIsFresh
  <2>2. CASE d.op \notin InLow
    <3>1. d \in done
      BY <2>2 DEF TInv, Coming, InHand, InLow
    <3>2. d.id \notin 1..plan.changes
      BY <2>2, <3>1 DEF NInv, Urgent
    <3> QED
      BY <1>1, <1>2, <3>2
  <2> QED
    BY <2>1, <2>2
<1>11. InHand' = InHand
  BY <1>2 DEF InHand
<1>12. Urgent'
  BY <1>2 DEF NInv, Urgent
<1>13. \A k \in 1..changes + 1 : k # changes + 1 => k \in 1..changes
  BY <1>1
<1>14. Fresh'
  <2> SUFFICES ASSUME NEW x \in OnTheWay', x.id \in 1..changes + 1, NEW d \in done \cup InHand
               PROVE  d.id # x.id
    BY <1>2, <1>11 DEF Fresh
  <2>1. CASE x = q
    BY <1>6, <1>10, <2>1
  <2>2. CASE x \in OnTheWay
    BY <1>9, <1>13, <2>2 DEF NInv, Fresh
  <2> QED
    BY <1>8, <2>1, <2>2
<1>15. Announcing'
  <2>1. changes + 1 \in 1..changes + 1 /\ \A k \in 1..changes : k \in 1..changes + 1
    BY <1>1
  <2> QED
    BY <1>2, <1>6, <1>8, <2>1 DEF NInv, Announcing
<1>16. Kept' => Kept
  <2> SUFFICES ASSUME Kept', NEW k \in 1..changes
               PROVE  \E x \in OnTheWay \cup done \cup InHand : x.id = k
    BY DEF Kept
  <2>1. k \in 1..changes + 1 /\ k # changes + 1
    BY <1>1
  <2>2. PICK x \in OnTheWay' \cup done \cup InHand : x.id = k
    BY <1>2, <1>11, <2>1 DEF Kept
  <2> QED
    BY <1>6, <1>8, <2>1, <2>2
<1> QED
  BY <1>1, <1>2, <1>6, <1>8, <1>9, <1>12, <1>14, <1>15, <1>16

\* A package changes.
LEMMA PackageNamed ==
    ASSUME TInv, OInv, NInv, NEW b \in Bundles, NEW u \in Users, NEW events \in Profiles,
           PackageChanges(b, u, events)
    PROVE  NInv'
<1> DEFINE about == PackageEvent(b, u, events)
<1>1. /\ u \in active /\ installed[u][b] # events
      /\ installed' = [installed EXCEPT ![u][b] = events]
      /\ UNCHANGED <<active, hasInitAllowList, hasInitValidSubscribers, validSubscribers, spoiled>>
      /\ Announce(PackageManager, about)
  BY DEF PackageChanges, ChangePackage, tableVars
<1>2. /\ about.name = IF installed[u][b] = {} THEN "added" ELSE IF events = {} THEN "removed" ELSE "changed"
      /\ about.bundle = b /\ about.of = u
  BY DEF PackageEvent, About
<1> HIDE DEF about
<1>3. about.name \in PackageNames /\ PackageNames \subseteq Names
  BY <1>2, StaticAssumption DEF PackageNames
<1>4. /\ \A x \in OnTheWay : x.id # changes + 1 /\ x.id \in Nat
      /\ changes' = changes + 1 /\ changes \in Nat
      /\ Urgent' /\ Fresh' /\ Announcing'
      /\ Kept' => Kept
  BY <1>1, <1>2, <1>3, AnnouncedOnTheWay
<1>5. PICK q : /\ OnTheWay' = OnTheWay \cup {q} /\ q.id = changes + 1 /\ q.op = "publish"
               /\ q.name = about.name /\ q.bundle = b /\ q.of = u
  BY <1>1, <1>2, <1>3, AnnouncedOnTheWay
<1>6. installed' \in [Users -> [Bundles -> Profiles]]
  BY <1>1 DEF NInv
<1>7. \A c \in Bundles, v \in Users :
          installed'[v][c] = IF c = b /\ v = u THEN events ELSE installed[v][c]
  BY <1>1 DEF NInv
<1>8. \A c, v : Pending(c, v)' = IF c = b /\ v = u THEN Pending(c, v) \cup {q} ELSE Pending(c, v)
  BY <1>3, <1>5 DEF Pending
<1>9. q.name = "removed" <=> events = {}
  BY <1>1, <1>2, <1>5
<1>10. \A c, v : \A p \in Pending(c, v) : p.id \in 1..changes
  BY DEF Pending, NInv, Announcing
<1>11. ASSUME NEW c \in Bundles, NEW v \in Users, LastSays(c, v)
       PROVE  LastSays(c, v)'
  <2>1. CASE c = b /\ v = u
    <3>1. q \in Pending(c, v)' /\ \A p \in Pending(c, v)' : p.id <= q.id
      BY <1>4, <1>5, <1>8, <1>10, <2>1
    <3> QED
      BY <1>7, <1>9, <2>1, <3>1 DEF LastSays
  <2>2. CASE ~(c = b /\ v = u)
    BY <1>7, <1>8, <1>11, <2>2 DEF LastSays
  <2> QED
    BY <2>1, <2>2
<1>12. FillPending => FillPending'
  <2>1. \A k \in 1..changes : k \in 1..changes + 1
    BY <1>4
  <2> QED
    BY <1>4, <1>5, <2>1 DEF FillPending
<1>13. ASSUME NEW c \in Bundles, NEW v \in active, Settled(c, v), LastSays(c, v)
       PROVE  Settled(c, v)'
  <2>1. v \in Users
    BY DEF OInv, StaticTypeOK
  <2>2. CASE ~(c = b /\ v = u)
    BY <1>1, <1>7, <1>8, <1>13, <2>1, <2>2 DEF Settled, Named, Lists, Declares
  <2>3. CASE c = b /\ v = u
    <3>1. Pending(c, v)' # {}
      BY <1>8, <2>3
    <3>2. ASSUME \A p \in Pending(c, v)' : p.name = "added", NEW dec \in Declarations, Named(dec, c, v)'
          PROVE  FALSE
      <4>1. q.name = "added" /\ \A p \in Pending(c, v) : p.name = "added"
        BY <1>8, <2>3, <3>2
      <4>2. installed[v][c] = {}
        BY <1>2, <1>5, <2>3, <4>1
      <4>3. Declares(dec, c, v)
        BY <1>1, <1>13, <3>2, <4>1 DEF Settled, Named, Lists
      <4> QED
        BY <4>2, <4>3 DEF Declares
    <3> QED
      BY <3>1, <3>2 DEF Settled
  <2> QED
    BY <2>2, <2>3
<1>14. ASSUME Kept', NEW c \in Bundles, NEW v \in Users
       PROVE  LastSays(c, v)'
  BY <1>4, <1>11, <1>14 DEF NInv
<1>15. ASSUME Kept', hasInitValidSubscribers', ~spoiled', ~FillPending', NEW c \in Bundles, NEW v \in active'
       PROVE  Settled(c, v)'
  <2>1. v \in Users /\ v \in active
    BY <1>1 DEF OInv, StaticTypeOK
  <2>2. Settled(c, v) /\ LastSays(c, v)
    BY <1>1, <1>4, <1>12, <1>15, <2>1 DEF NInv
  <2> QED
    BY <1>13, <2>1, <2>2
<1> QED
  BY <1>1, <1>4, <1>6, <1>14, <1>15 DEF NInv

\* A user starts, and the table is to be filled, or stops.
LEMMA UserNamed ==
    ASSUME PackagesAreAnnounced, TInv, OInv, NInv, NEW u \in Users,
           \/ UserStops(u)
           \/ \E name \in FillNames : UserStarts(u, name)
    PROVE  NInv'
<1>1. PICK name \in FillNames \cup {STOPPED} :
          /\ Announce(AccountManager, About(name, None, u))
          /\ active' \subseteq active \/ name \in FillNames
  BY DEF UserStops, UserStarts, StopUser
<1>2. UNCHANGED <<installed, hasInitAllowList, hasInitValidSubscribers, validSubscribers, spoiled>>
  BY DEF UserStops, UserStarts, StopUser, StartUser, tableVars
<1> DEFINE about == About(name, None, u)
<1>3. about.name = name /\ about.bundle = None /\ about.of = u
  BY DEF About
<1>4. Announce(AccountManager, about)
  BY <1>1
<1> HIDE DEF about
<1>5. about.name \in Names /\ about.name \notin PackageNames
  BY <1>3, StaticAssumption, ServiceAssumption DEF PackagesAreAnnounced
<1>6. /\ \A x \in OnTheWay : x.id # changes + 1 /\ x.id \in Nat
      /\ changes' = changes + 1 /\ changes \in Nat
      /\ Urgent' /\ Fresh' /\ Announcing'
      /\ Kept' => Kept
  BY <1>3, <1>4, <1>5, AnnouncedOnTheWay
<1>7. PICK q : OnTheWay' = OnTheWay \cup {q} /\ q.id = changes + 1 /\ q.op = "publish" /\ q.name = name
  BY <1>3, <1>4, <1>5, AnnouncedOnTheWay
<1>8. \A c, v : Pending(c, v)' = Pending(c, v)
  BY <1>3, <1>5, <1>7 DEF Pending
<1>9. FillPending => FillPending'
  <2>1. \A k \in 1..changes : k \in 1..changes + 1
    BY <1>6
  <2> QED
    BY <1>6, <1>7, <2>1 DEF FillPending
<1>10. name \in FillNames => FillPending'
  <2>1. changes + 1 \in 1..changes + 1
    BY <1>6
  <2> QED
    BY <1>6, <1>7, <2>1 DEF FillPending
<1>11. \A c, v : LastSays(c, v) => LastSays(c, v)'
  BY <1>2, <1>8 DEF LastSays
<1>12. \A c, v : Settled(c, v) => Settled(c, v)'
  BY <1>2, <1>8 DEF Settled, Named, Lists, Declares
<1>13. ASSUME Kept', NEW c \in Bundles, NEW v \in Users
       PROVE  LastSays(c, v)'
  BY <1>6, <1>11, <1>13 DEF NInv
<1>14. ASSUME Kept', hasInitValidSubscribers', ~spoiled', ~FillPending', NEW c \in Bundles, NEW v \in active'
       PROVE  Settled(c, v)'
  <2>1. v \in active /\ ~FillPending
    BY <1>1, <1>9, <1>10, <1>14
  <2> QED
    BY <1>2, <1>6, <1>12, <1>14, <2>1 DEF NInv
<1> QED
  BY <1>2, <1>6, <1>13, <1>14 DEF NInv

\* Calls go on to a binder thread and to the queue, or are refused or lost.
LEMMA GoingOn ==
    ASSUME TInv, OInv, NInv, NEW c \in Uids, BeginCall(c) \/ Post(c) \/ GetStickyCommonEvent(c)
    PROVE  NInv'
<1>1. /\ script \in [Uids -> Seq(ServiceCalls)] /\ binder \in [Uids -> BinderStates]
      /\ low \in Seq(ServiceCalls) /\ immediate \in Seq(ServiceCalls) /\ plan \in Plans
      /\ changes \in 0..plan.changes /\ plan.changes \in Nat
  BY ServiceAssumption DEF TInv, IInv, TypeOK, Coming
<1>2. UNCHANGED <<plan, changes, main, done, staticVars>>
  BY DEF BeginCall, Post, GetStickyCommonEvent, taskVars
<1>3. CASE BeginCall(c)
  <2>1. script[c] # <<>> /\ script' = [script EXCEPT ![c] = Tail(script[c])] /\ UNCHANGED <<low, immediate>>
    BY <1>1, <1>3 DEF BeginCall, taskVars
  <2>2. /\ 1 \in DOMAIN script[c] /\ Head(script[c]) = script[c][1]
        /\ \A i \in DOMAIN Tail(script[c]) : i + 1 \in DOMAIN script[c] /\ Tail(script[c])[i] = script[c][i + 1]
    BY <1>1, <2>1, TailFacts
  <2>3. \/ binder' = [binder EXCEPT ![c] = [at |-> "post", call |-> Head(script[c])]]
        \/ binder' = [binder EXCEPT ![c] = Idle]
    BY <1>3 DEF BeginCall, Answer
  <2>4. \A d \in Uids : \A i \in DOMAIN script'[d] : \E j \in DOMAIN script[d] : script'[d][i] = script[d][j]
    BY <1>1, <2>1, <2>2
  <2>5. \A d \in Uids : binder'[d].at = "post" =>
            \/ binder[d].at = "post" /\ binder'[d].call = binder[d].call
            \/ \E j \in DOMAIN script[d] : binder'[d].call = script[d][j]
    <3>1. ASSUME NEW d \in Uids, d # c
          PROVE  binder'[d] = binder[d]
      BY <1>1, <2>3, <3>1
    <3>2. \/ binder'[c] = Idle
          \/ binder'[c] = [at |-> "post", call |-> Head(script[c])]
      BY <1>1, <2>3
    <3>3. binder'[c].at = "post" => binder'[c].call = script[c][1]
      BY <2>2, <3>2 DEF Idle
    <3> QED
      BY <2>2, <3>1, <3>3
  <2>6. OnTheWay' \subseteq OnTheWay
    BY <2>1, <2>4, <2>5 DEF OnTheWay
  <2>7. Urgent'
    BY <1>2, <2>1 DEF NInv, Urgent
  <2> QED
    BY <1>2, <2>6, <2>7, NothingHandled DEF InHand, staticVars, worldVars, tableVars
<1>4. CASE Post(c) \/ GetStickyCommonEvent(c)
  <2> DEFINE call == binder[c].call
  <2>1. /\ binder[c].at = "post" /\ binder' = [binder EXCEPT ![c] = Idle] /\ UNCHANGED script
        /\ \/ UNCHANGED <<low, immediate>>
           \/ low' = Append(low, call) /\ UNCHANGED immediate
           \/ call.op \notin InLow /\ immediate' = Append(immediate, call) /\ UNCHANGED low
    BY <1>4 DEF Post, PostTask, PostedImmediate, InLow, GetStickyCommonEvent, Answer, taskVars
  <2>2. call \in ServiceCalls /\ call \in OnTheWay
    <3>1. binder[c] \in BinderStates
      BY <1>1
    <3>2. call \in ServiceCalls
      BY <2>1, <3>1 DEF BinderStates, Idle
    <3> QED
      BY <2>1, <3>2 DEF OnTheWay
  <2>3. \A d \in Uids : binder'[d].at = "post" => binder[d].at = "post" /\ binder'[d] = binder[d]
    BY <1>1, <2>1 DEF Idle
  <2> HIDE DEF call
  <2>4. \A i \in DOMAIN low' : low'[i] \in OnTheWay
    <3>1. \A i \in DOMAIN low : low[i] \in OnTheWay
      BY <1>1 DEF OnTheWay
    <3>2. CASE low' = Append(low, call)
      <4>1. \A i \in DOMAIN low' : i \in DOMAIN low \/ i = Len(low) + 1
        BY <1>1, <2>2, <3>2, AppendFacts
      <4> QED
        BY <1>1, <2>2, <3>1, <3>2, <4>1, AppendFacts
    <3> QED
      BY <2>1, <3>1, <3>2
  <2>5. OnTheWay' \subseteq OnTheWay
    BY <2>1, <2>3, <2>4 DEF OnTheWay
  <2>6. call.op \notin InLow => call.id \notin 1..plan.changes
    <3> SUFFICES ASSUME call.op \notin InLow PROVE call.id \notin 1..plan.changes
      OBVIOUS
    <3>1. call \in PlannedIn(plan)
      BY <2>2, WayFacts DEF Comes, InLow
    <3> QED
      BY <1>1, <3>1, AnnouncedIsNotPlanned
  <2>7. Urgent'
    <3>1. CASE UNCHANGED immediate
      BY <1>2, <3>1 DEF NInv, Urgent
    <3>2. CASE call.op \notin InLow /\ immediate' = Append(immediate, call)
      <4>1. \A i \in DOMAIN immediate' : i \in DOMAIN immediate \/ i = Len(immediate) + 1
        BY <1>1, <2>2, <3>2, AppendFacts
      <4>2. \A i \in DOMAIN immediate' : immediate'[i].id \notin 1..plan.changes
        BY <1>1, <2>2, <2>6, <3>2, <4>1, AppendFacts DEF NInv, Urgent
      <4> QED
        BY <1>2, <4>2 DEF NInv, Urgent
    <3> QED
      BY <2>1, <3>1, <3>2
  <2> QED
    BY <1>2, <2>5, <2>7, NothingHandled DEF InHand, staticVars, worldVars, tableVars
<1> QED
  BY <1>3, <1>4

\* What a task other than a publication that is allowed does.
LEMMA OtherTasks ==
    ASSUME NEW call, Execute(call)
    PROVE  \/ /\ UNCHANGED <<staticVars, main>>
              /\ \/ UNCHANGED done
                 \/ call.op # "publish" /\ done' = done \cup {call}
           \/ /\ call.op = "publish" /\ UNCHANGED done
              /\ UNCHANGED main \/ \E user : main' = [at |-> "hand", call |-> call, user |-> user]
              /\ \E e : /\ e.name = call.name /\ e.bundle = call.bundle /\ e.of = call.of
                        /\ StaticPublishCommonEvent(e)
<1>1. ASSUME NEW own \in OwnUser(call), InnerPublishCommonEvent(call, CheckUserId(call, own))
      PROVE  \/ UNCHANGED <<staticVars, main, done>>
             \/ /\ call.op = "publish" /\ UNCHANGED done
                /\ UNCHANGED main \/ \E user : main' = [at |-> "hand", call |-> call, user |-> user]
                /\ \E e : /\ e.name = call.name /\ e.bundle = call.bundle /\ e.of = call.of
                          /\ StaticPublishCommonEvent(e)
  <2> DEFINE user == CheckUserId(call, own)
             e == [name |-> call.name, user |-> user, id |-> call.id,
                   bundle |-> call.bundle, of |-> call.of]
  <2>1. call.op = "publish" /\ UNCHANGED done
    BY <1>1 DEF InnerPublishCommonEvent
  <2>2. CASE ~PublishAllowed(call, user)
    BY <1>1, <2>1, <2>2 DEF InnerPublishCommonEvent
  <2>3. CASE PublishAllowed(call, user)
    <3>1. StaticPublishCommonEvent(e) /\ (UNCHANGED main \/ main' = [at |-> "hand", call |-> call, user |-> user])
      BY <1>1, <2>3 DEF InnerPublishCommonEvent
    <3>2. e.name = call.name /\ e.bundle = call.bundle /\ e.of = call.of
      OBVIOUS
    <3> HIDE DEF e, user
    <3> QED
      BY <2>1, <3>1, <3>2
  <2> QED
    BY <2>2, <2>3
<1>2. ASSUME NEW own \in OwnUser(call), InnerSubscribeCommonEvent(call, CheckUserId(call, own))
      PROVE  /\ UNCHANGED <<staticVars, main>>
             /\ UNCHANGED done \/ (call.op # "publish" /\ done' = done \cup {call})
  BY <1>2 DEF InnerSubscribeCommonEvent, Executed
<1>3. CASE InnerUnsubscribeCommonEvent(call) \/ InnerFreeze(call)
  BY <1>3 DEF InnerUnsubscribeCommonEvent, InnerFreeze, Executed
<1> QED
  BY <1>1, <1>2, <1>3 DEF Execute

LEMMA TaskNamed ==
    ASSUME TInv, OInv, NInv, RunTask
    PROVE  NInv'
<1> DEFINE call == Head(immediate \o low)
<1>1. /\ low \in Seq(ServiceCalls) /\ immediate \in Seq(ServiceCalls) /\ plan \in Plans
      /\ UNCHANGED <<plan, changes, script, binder>> /\ Execute(call)
      /\ changes \in 0..plan.changes /\ plan.changes \in Nat /\ InHand = {}
  BY ServiceAssumption DEF TInv, IInv, TypeOK, Coming, RunTask, callVars, InHand, Idle
<1>2. \A k \in 1..changes : k \in 1..plan.changes
  BY <1>1
<1>3. ASSUME call.id \notin 1..plan.changes, call.op # "publish", OnTheWay' \subseteq OnTheWay,
             \A i \in DOMAIN immediate' : immediate'[i].id \notin 1..plan.changes
      PROVE  NInv'
  <2> HIDE DEF call
  <2>1. UNCHANGED <<staticVars, main>> /\ done' \subseteq done \cup {call}
    <3>1. /\ UNCHANGED <<staticVars, main>>
          /\ UNCHANGED done \/ done' = done \cup {call}
      BY <1>1, <1>3, OtherTasks
    <3> QED
      BY <3>1
  <2>2. Urgent'
    BY <1>1, <1>3, <2>1 DEF NInv, Urgent
  <2>3. \A d \in done' \cup InHand' : d \in done \cup InHand \/ d.id \notin 1..changes
    BY <1>2, <1>3, <2>1 DEF InHand
  <2> QED
    BY <1>1, <1>3, <2>1, <2>2, <2>3, NothingHandled DEF staticVars, worldVars, tableVars
<1>4. CASE immediate # <<>>
  <2>1. UNCHANGED low /\ immediate' = Tail(immediate)
    BY <1>4 DEF RunTask
  <2>2. call = immediate[1] /\ 1 \in DOMAIN immediate
    BY <1>1, <1>4
  <2>3. call.op # "publish" /\ call.id \notin 1..plan.changes
    BY <2>2 DEF TInv, Coming, InLow, NInv, Urgent
  <2>4. OnTheWay' = OnTheWay
    BY <1>1, <2>1 DEF OnTheWay
  <2>5. \A i \in DOMAIN immediate' : immediate'[i].id \notin 1..plan.changes
    BY <1>1, <1>4, <2>1, TailFacts DEF NInv, Urgent
  <2> QED
    BY <1>3, <2>3, <2>4, <2>5
<1>5. CASE immediate = <<>>
  <2>1. low # <<>> /\ low' = Tail(low) /\ UNCHANGED immediate
    BY <1>5 DEF RunTask
  <2>2. immediate \o low = low
    BY <1>1, <1>5
  <2>3. /\ 1 \in DOMAIN low /\ call = low[1] /\ DOMAIN low = 1..Len(low) /\ Len(low) \in Nat
        /\ DOMAIN low' = 1..Len(low) - 1
        /\ \A i \in DOMAIN low' : i \in Int /\ i + 1 # 1 /\ i + 1 \in DOMAIN low /\ low'[i] = low[i + 1]
    BY <1>1, <2>1, <2>2, TailFacts
  <2>4. call \in ServiceCalls /\ Comes(plan, changes, call) /\ call.op \in InLow /\ call \in OnTheWay
    BY <1>1, <2>3 DEF TInv, Coming, OnTheWay
  <2> HIDE DEF call
  <2>5. OnTheWay' = OnTheWay \ {call}
    <3>1. \A i \in DOMAIN low : i = 1 \/ (i - 1 \in DOMAIN low' /\ low'[i - 1] = low[i])
      <4> SUFFICES ASSUME NEW i \in DOMAIN low, i # 1
                   PROVE  i - 1 \in DOMAIN low' /\ low'[i - 1] = low[i]
        OBVIOUS
      <4>1. i - 1 \in DOMAIN low' /\ (i - 1) + 1 = i
        BY <2>3
      <4> QED
        BY <2>3, <4>1
    <3>2. ASSUME NEW x \in OnTheWay', x = call
          PROVE  FALSE
      <4>1. \A c \in Uids : \A i \in DOMAIN script[c] : script[c][i] # call
        BY <2>3 DEF OInv, OneEach, NotScripted
      <4>2. \A c \in Uids : binder[c].at = "post" => binder[c].call # call
        BY <2>3 DEF OInv, OneEach, NotPosted
      <4>3. \A i \in DOMAIN low' : low'[i] # call
        BY <2>3 DEF OInv, OneEach
      <4> QED
        BY <1>1, <3>2, <4>1, <4>2, <4>3 DEF OnTheWay
    <3>3. ASSUME NEW x \in OnTheWay'
          PROVE  x \in OnTheWay
      BY <1>1, <2>3 DEF OnTheWay
    <3>4. ASSUME NEW x \in OnTheWay, x # call
          PROVE  x \in OnTheWay'
      BY <1>1, <2>3, <3>1, <3>4 DEF OnTheWay
    <3> QED
      BY <3>2, <3>3, <3>4
  <2>6. CASE call.op # "publish"
    <3>1. call.id \notin 1..plan.changes
      BY <1>1, <2>4, <2>6, AnnouncedIsNotPlanned DEF Comes
    <3>2. \A i \in DOMAIN immediate' : immediate'[i].id \notin 1..plan.changes
      BY <2>1 DEF NInv, Urgent
    <3> QED
      BY <1>3, <2>5, <2>6, <3>1, <3>2
  <2>7. CASE call.op = "publish" /\ UNCHANGED <<staticVars, main, done>>
    <3>1. Urgent'
      BY <1>1, <2>1, <2>7 DEF NInv, Urgent
    <3> QED
      BY <1>1, <2>5, <2>7, <3>1, NothingHandled DEF staticVars, worldVars, tableVars, InHand
  <2>8. ASSUME call.op = "publish", UNCHANGED done,
               UNCHANGED main \/ \E user : main' = [at |-> "hand", call |-> call, user |-> user],
               NEW e, e.name = call.name, e.bundle = call.bundle, e.of = call.of, StaticPublishCommonEvent(e)
        PROVE  NInv'
    <3>1. InHand' \subseteq {call}
      <4>1. CASE UNCHANGED main
        BY <1>1, <4>1 DEF InHand
      <4>2. ASSUME NEW user, main' = [at |-> "hand", call |-> call, user |-> user]
            PROVE  InHand' \subseteq {call}
        BY <4>2 DEF InHand
      <4> QED
        BY <2>8, <4>1, <4>2
    <3>2. ASSUME NEW q \in OnTheWay, q # call, q.by = call.by, q.id \in 1..changes, call.id \in 1..changes
          PROVE  call.id < q.id
      <4>1. AheadOf(plan, call, binder, script) /\ \A j \in DOMAIN low : 1 < j => Before(plan, call, low[j])
        BY <2>3 DEF TInv, InTurn, TasksInTurn
      <4>2. \A j \in DOMAIN low : j = 1 \/ 1 < j
        BY <2>3
      <4>3. Before(plan, call, q)
        BY <2>3, <3>2, <4>1, <4>2 DEF OnTheWay, AheadOf
      <4> QED
        BY <1>2, <3>2, <4>3 DEF Before
    <3> QED
      BY <1>1, <2>1, <2>4, <2>5, <2>8, <3>1, <3>2, PublicationHandled
  <2> QED
    BY <1>1, <2>6, <2>7, <2>8, OtherTasks
<1> QED
  BY <1>4, <1>5

LEMMA NamedStep ==
    ASSUME PackagesAreAnnounced, TInv, OInv, NInv, [Next]_vars
    PROVE  NInv'
<1> USE DEF callVars, taskVars
<1>1. ASSUME UNCHANGED <<plan, changes, script, binder, low, immediate, main, done, staticVars>>
      PROVE  NInv'
  BY <1>1, NothingHandled DEF OnTheWay, InHand, NInv, Urgent, staticVars, worldVars, tableVars
<1>2. CASE HandOn
  <2>1. /\ UNCHANGED <<plan, changes, script, binder, low, immediate, staticVars>>
        /\ main.at = "hand" /\ done' = done \cup {main.call} /\ main' = Idle
    BY <1>2 DEF HandOn, Executed
  <2>2. main.call.op \in InLow
    BY <2>1 DEF TInv, Coming, InLow
  <2>3. Urgent'
    BY <2>1, <2>2 DEF NInv, Urgent
  <2>4. done' \cup InHand' = done \cup InHand
    BY <2>1 DEF InHand, Idle
  <2> QED
    BY <2>1, <2>3, <2>4, NothingHandled DEF OnTheWay, staticVars, worldVars, tableVars
<1>3. CASE OnStop
  <2>1. /\ UNCHANGED <<plan, changes, script, binder, main, done>> /\ low' = <<>> /\ immediate' = <<>>
        /\ UNCHANGED <<installed, active, hasInitAllowList, hasInitValidSubscribers, validSubscribers, spoiled>>
    BY <1>3 DEF OnStop, worldVars
  <2>2. OnTheWay' \subseteq OnTheWay /\ Urgent' /\ UNCHANGED InHand
    BY <2>1 DEF OnTheWay, NInv, Urgent, InHand
  <2> QED
    BY <2>1, <2>2, NothingHandled
<1>4. CASE OnStart \/ Passes
  BY <1>1, <1>4 DEF OnStart, Passes
<1>5. ASSUME NEW c \in connections, Connected(c) PROVE NInv'
  <2>1. /\ UNCHANGED <<plan, changes, script, binder, low, immediate, main, done>>
        /\ UNCHANGED <<installed, active, hasInitAllowList, hasInitValidSubscribers, validSubscribers, spoiled>>
    BY <1>5 DEF Connected, OnAbilityConnectDone, worldVars, tableVars
  <2> QED
    BY <2>1, NothingHandled DEF OnTheWay, InHand, NInv, Urgent
<1>6. CASE Changes
  BY <1>6, PackageNamed, UserNamed DEF Changes
<1>7. CASE UNCHANGED vars
  BY <1>1, <1>7 DEF vars
<1> QED
  BY <1>2, <1>3, <1>4, <1>5, <1>6, <1>7, GoingOn, TaskNamed DEF Next, Work

\* For all packages, users, callers, plans and failures: once everything that
\* was announced has been dealt with, the table of static subscribers agrees
\* with the packages of the active users, unless a query failed after it was
\* last filled, or an announcement was refused or lost.  Only the package
\* manager publishes the events of packages.
THEOREM TableStaysTrue ==
    ASSUME PackagesAreAnnounced
    PROVE  Spec => []TableIsTrue
<1>1. Init => NInv
  BY NamedInit
<1>2. TInv /\ OInv /\ NInv /\ [Next]_vars => NInv'
  BY NamedStep
<1>3. TInv /\ OInv /\ NInv => TableIsTrue
  <2> SUFFICES ASSUME TInv, OInv, NInv, Resting, hasInitValidSubscribers, ~spoiled, AllDone
               PROVE  TableAgrees
    BY DEF TableIsTrue
  <2>1. OnTheWay = {}
    BY DEF OnTheWay, Resting, Idle
  <2>2. Kept
    BY DEF Kept, AllDone
  <2>3. ~FillPending /\ \A b, u : Pending(b, u) = {}
    BY <2>1 DEF FillPending, Pending
  <2>4. ASSUME NEW dec \in Declarations, NEW u \in active, NEW b \in Bundles
        PROVE  Named(dec, b, u) <=> Declares(dec, b, u)
    <3>1. Settled(b, u)
      BY <2>2, <2>3 DEF NInv
    <3> QED
      BY <2>3, <3>1 DEF Settled
  <2>5. ASSUME NEW n \in Names, NEW u \in active, NEW b \in Bundles, NEW p \in Permissions
        PROVE  [bundle |-> b, user |-> u, permission |-> p] \in ToSet(validSubscribers[n])
                   <=> b \in AllowList /\ [name |-> n, permission |-> p] \in installed[u][b]
    <3> DEFINE dec == [name |-> n, permission |-> p]
    <3>1. dec \in Declarations /\ dec.name = n /\ dec.permission = p
      BY DEF Declarations
    <3> HIDE DEF dec
    <3>2. Named(dec, b, u) <=> Declares(dec, b, u)
      BY <2>4, <3>1
    <3>3. [bundle |-> b, user |-> u, permission |-> p] \in ToSet(validSubscribers[n])
              <=> b \in AllowList /\ dec \in installed[u][b]
      BY <3>1, <3>2 DEF Named, Declares, Lists, Entry
    <3> QED
      BY <3>3 DEF dec
  <2> QED
    BY <2>5 DEF TableAgrees
<1>4. Init => OInv
  BY OnceInit
<1>5. TInv /\ OInv /\ [Next]_vars => OInv'
  BY OnceStep
<1> QED
  BY <1>1, <1>2, <1>3, <1>4, <1>5, CallsAreInTurn, PTL DEF Spec
=============================================================================
