------------------------- MODULE CommonEventService -------------------------
(***************************************************************************)
(* The service's front end and its composition: CommonEventManagerService  *)
(* takes a call on a binder thread, checks that it is ready and that the   *)
(* caller does not flood it, and posts the rest to the main thread, where  *)
(* InnerCommonEventManager checks who may do what for which user and calls *)
(* the managers: static subscribers, sticky events, registry, dispatch.    *)
(*                                                                         *)
(* A uid is one thread: it makes its calls one after the other and waits   *)
(* for each answer, which is what PostTask says; a call whose proxy is     *)
(* TRUE is one that a service makes for it.  The registry and the dispatch *)
(* are seen here through what they are handed (subscribers, handed); their *)
(* modules are SubscriberRegistry, UnorderedDispatch and OrderedDispatch.  *)
(***************************************************************************)
EXTENDS StaticSubscribers, FloodControl, Functions

CONSTANTS
    Caller,         \* [Uids -> [kind, user, known, sticky]]: what the service finds out of a
                    \* uid; the account manager may fail to tell the user if not known
    Plans,          \* what may happen: set of [calls, changes], the calls of each uid and
                    \* how many packages and users change
    STOPPED,        \* the name of the event that a user has stopped
    SystemEvents,   \* names only the system may publish
    PackageManager, AccountManager,     \* callers that publish what changes
    None

Kinds == {"native", "systemApp", "app"}

\* What a call says; bundle and of are about a package or a user that changed.
\* A call for somebody else carries the token of the one who makes it.
ServiceCalls ==
    {call \in
        [by : Uids, id : Nat, op : {"publish", "subscribe", "unsubscribe", "freeze", "unfreeze", "getSticky"},
         name : Names \cup {None}, user : Int, sticky : BOOLEAN, ordered : BOOLEAN, last : BOOLEAN,
         proxy : BOOLEAN, token : Uids, bundle : Bundles \cup {None}, of : Users \cup {None}] :
     call.proxy \/ call.token = call.by}

ASSUME ServiceAssumption ==
    /\ \A c \in Uids : Caller[c].kind \in Kinds /\ Caller[c].user \in Nat /\ Caller[c].known \in BOOLEAN
    /\ {PackageManager, AccountManager} \subseteq Uids
    /\ \A p \in Plans : p.changes \in Nat /\ p.calls \in [Uids -> Seq(ServiceCalls)]
    /\ None \notin Names /\ STOPPED \in Names

\* An id names one call: those of a plan, and the numbers of the changes.
ASSUME CallsAssumption ==
    \A p \in Plans : \A c \in Uids : \A i \in DOMAIN p.calls[c] :
        /\ p.calls[c][i].by = c /\ p.calls[c][i].id \notin 1..p.changes
        /\ \A d \in Uids : \A j \in DOMAIN p.calls[d] :
               p.calls[c][i].id = p.calls[d][j].id => c = d /\ i = j

VARIABLES
    plan,           \* the one of Plans
    script,         \* [Uids -> calls still to be made]
    binder,         \* [Uids -> where its call is, on a binder thread]
    running,        \* serviceRunningState_, and handler_ is there
    changes,        \* counter, for the bound
    crashed,        \* a null handler_ was used
    immediate, low, \* main thread: tasks by priority
    main,           \* main thread: a publication about to be handed on, or Idle
    sticky,         \* [Names -> id of the sticky event, or None]
    subscribers,    \* the registry: set of [caller, user]
    frozen,         \* callers whose uid is frozen
    owed,           \* ids answered TRUE whose task has not run (history variable)
    done,           \* calls executed, by who may (history variable)
    handed,         \* Seq: what dispatch was given (history variable)
    reads           \* sticky events read, and how much had been handed on (history variable)

callVars  == <<plan, script, binder, reads>>
stateVars == <<running, crashed>>
taskVars  == <<immediate, low, main, owed, done>>
innerVars == <<sticky, subscribers, frozen, handed>>
vars == <<callVars, stateVars, taskVars, innerVars, changes, staticVars, floodVars>>

Idle == [at |-> "idle"]

Init ==
    /\ StaticInit /\ FloodInit
    /\ plan \in Plans /\ script = plan.calls /\ binder = [c \in Uids |-> Idle]
    /\ running = FALSE /\ changes = 0 /\ crashed = FALSE
    /\ immediate = <<>> /\ low = <<>> /\ main = Idle
    /\ sticky = [n \in Names |-> None] /\ subscribers = {} /\ frozen = {}
    /\ owed = {} /\ done = {} /\ handed = <<>> /\ reads = {}

-----------------------------------------------------------------------------
(* The service starts and stops; the managers behind it are singletons and *)
(* keep what they know, the runner's tasks are lost.                       *)

OnStart ==
    /\ ~running /\ ~crashed
    /\ running' = TRUE
    /\ UNCHANGED <<callVars, crashed, taskVars, innerVars, changes, staticVars, floodVars>>

OnStop ==
    /\ running /\ MayFail
    /\ running' = FALSE /\ failures' = failures + 1
    /\ immediate' = <<>> /\ low' = <<>> /\ owed' = {}
    /\ UNCHANGED <<callVars, crashed, main, done, innerVars, changes, worldVars, hasInitAllowList,
                   hasInitValidSubscribers, validSubscribers, spoiled, connections, connected, floodVars>>

-----------------------------------------------------------------------------
(* Binder threads *)

\* A call is answered; one that is accepted has been posted.
Answer(c) == binder' = [binder EXCEPT ![c] = Idle]

\* IsReady and, for a publication, the check for a flood: nothing that happens
\* between them makes a difference to either.
BeginCall(c) ==
    LET call == Head(script[c]) IN
    /\ binder[c] = Idle /\ script[c] # <<>>
    /\ script' = [script EXCEPT ![c] = Tail(@)]
    /\ IF running /\ call.op = "publish" THEN CheckIsFloodAttack(c) ELSE UNCHANGED floodVars
    /\ IF running /\ ~(call.op = "publish" /\ Last(calls'[c]).attacked)
       THEN binder' = [binder EXCEPT ![c] = [at |-> "post", call |-> call]]
       ELSE Answer(c)
    /\ UNCHANGED <<plan, reads, stateVars, taskVars, innerVars, changes, staticVars>>

\* Mutant: a publication is as urgent as a freeze.
MorePosted(op) == op \in {"freeze", "unfreeze", "publish"}

PostedImmediate(op) == op \in {"freeze", "unfreeze"}

Posted == {"publish", "subscribe", "unsubscribe", "freeze", "unfreeze"}

\* Mutant: a task takes the place of those that wait.
PostReplaces(call) == low' = <<call>>

PostTask(call) == low' = Append(low, call)

\* handler_ may be gone since IsReady looked: then the process ends.
Post(c) ==
    LET call == binder[c].call IN
    /\ binder[c].at = "post" /\ call.op \in Posted
    /\ IF running
       THEN /\ IF PostedImmediate(call.op)
               THEN immediate' = Append(immediate, call) /\ UNCHANGED low
               ELSE PostTask(call) /\ UNCHANGED immediate
            /\ owed' = owed \cup {call.id}
            /\ UNCHANGED crashed
       ELSE crashed' = TRUE /\ UNCHANGED <<immediate, low, owed>>
    /\ Answer(c)
    /\ UNCHANGED <<plan, script, reads, running, main, done, innerVars, changes, staticVars, floodVars>>

\* Read on the binder thread itself, under the mutex of the sticky manager.
GetStickyCommonEvent(c) ==
    LET call == binder[c].call IN
    /\ binder[c].at = "post" /\ call.op = "getSticky" /\ ~crashed
    /\ IF Caller[c].sticky /\ call.name # None /\ sticky[call.name] # None
       THEN reads' = reads \cup {[name |-> call.name, id |-> sticky[call.name], seen |-> Len(handed)]}
       ELSE UNCHANGED reads
    /\ Answer(c)
    /\ UNCHANGED <<plan, script, stateVars, taskVars, innerVars, changes, staticVars, floodVars>>

-----------------------------------------------------------------------------
(* InnerCommonEventManager, on the main thread *)

\* The token says whether a native process calls, the uid whether it is that
\* of a system application.
IsSubsystem(call) == Caller[call.token].kind = "native"
IsSystemApp(call) == ~IsSubsystem(call) /\ Caller[call.by].kind = "systemApp"
IsSystem(call) == IsSubsystem(call) \/ IsSystemApp(call)

Refused == -4

\* GetOsAccountLocalIdFromUid: the caller's own user; when it fails, which is
\* not looked at, the user stays the one that was asked for.
OwnUser(call) ==
    {Caller[call.by].user} \cup (IF Caller[call.by].known THEN {} ELSE {call.user})

\* The system may name any user.
SystemUser(call, own) ==
    CASE call.user = CURRENT_USER   -> own
      [] call.user = UNDEFINED_USER -> ALL_USER
      [] OTHER                      -> call.user

\* Mutant: a call for another uid has the rights of that uid.
CheckAsIfNotProxy(call, own) ==
    IF call.user < UNDEFINED_USER THEN Refused
    ELSE IF IsSystem(call) THEN SystemUser(call, own)
    ELSE IF call.user = UNDEFINED_USER THEN own ELSE Refused

\* The user a call is for, or Refused.
CheckUserId(call, own) ==
    IF call.user < UNDEFINED_USER THEN Refused
    ELSE IF IsSystem(call) /\ ~call.proxy THEN SystemUser(call, own)
    ELSE IF call.user = UNDEFINED_USER THEN own ELSE Refused

MayPublishSticky(call) ==
    \/ Caller[call.token].sticky /\ IsSystemApp(call)
    \/ ~call.proxy /\ IsSubsystem(call)

\* The checks of PublishCommonEvent that come before anything is done.
PublishAllowed(call, user) ==
    /\ call.name # None
    /\ call.ordered \/ ~call.last
    /\ user # Refused
    /\ call.name \in SystemEvents => IsSystem(call)

\* A history of the calls that were executed and allowed.
Executed(call) == done' = done \cup {call}

\* Mutant: an event of the same name stays.
UpdateStickyIfNew(call) ==
    sticky' = [sticky EXCEPT ![call.name] = IF @ = None THEN call.id ELSE @]

UpdateStickyEvent(call) == sticky' = [sticky EXCEPT ![call.name] = call.id]

\* Static subscribers are served before the right to publish a sticky event
\* is looked at.
InnerPublishCommonEvent(call, user) ==
    /\ call.op = "publish"
    /\ IF PublishAllowed(call, user)
       THEN /\ StaticPublishCommonEvent([name |-> call.name, user |-> user, id |-> call.id,
                                         bundle |-> call.bundle, of |-> call.of])
            /\ IF call.sticky /\ ~MayPublishSticky(call)
               THEN UNCHANGED <<sticky, main>>
               ELSE /\ IF call.sticky THEN UpdateStickyEvent(call) ELSE UNCHANGED sticky
                    /\ main' = [at |-> "hand", call |-> call, user |-> user]
       ELSE UNCHANGED <<sticky, main, staticVars>>
    /\ UNCHANGED <<subscribers, frozen, handed, done>>

Receivers(call, user) ==
    {s \in subscribers : CheckSubscriberByUserId(s.user, IsSystem(call) /\ ~call.proxy, user)}

\* The dispatch takes its snapshot of the receivers.  The second event of a
\* mapped name is PublishMapped of UnorderedDispatch.
HandOn ==
    /\ main.at = "hand" /\ ~crashed
    /\ handed' = Append(handed, [call |-> main.call, user |-> main.user,
                                 to |-> {s.caller : s \in Receivers(main.call, main.user)}])
    /\ Executed(main.call)
    /\ main' = Idle
    /\ UNCHANGED <<callVars, stateVars, immediate, low, owed, sticky, subscribers, frozen, changes,
                   staticVars, floodVars>>

\* One listener for each caller, for every name; what PublishStickyEvent sends
\* it is in UnorderedDispatch.
InnerSubscribeCommonEvent(call, user) ==
    /\ call.op = "subscribe"
    /\ IF user = Refused THEN UNCHANGED <<subscribers, done>>
       ELSE subscribers' = subscribers \cup {[caller |-> call.by, user |-> user]} /\ Executed(call)
    /\ UNCHANGED <<main, sticky, frozen, handed, staticVars>>

InnerUnsubscribeCommonEvent(call) ==
    /\ call.op = "unsubscribe"
    /\ subscribers' = {s \in subscribers : s.caller # call.by}
    /\ Executed(call)
    /\ UNCHANGED <<main, sticky, frozen, handed, staticVars>>

\* Freeze and Unfreeze, of the caller's own uid.
InnerFreeze(call) ==
    /\ call.op \in {"freeze", "unfreeze"}
    /\ frozen' = IF call.op = "freeze" THEN frozen \cup {call.by} ELSE frozen \ {call.by}
    /\ Executed(call)
    /\ UNCHANGED <<main, sticky, subscribers, handed, staticVars>>

Execute(call) ==
    \/ \E own \in OwnUser(call) :
           LET user == CheckUserId(call, own) IN
           InnerPublishCommonEvent(call, user) \/ InnerSubscribeCommonEvent(call, user)
    \/ InnerUnsubscribeCommonEvent(call) \/ InnerFreeze(call)

\* The runner takes an immediate task before any other.
RunTask ==
    /\ running /\ main = Idle
    /\ IF immediate # <<>>
       THEN immediate' = Tail(immediate) /\ UNCHANGED low
       ELSE low # <<>> /\ low' = Tail(low) /\ UNCHANGED immediate
    /\ LET call == Head(immediate \o low) IN Execute(call) /\ owed' = owed \ {call.id}
    /\ UNCHANGED <<callVars, stateVars, changes, floodVars>>

-----------------------------------------------------------------------------
(* What other services do, and the clock *)

\* The package manager and the account manager publish what they change, for
\* every user; the id is the number of the change.
Announce(c, about) ==
    /\ changes < plan.changes /\ changes' = changes + 1
    /\ script' = [script EXCEPT ![c] = Append(@,
           [op |-> "publish", by |-> c, id |-> changes', user |-> UNDEFINED_USER,
            name |-> about.name, bundle |-> about.bundle, of |-> about.of,
            sticky |-> FALSE, ordered |-> FALSE, last |-> FALSE, proxy |-> FALSE, token |-> c])]
    /\ UNCHANGED <<plan, binder, reads, stateVars, taskVars, innerVars, floodVars>>

PackageChanges(b, u, events) == ChangePackage(b, u, events) /\ Announce(PackageManager, PackageEvent(b, u, events))

UserStarts(u, name) == StartUser(u) /\ Announce(AccountManager, About(name, None, u))

\* What is published about it is not of FillNames.
UserStops(u) == StopUser(u) /\ Announce(AccountManager, About(STOPPED, None, u))

Connected(c) ==
    /\ ~crashed /\ OnAbilityConnectDone(c)
    /\ UNCHANGED <<callVars, stateVars, taskVars, innerVars, changes, floodVars>>

Passes ==
    /\ FloodTick
    /\ UNCHANGED <<callVars, stateVars, taskVars, innerVars, changes, staticVars>>

Work ==
    \/ \E c \in Uids : BeginCall(c) \/ Post(c) \/ GetStickyCommonEvent(c)
    \/ RunTask \/ HandOn \/ OnStart
    \/ \E c \in connections : Connected(c)

Changes ==
    \/ \E b \in Bundles, u \in Users : \E events \in Profiles : PackageChanges(b, u, events)
    \/ \E u \in Users : UserStops(u) \/ \E name \in FillNames : UserStarts(u, name)

Next == Work \/ OnStop \/ Changes \/ Passes

Spec == Init /\ [][Next]_vars
FairSpec == Spec /\ WF_vars(Work)
-----------------------------------------------------------------------------
(* Properties *)

Resting ==
    /\ \A c \in Uids : script[c] = <<>> /\ binder[c] = Idle
    /\ immediate = <<>> /\ low = <<>> /\ main = Idle

\* Every change has been published.
AllDone == 1..changes \subseteq {d.id : d \in done}

\* When every change has been published and dealt with, the table of static
\* subscribers agrees with the packages of the active users, unless a query
\* has failed since it was last filled, or an event was refused or lost.
TableIsTrue ==
    (Resting /\ hasInitValidSubscribers /\ ~spoiled /\ AllDone) => TableAgrees

\* What an application publishes, or somebody for it, is handed on for its own
\* user, or for none if the account manager does not know it; whatever else was
\* asked for, the service is left with a user that it can compare.
OnlyOwnUser ==
    \A i \in DOMAIN handed :
        LET c == Caller[handed[i].call.by] IN
        /\ c.known => handed[i].user \in Nat \cup {ALL_USER}
        /\ handed[i].call.proxy \/ c.kind = "app" =>
               handed[i].user = c.user \/ (~c.known /\ handed[i].user = UNDEFINED_USER)

CallIndex(call) == CHOOSE i \in DOMAIN plan.calls[call.by] : plan.calls[call.by][i] = call

\* What was done about the subscription of a caller because of calls it made
\* before this one.
SubscriptionsBefore(call) ==
    {d \in done : /\ d.by = call.by /\ d.op \in {"subscribe", "unsubscribe"}
                  /\ CallIndex(d) < CallIndex(call)}

\* Of these, the subscriptions that no later call took back.
Standing(calls_) ==
    {d \in calls_ : d.op = "subscribe" /\ \A o \in calls_ : o.op = "unsubscribe" => CallIndex(o) < CallIndex(d)}

\* A caller is among the receivers of its own publication exactly when a
\* subscription that stands, of the calls it made before, is for a user that
\* the publication reaches: the answers come before the work, yet the work is
\* done in the order of the calls.  (A caller whose user may not be found may
\* be subscribed for no user.)
ReceiversFollowCalls ==
    \A i \in DOMAIN handed :
        LET p == handed[i].call
        IN  p.by \notin {PackageManager, AccountManager} /\ Caller[p.by].known =>
                (p.by \in handed[i].to <=>
                    \E d \in Standing(SubscriptionsBefore(p)) :
                        CheckSubscriberByUserId(CheckUserId(d, Caller[p.by].user),
                                                IsSystem(p) /\ ~p.proxy, handed[i].user))

\* Once a sticky event has been handed on, nobody reads an earlier one of its
\* name.
HandedIsReadable ==
    \A r \in reads : \A i \in 1..r.seen :
        LET h == handed[i].call IN
        (h.sticky /\ h.name = r.name /\ h.id # r.id) =>
            \A j \in 1..i : handed[j].call.id # r.id

\* The service comes to rest, having run every task that it accepted.
EverythingSettles ==
    []<>(crashed \/ (Resting /\ connections = {} /\ owed = {}))
=============================================================================
