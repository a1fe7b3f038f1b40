------------------------- MODULE StaticSubscribers -------------------------
(***************************************************************************)
(* StaticSubscriberManager: extensions that an application declares in its *)
(* package and that the service starts to hand them an event.  The table   *)
(* of valid subscribers is a cache of what the bundle manager knows; it is *)
(* filled on the first publication and on the events of FillNames, and     *)
(* kept up to date by the package events that other processes publish.     *)
(* Each operation runs on the main thread, under subscriberMutex_.         *)
(*                                                                         *)
(* External: the bundle manager (installed) and the account manager        *)
(* (active); each query of them may fail, MAX_FAILURES times.              *)
(***************************************************************************)
EXTENDS UserIds, Selection, FiniteSets, SequencesExt

CONSTANTS
    Names,                  \* names of events
    FillNames,              \* boot, user switched and started, uid removed
    Bundles, AllowList,     \* packages; those in the configuration file
    Users,                  \* user ids of installed packages
    Permissions,            \* what a publisher may have to hold, or none
    Profiles,               \* sets of [name, permission] that profiles declare, {} for no package
    Denied,                 \* <<bundle or permission, event id>>: a permission that the
                            \* subscriber or the publisher does not hold
    MAX_FAILURES            \* bound: what fails

PackageNames == {"added", "changed", "removed"}

ASSUME StaticAssumption ==
    /\ FillNames \cup PackageNames \subseteq Names /\ FillNames \cap PackageNames = {}
    /\ AllowList \subseteq Bundles /\ Users \subseteq Nat /\ MAX_FAILURES \in Nat
    /\ {} \in Profiles /\ Profiles \subseteq SUBSET [name : Names, permission : Permissions]
    /\ IsFiniteSet(Bundles) /\ IsFiniteSet(Users) /\ IsFiniteSet(Permissions)

VARIABLES
    installed,                  \* [Users -> [Bundles -> Profiles]]: what its profile declares
    active,                     \* active users
    hasInitAllowList, hasInitValidSubscribers,
    validSubscribers,           \* [Names -> Seq([bundle, user, permission])]
    spoiled,                    \* a query failed since the last fill (history variable)
    failures,                   \* counter, for the bound
    connections,                \* ConnectAbility calls without their OnAbilityConnectDone
    connected                   \* Seq([to, event]): all of them (history variable)

worldVars  == <<installed, active>>
tableVars  == <<hasInitAllowList, hasInitValidSubscribers, validSubscribers, spoiled, failures>>
staticVars == <<worldVars, tableVars, connections, connected>>

NoSubscribers == [n \in Names |-> <<>>]

StaticInit ==
    /\ installed \in [Users -> [Bundles -> Profiles]]
    /\ active \in SUBSET Users
    /\ hasInitAllowList = FALSE /\ hasInitValidSubscribers = FALSE
    /\ validSubscribers = NoSubscribers /\ spoiled = FALSE /\ failures = 0
    /\ connections = {} /\ connected = <<>>

-----------------------------------------------------------------------------
(* The table *)

MayFail == failures < MAX_FAILURES

\* What a query about each of S answers: all of it, or some.
Answered(S) == IF MayFail THEN SUBSET S ELSE {S}

\* Mutant: an entry that is there is added again.
AddAnyway(entries, found) == entries \o SetToSeq(found)

\* The order of the new ones is the bundle manager's.
AddToValidSubscribers(entries, found) == entries \o SetToSeq(found \ ToSet(entries))

Extension(s) == [bundle |-> s.bundle, user |-> s.user]

\* The entries of one event that the profiles of some extensions ask for: an
\* event that is declared with two permissions has one for each.
Declared(n, extensions) ==
    {s \in [bundle : AllowList, user : Users, permission : Permissions] :
        /\ Extension(s) \in extensions
        /\ [name |-> n, permission |-> s.permission] \in installed[s.user][s.bundle]}

\* AddSubscriber: the profile of an extension is read, its user looked up and
\* each event it names is entered.
AddSubscribers(entries, n, extensions) == AddToValidSubscribers(entries, Declared(n, extensions))

Extensions(users) ==
    {s \in [bundle : AllowList, user : users] : installed[s.user][s.bundle] # {}}

AddAll(table, extensions) == [n \in Names |-> AddSubscribers(table[n], n, extensions)]

\* Mutant: the entry behind one that is erased is skipped.
RemoveSkipping(table, b, u) ==
    LET goes(s) == Extension(s) = [bundle |-> b, user |-> u]
    IN  [n \in Names |-> Selected(table[n],
            {table[n][i] : i \in {j \in DOMAIN table[n] :
                ~goes(table[n][j]) \/ (j > 1 /\ goes(table[n][j - 1]))}})]

RemoveSubscriberWithBundleName(table, b, u) ==
    [n \in Names |-> Selected(table[n], {s \in ToSet(table[n]) : Extension(s) # [bundle |-> b, user |-> u]})]

AddSubscriberWithBundleName(table, b, u, answered) ==
    AddAll(table, {s \in answered : s = [bundle |-> b, user |-> u]})

\* UpdateSubscriber, for an event about package b of user u; the account
\* manager may not know the user.
UpdateSubscriber(table, e, known, answered) ==
    LET b == e.bundle
        u == e.of
    IN  IF ~known \/ u \notin active THEN table
        ELSE CASE e.name = "added"   -> AddSubscriberWithBundleName(table, b, u, answered)
               [] e.name = "removed" -> RemoveSubscriberWithBundleName(table, b, u)
               [] e.name = "changed" -> AddSubscriberWithBundleName(
                                            RemoveSubscriberWithBundleName(table, b, u), b, u, answered)
               [] OTHER              -> table

FillsBefore(name) == ~hasInitValidSubscribers \/ name \in FillNames

-----------------------------------------------------------------------------
(* PublishCommonEvent of event e, which has a name, a user and an id *)

Receives(s, e) ==
    /\ s.user >= SUBSCRIBE_USER_SYSTEM_BEGIN
    /\ s.user > SUBSCRIBE_USER_SYSTEM_END /\ e.user # ALL_USER => s.user = e.user
    /\ <<s.permission, e.id>> \notin Denied /\ <<s.bundle, e.id>> \notin Denied

\* ConnectAbility; the ability manager may be out of reach.
ConnectAbility(targets, reached, e) ==
    LET new == Selected(targets, reached)
    IN  /\ connections' = connections \cup {[to |-> s, event |-> e.id] : s \in reached}
        /\ connected' = connected \o [i \in DOMAIN new |-> [to |-> new[i], event |-> e.id]]

\* The configuration file cannot be opened.
NoAllowList ==
    /\ MayFail /\ ~hasInitAllowList
    /\ failures' = failures + 1
    /\ UNCHANGED <<worldVars, hasInitAllowList, hasInitValidSubscribers, validSubscribers, spoiled,
                   connections, connected>>

\* InitValidSubscribers has cleared the table when the query fails, as it
\* always does while no user is active.
NoExtensions(e) ==
    /\ FillsBefore(e.name) /\ (MayFail \/ active = {})
    /\ hasInitAllowList' = TRUE
    /\ validSubscribers' = NoSubscribers /\ spoiled' = TRUE
    /\ failures' = IF active = {} THEN failures ELSE failures + 1
    /\ UNCHANGED <<worldVars, hasInitValidSubscribers, connections, connected>>

\* The queries of single users and profiles are not checked.
StaticPublish(e) ==
    \E answered \in Answered(Extensions(active)), known \in {TRUE, ~(MayFail /\ e.name \in PackageNames)} :
        LET fill    == FillsBefore(e.name)
            table   == UpdateSubscriber(
                           IF fill THEN AddAll(NoSubscribers, answered) ELSE validSubscribers,
                           e, known, answered)
            targets == Selected(table[e.name], {s \in ToSet(table[e.name]) : Receives(s, e)})
            incomplete == ~known \/ answered # Extensions(active)
        IN  /\ ~(fill /\ active = {})
            /\ \E reached \in Answered(ToSet(targets)) :
                /\ hasInitAllowList' = TRUE /\ hasInitValidSubscribers' = TRUE
                /\ validSubscribers' = table
                /\ spoiled' = ((spoiled /\ ~fill) \/ incomplete)
                /\ failures' = IF incomplete \/ reached # ToSet(targets) THEN failures + 1 ELSE failures
                /\ ConnectAbility(targets, reached, e)
                /\ UNCHANGED worldVars

StaticPublishCommonEvent(e) == NoAllowList \/ NoExtensions(e) \/ StaticPublish(e)

\* The extension is running: OnReceiveEvent is called.  Nothing disconnects it.
OnAbilityConnectDone(c) ==
    /\ c \in connections
    /\ connections' = connections \ {c}
    /\ UNCHANGED <<worldVars, tableVars, connected>>

-----------------------------------------------------------------------------
(* External: packages and users change, and what is published about it *)

About(name, b, u) == [name |-> name, bundle |-> b, of |-> u]

\* A package is installed, updated or removed.
ChangePackage(b, u, events) ==
    /\ u \in active /\ installed[u][b] # events
    /\ installed' = [installed EXCEPT ![u][b] = events]
    /\ UNCHANGED <<active, tableVars, connections, connected>>

PackageEvent(b, u, events) ==
    About(IF installed[u][b] = {} THEN "added" ELSE IF events = {} THEN "removed" ELSE "changed", b, u)

StartUser(u) ==
    /\ u \notin active
    /\ active' = active \cup {u}
    /\ UNCHANGED <<installed, tableVars, connections, connected>>

StopUser(u) ==
    /\ u \in active
    /\ active' = active \ {u}
    /\ UNCHANGED <<installed, tableVars, connections, connected>>

-----------------------------------------------------------------------------
(* Properties *)

\* No publication starts an extension twice for the same permission, however
\* often its package was added, changed and found by a fill.  (One that is in
\* the table with two permissions is started for each of them.)
StartedOnce == \A i, j \in DOMAIN connected : connected[i] = connected[j] => i = j

\* What the table says of an active user is what is installed for it.
TableAgrees ==
    \A n \in Names, u \in active, b \in Bundles, p \in Permissions :
        [bundle |-> b, user |-> u, permission |-> p] \in ToSet(validSubscribers[n])
            <=> b \in AllowList /\ [name |-> n, permission |-> p] \in installed[u][b]
=============================================================================
