----------------------------- MODULE EventRules -----------------------------
(***************************************************************************)
(* The rules that decide who gets an event and what a dump shows: matching *)
(* skills, the table of permissions and the checks made with it, and the   *)
(* filters of the dump.  Operators only.                                   *)
(***************************************************************************)
EXTENDS UserIds, Selection, FiniteSetsExt, SequencesExt, Strings16

CONSTANTS
    CommonEventMap      \* COMMON_EVENT_MAP: Seq([event, state, names]), events distinct

\* The keys of the map are distinct, its states say what to do with more names
\* than one, and OR has some.
ASSUME CommonEventMapAssumption ==
    /\ CommonEventMap \in Seq(ToSet(CommonEventMap))
    /\ \A i, j \in 1..Len(CommonEventMap) : CommonEventMap[i].event = CommonEventMap[j].event => i = j
    /\ \A e \in ToSet(CommonEventMap) :
           /\ e.names \in Seq(ToSet(e.names))
           /\ \/ e.state = "DEFAULT" /\ Len(e.names) <= 1
              \/ e.state = "AND"
              \/ e.state = "OR" /\ e.names # <<>>

-----------------------------------------------------------------------------
(* MatchingSkills: [entities, events, schemes], a sequence each *)

\* AddEntity, AddEvent, AddScheme
AddSkill(list, x) == IF x \in ToSet(list) THEN list ELSE Append(list, x)

\* RemoveEntity, RemoveEvent, RemoveScheme: the first one.
RemoveSkill(list, x) == Remove(list, x)

MatchEvent(skills, action) == action # Empty /\ action \in ToSet(skills.events)

MatchEntity(skills, entities) == entities \subseteq ToSet(skills.entities)

MatchScheme(skills, scheme) ==
    IF skills.schemes = <<>> THEN scheme = Empty ELSE scheme \in ToSet(skills.schemes)

Match(skills, want) ==
    /\ MatchEvent(skills, want.action)
    /\ MatchEntity(skills, want.entities)
    /\ MatchScheme(skills, want.scheme)

-----------------------------------------------------------------------------
(* CommonEventPermissionManager *)

\* Mutant: the names of one event stay for the next.
KeepNames(names) == names

ClearNames(names) == <<>>

\* One Permission record is filled again and again, and copied each time: names
\* are those that it holds already.
AddPermission(names, e) == [event |-> e.event, state |-> e.state, names |-> names \o e.names]

PermissionTable ==
    LET left[i \in 0..Len(CommonEventMap)] ==
            IF i = 0 THEN <<>> ELSE ClearNames(AddPermission(left[i - 1], CommonEventMap[i]).names)
    IN  [i \in 1..Len(CommonEventMap) |-> AddPermission(left[i - 1], CommonEventMap[i])]

GetEventPermission(event) ==
    LET known == {i \in 1..Len(CommonEventMap) : PermissionTable[i].event = event} IN
    IF known = {} THEN [event |-> event, state |-> "DEFAULT", names |-> <<>>]
    ELSE PermissionTable[Min(known)]

-----------------------------------------------------------------------------
(* CheckPermission; a subscriber and a publisher are [granted, system,     *)
(* proxy, ...], granted what VerifyAccessToken grants its token.           *)

Trusted(c) == c.system /\ ~c.proxy

CheckSubscriberPermission(s, event) ==
    LET permission == GetEventPermission(event)
        names == ToSet(permission.names)
    IN  \/ names = {}
        \/ Trusted(s)
        \/ Len(permission.names) = 1 /\ names \subseteq s.granted
        \/ permission.state = "AND" /\ names \subseteq s.granted
        \/ permission.state = "OR" /\ names \cap s.granted # {}

CheckSubscriberRequiredPermission(s, publisher) == s.permission \in publisher.granted \cup {Empty}

CheckPublisherRequiredPermissions(s, info) == ToSet(info.permissions) \subseteq s.granted

CheckPermission(s, publisher, event, info) ==
    /\ CheckSubscriberPermission(s, event)
    /\ CheckSubscriberRequiredPermission(s, publisher)
    /\ CheckPublisherRequiredPermissions(s, info)

-----------------------------------------------------------------------------
(* What a dump shows *)

\* Mutant: without a name, the user is not looked at.
AskedByName(records, event, user) ==
    Selected(records, {r \in ToSet(records) : event = Empty \/ (event = r.action /\ user \in {ALL_USER, r.user})})

\* Records of events (unordered, ordered, history, sticky): [action, user].
EventRecordsAsked(records, event, user) ==
    Selected(records, {r \in ToSet(records) : event \in {Empty, r.action} /\ user \in {ALL_USER, r.user}})

\* GetSubscriberRecordsByEvent: without a name the user has to be the same one.
SubscriberRecordsAsked(records, event, user) ==
    Selected(records, {s \in ToSet(records) :
        IF event = Empty THEN user \in {ALL_USER, s.user}
        ELSE /\ event \in ToSet(s.skills.events)
             /\ user = ALL_USER \/ CheckSubscriberByUserId(s.user, TRUE, user)})

\* A line of text for each record, or one that says that there is none.
Lines(title, records) ==
    IF records = <<>> THEN <<[title |-> title]>>
    ELSE [i \in DOMAIN records |-> [title |-> title, record |-> records[i]]]

\* The calls that DumpState of InnerCommonEventManager makes, in their order.
DumpState(subscribers, state, event, user) ==
    LET asked(records) == EventRecordsAsked(records, event, user) IN
    Lines("Subscribers", SubscriberRecordsAsked(subscribers, event, user))
    \o Lines("Sticky Events", asked(state.sticky))
    \o Lines("Pending Events", asked(state.unordered) \o asked(state.ordered))
    \o Lines("History Events", asked(state.history))
=============================================================================
