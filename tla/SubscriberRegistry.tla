------------------------- MODULE SubscriberRegistry -------------------------
(***************************************************************************)
(* CommonEventSubscriberManager: the records of all subscribers, the index *)
(* from event name to records in order of priority, and the events kept    *)
(* for frozen subscribers.  Every operation holds mutex_, so each is one   *)
(* step; they are called from the service handler, from the threads that   *)
(* dispatch events, and from a binder thread when a subscriber dies.       *)
(*                                                                         *)
(* A record and its listener are one value, the subscriber: the client     *)
(* registers each listener once.  The containers compare records by        *)
(* operator<, that is by priority alone: eventSubscribers_ is a multiset   *)
(* and keeps equal priorities in order of subscription, frozenEvents_[uid] *)
(* is a map and has one entry per priority.                                *)
(***************************************************************************)
EXTENDS Selection, FiniteSets, SequencesExt

CONSTANTS
    Subscribers,          \* EventSubscriberRecords that may ever exist
    Names,                \* event names
    Subscribed,           \* [Subscribers -> Seq(Names)]: GetMatchingSkills().GetEvents()
    Priority,             \* [Subscribers -> Int]
    Uid,                  \* [Subscribers -> uids]
    FREEZE_EVENT_TIMEOUT

ASSUME RegistryAssumption ==
    /\ IsFiniteSet(Subscribers)
    /\ Priority \in [Subscribers -> Int]
    /\ FREEZE_EVENT_TIMEOUT \in Nat
    /\ \A s \in Subscribers : Subscribed[s] \in Seq(Names) /\ IsInjective(Subscribed[s])

VARIABLES
    subscribers,       \* subscribers_, in order of subscription
    eventSubscribers,  \* [Names -> eventSubscribers_[name]], <<>> when absent
    listening,         \* records whose commonEventListener is not null
    isFreeze,          \* records with isFreeze set
    frozenEvents       \* entries of frozenEvents_: the record that made the entry
                       \* and the event records kept under it, oldest first

registryVars == <<subscribers, eventSubscribers, listening, isFreeze, frozenEvents>>

RegistryInit ==
    /\ subscribers = <<>>
    /\ eventSubscribers = [n \in Names |-> <<>>]
    /\ listening = {} /\ isFreeze = {} /\ frozenEvents = {}

-----------------------------------------------------------------------------
(* Subscriptions *)

IsSubscribedTo(s, n) == n \in ToSet(Subscribed[s])

\* Mutant: operator< with its sign turned.
InsertByLowPriority(records, s) ==
    LET behind == {i \in DOMAIN records : Priority[records[i]] > Priority[s]}
    IN  IF behind = {} THEN Append(records, s) ELSE InsertAt(records, Min(behind), s)

\* multiset::insert: before the first record of a lower priority.
InsertByPriority(records, s) ==
    LET behind == {i \in DOMAIN records : Priority[records[i]] < Priority[s]}
    IN  IF behind = {} THEN Append(records, s) ELSE InsertAt(records, Min(behind), s)

InsertSubscriber(s) ==
    /\ subscribers' = Append(subscribers, s)
    /\ eventSubscribers' = [n \in Names |->
           IF IsSubscribedTo(s, n) THEN InsertByPriority(eventSubscribers[n], s)
                                   ELSE eventSubscribers[n]]
    /\ listening' = listening \cup {s}
    /\ UNCHANGED <<isFreeze, frozenEvents>>

\* The key of frozenEvents_: the uid, then what operator< can tell apart.
SameKey(s, r) == Uid[s] = Uid[r] /\ Priority[s] = Priority[r]
EntryOf(s) == {f \in frozenEvents : SameKey(f.owner, s)}

RemoveFrozenEventsBySubscriber(s) == frozenEvents' = frozenEvents \ EntryOf(s)

\* The listener of s is looked up in subscribers_; under each of its names the
\* first record without a listener goes, which is the one just found.
RemoveSubscriber(s) ==
    IF s \in ToSet(subscribers)
    THEN /\ RemoveFrozenEventsBySubscriber(s)
         /\ listening' = listening \ {s}
         /\ subscribers' = RemoveFirst(subscribers, s)
         /\ eventSubscribers' = [n \in Names |->
                IF IsSubscribedTo(s, n)
                THEN RemoveFirstMatch(eventSubscribers[n], LAMBDA r : r \notin listening')
                ELSE eventSubscribers[n]]
         /\ UNCHANGED isFreeze
    ELSE UNCHANGED registryVars

\* GetSubscriberRecordsByWantLocked; Match and CheckSubscriberByUserId are the
\* caller's set of subscribers that pass.
GetSubscriberRecords(n, passing) == Selected(eventSubscribers[n], passing)

-----------------------------------------------------------------------------
(* Freezing *)

UpdateFreezeInfo(u, freezeState) ==
    LET found == {s \in ToSet(subscribers) : Uid[s] = u}
    IN  /\ isFreeze' = IF freezeState THEN isFreeze \cup found ELSE isFreeze \ found
        /\ UNCHANGED <<subscribers, eventSubscribers, listening, frozenEvents>>

\* Mutant: an entry that has grown too old loses the event just kept.
TrimNewest(kept) ==
    IF Last(kept).recordTime - Head(kept).recordTime > FREEZE_EVENT_TIMEOUT
    THEN Front(kept) ELSE kept

\* At most one event is dropped, the oldest, when the entry spans too long.
Trim(kept) ==
    IF Last(kept).recordTime - Head(kept).recordTime > FREEZE_EVENT_TIMEOUT
    THEN Tail(kept) ELSE kept

\* Mutant: the newest event is kept in front.
InsertFrozenEventsFirst(s, event) ==
    /\ frozenEvents' =
           IF EntryOf(s) = {}
           THEN frozenEvents \cup {[owner |-> s, kept |-> <<event>>]}
           ELSE (frozenEvents \ EntryOf(s)) \cup
                {[f EXCEPT !.kept = <<event>> \o @] : f \in EntryOf(s)}
    /\ UNCHANGED <<subscribers, eventSubscribers, listening, isFreeze>>

InsertFrozenEvents(s, event) ==
    /\ frozenEvents' =
           IF EntryOf(s) = {}
           THEN frozenEvents \cup {[owner |-> s, kept |-> <<event>>]}
           ELSE (frozenEvents \ EntryOf(s)) \cup
                {[f EXCEPT !.kept = Trim(Append(@, event))] : f \in EntryOf(s)}
    /\ UNCHANGED <<subscribers, eventSubscribers, listening, isFreeze>>

\* Mutant: the entries are copied but not removed.
CopyFrozenEvents(u) == UNCHANGED registryVars

\* GetFrozenEvents: the entries of a uid are handed out and removed.
FrozenEventsOf(u) == {f \in frozenEvents : Uid[f.owner] = u}

GetFrozenEvents(u) ==
    /\ frozenEvents' = frozenEvents \ FrozenEventsOf(u)
    /\ UNCHANGED <<subscribers, eventSubscribers, listening, isFreeze>>

-----------------------------------------------------------------------------
(* Properties *)

\* What InsertSubscriberRecordLocked and RemoveSubscriberRecordLocked keep in
\* two containers stays the same set of records: each name indexes exactly the
\* listening records that subscribed to it, once, by priority and then by age.
IndexAgrees ==
    /\ IsInjective(subscribers)
    /\ ToSet(subscribers) = listening
    /\ \A n \in Names :
           LET index == eventSubscribers[n]
               age(s) == CHOOSE i \in DOMAIN subscribers : subscribers[i] = s
           IN  /\ ToSet(index) = {s \in listening : IsSubscribedTo(s, n)}
               /\ \A i, j \in DOMAIN index : i < j =>
                      \/ Priority[index[i]] > Priority[index[j]]
                      \/ Priority[index[i]] = Priority[index[j]] /\ age(index[i]) < age(index[j])
=============================================================================
