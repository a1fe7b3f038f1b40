------------------------------ MODULE CallWire ------------------------------
(***************************************************************************)
(* A call on its way: the proxies write it into a parcel, the stubs read   *)
(* the parcel and call the service (for a notification, the listener), and *)
(* a reply goes back.  A parcel is the sequence of what was written, the   *)
(* interface token left out: it is the same on both sides.                 *)
(*                                                                         *)
(* External: the parcel and the binder, Str8ToStr16 and Want, which is     *)
(* carried whole.                                                          *)
(***************************************************************************)
EXTENDS Integers, Sequences, FiniteSetsExt, SequencesExt, Strings16

CONSTANTS
    None,
    INT_BITS,           \* width of int32_t and uid_t
    MAX_HISTORY_SIZE    \* lines of a dump that the client takes

ASSUME WireAssumption == INT_BITS \in Nat \ {0} /\ MAX_HISTORY_SIZE \in Nat \ {0}

VARIABLES
    asked,      \* the call a client makes, or None
    parcel,     \* what its proxy wrote, or None
    served,     \* the call as the stub passes it on, or None
    reply,      \* what the stub wrote back, or None
    answer      \* what the client gets: [ret, value], or None

wireVars == <<asked, parcel, served, reply, answer>>

WireInit == asked = None /\ parcel = None /\ served = None /\ reply = None /\ answer = None

-----------------------------------------------------------------------------
(* Conversions *)

Texts(list) == [i \in DOMAIN list |-> Str8ToStr16(list[i])]

\* A uid_t is written as an int32_t and read into a uid_t.
AsInt32(u) == IF u >= 2 ^ (INT_BITS - 1) THEN u - 2 ^ INT_BITS ELSE u
AsUid(i) == i % 2 ^ INT_BITS

\* Bytes, 0 for NUL: they are read as a C string.
UpToNul(bytes) ==
    LET nuls == {i \in 1..Len(bytes) : bytes[i] = 0} IN
    IF nuls = {} THEN bytes ELSE SubSeq(bytes, 1, Min(nuls) - 1)

-----------------------------------------------------------------------------
(* Marshalling and ReadFromParcel; i is where the reading begins *)

WriteData(d) == <<Len(d.data) + 1, Append(d.data, 0), d.code, d.want>>
ReadData(p, i) == [data |-> UpToNul(p[i + 1]), code |-> p[i + 2], want |-> p[i + 3]]

WritePublishInfo(n) == <<Texts(n.permissions), n.ordered, n.sticky>>
ReadPublishInfo(p, i) == [permissions |-> p[i], ordered |-> p[i + 1], sticky |-> p[i + 2]]

WriteSkills(k) == <<Texts(k.entities), Texts(k.events), Texts(k.schemes)>>
ReadSkills(p, i) == [entities |-> p[i], events |-> p[i + 1], schemes |-> p[i + 2]]

WriteSubscribeInfo(n) ==
    <<Str8ToStr16(n.permission), n.priority, n.user, n.threadMode, Str8ToStr16(n.deviceId)>> \o WriteSkills(n.skills)
ReadSubscribeInfo(p, i) ==
    [permission |-> p[i], priority |-> p[i + 1], user |-> p[i + 2], threadMode |-> p[i + 3],
     deviceId |-> p[i + 4], skills |-> ReadSkills(p, i + 5)]

-----------------------------------------------------------------------------
(* Calls: the listener, the want and the code of one are carried whole *)

Bytes == Seq(0..255)

IsEvent(d) == d = [data |-> d.data, code |-> d.code, want |-> d.want] /\ d.data \in Bytes

IsPublishInfo(n) == n = [permissions |-> n.permissions, ordered |-> n.ordered, sticky |-> n.sticky]

IsSkills(k) == k = [entities |-> k.entities, events |-> k.events, schemes |-> k.schemes]

IsSubscribeInfo(n) ==
    /\ n = [permission |-> n.permission, priority |-> n.priority, user |-> n.user, threadMode |-> n.threadMode,
             deviceId |-> n.deviceId, skills |-> n.skills]
    /\ IsSkills(n.skills)

\* r is a call that a proxy can be asked for.
IsCall(r) ==
    \/ r.op = "publish" /\ IsEvent(r.event) /\ IsPublishInfo(r.info)
       /\ r = [op |-> r.op, event |-> r.event, info |-> r.info, last |-> r.last, user |-> r.user]
    \/ r.op = "publishAs" /\ IsEvent(r.event) /\ IsPublishInfo(r.info) /\ r.uid \in 0..2 ^ INT_BITS - 1
       /\ r = [op |-> r.op, event |-> r.event, info |-> r.info, last |-> r.last, uid |-> r.uid, user |-> r.user]
    \/ r.op = "subscribe" /\ IsSubscribeInfo(r.info)
       /\ r = [op |-> r.op, info |-> r.info, listener |-> r.listener]
    \/ r.op = "unsubscribe" /\ r = [op |-> r.op, listener |-> r.listener]
    \/ r.op = "getSticky" /\ r = [op |-> r.op, name |-> r.name]
    \/ r.op = "dump" /\ r = [op |-> r.op, name |-> r.name, user |-> r.user]
    \/ r.op = "finish"
       /\ r = [op |-> r.op, listener |-> r.listener, code |-> r.code, data |-> r.data, abort |-> r.abort]
    \/ r.op \in {"freeze", "unfreeze"} /\ r.uid \in 0..2 ^ INT_BITS - 1 /\ r = [op |-> r.op, uid |-> r.uid]
    \/ r.op = "notify" /\ IsEvent(r.event)
       /\ r = [op |-> r.op, event |-> r.event, ordered |-> r.ordered, sticky |-> r.sticky]

-----------------------------------------------------------------------------
(* CommonEventProxy and EventReceiveProxy *)

WriteLast(r) == IF r.last = None THEN <<FALSE>> ELSE <<TRUE, r.last>>

WritePublish(r) == WriteData(r.event) \o WritePublishInfo(r.info) \o WriteLast(r)

WriteNotify(r) == WriteData(r.event) \o <<r.ordered, r.sticky>>

WriteRequest(r) ==
    CASE r.op = "publish"   -> WritePublish(r) \o <<r.user>>
      [] r.op = "publishAs" -> WritePublish(r) \o <<AsInt32(r.uid), r.user>>
      [] r.op = "subscribe" -> Append(WriteSubscribeInfo(r.info), r.listener)
      [] r.op = "unsubscribe" -> <<r.listener>>
      [] r.op = "getSticky" -> <<Str8ToStr16(r.name)>>
      [] r.op = "dump"      -> <<Str8ToStr16(r.name), r.user>>
      [] r.op = "finish"    -> <<r.listener, r.code, Str8ToStr16(r.data), r.abort>>
      [] r.op \in {"freeze", "unfreeze"} -> <<AsInt32(r.uid)>>
      [] r.op = "notify"    -> WriteNotify(r)

(* CommonEventStub and EventReceiveStub *)

\* Mutant: the user is read where the uid is.
ReadUserFirst(p, i) == [uid |-> AsUid(p[i + 1]), user |-> p[i]]

ReadUidAndUser(p, i) == [uid |-> AsUid(p[i]), user |-> p[i + 1]]

\* The listener of the last subscriber is read into a variable of the block
\* that reads it; the one passed on stays null.
AfterLast(p) == IF p[8] THEN 10 ELSE 9
ReadPublish(p) ==
    [op |-> "publish", event |-> ReadData(p, 1), info |-> ReadPublishInfo(p, 5), last |-> None,
     user |-> p[AfterLast(p)]]
ReadPublishAs(p) ==
    LET for == ReadUidAndUser(p, AfterLast(p)) IN
    [op |-> "publishAs", event |-> ReadData(p, 1), info |-> ReadPublishInfo(p, 5), last |-> None,
     uid |-> for.uid, user |-> for.user]

ReadNotify(p) == [op |-> "notify", event |-> ReadData(p, 1), ordered |-> p[5], sticky |-> p[6]]

ReadRequest(op, p) ==
    CASE op = "publish"   -> ReadPublish(p)
      [] op = "publishAs" -> ReadPublishAs(p)
      [] op = "subscribe" -> [op |-> op, info |-> ReadSubscribeInfo(p, 1), listener |-> p[9]]
      [] op = "unsubscribe" -> [op |-> op, listener |-> p[1]]
      [] op = "getSticky" -> [op |-> op, name |-> p[1]]
      [] op = "dump"      -> [op |-> op, name |-> p[1], user |-> p[2]]
      [] op = "finish"    -> [op |-> op, listener |-> p[1], code |-> p[2], data |-> p[3], abort |-> p[4]]
      [] op \in {"freeze", "unfreeze"} -> [op |-> op, uid |-> AsUid(p[1])]
      [] op = "notify"    -> ReadNotify(p)

\* A result is [ret, value]; value is the event of a sticky one, the lines of
\* a dump, or None.
WriteReply(op, result) ==
    CASE op = "getSticky" -> <<result.ret>> \o WriteData(result.value)
      [] op = "dump"      -> <<Len(result.value)>> \o result.value
      [] op = "notify"    -> <<>>
      [] OTHER            -> <<result.ret>>

LinesTaken(n) == IF n > MAX_HISTORY_SIZE THEN MAX_HISTORY_SIZE ELSE n

\* A dump is TRUE whatever the service said.
ReadReply(op, p) ==
    CASE op = "getSticky" -> [ret |-> p[1], value |-> IF p[1] THEN ReadData(p, 2) ELSE None]
      [] op = "dump"      -> [ret |-> TRUE, value |-> SubSeq(p, 2, 1 + LinesTaken(p[1]))]
      [] op = "notify"    -> [ret |-> TRUE, value |-> None]
      [] OTHER            -> [ret |-> p[1], value |-> None]

-----------------------------------------------------------------------------
(* Actions *)

Failure == [ret |-> FALSE, value |-> None]

Ask(r) ==
    /\ asked = None
    /\ asked' = r /\ parcel' = WriteRequest(r)
    /\ UNCHANGED <<served, reply, answer>>

\* result is what the service makes of the call.
Serve(result) ==
    /\ parcel # None /\ served = None /\ answer = None
    /\ served' = ReadRequest(asked.op, parcel)
    /\ reply' = WriteReply(asked.op, result)
    /\ UNCHANGED <<asked, parcel, answer>>

\* SendRequest fails before the call was served, or after.
SendFails ==
    /\ parcel # None /\ answer = None
    /\ answer' = Failure
    /\ UNCHANGED <<asked, parcel, served, reply>>

Return ==
    /\ reply # None /\ answer = None
    /\ answer' = ReadReply(asked.op, reply)
    /\ UNCHANGED <<asked, parcel, served, reply>>

-----------------------------------------------------------------------------
(* Properties *)

CarriedEvent(d) == [d EXCEPT !.data = UpToNul(@)]
CarriedInfo(n) == [n EXCEPT !.permissions = Texts(@)]
CarriedSkills(k) == [entities |-> Texts(k.entities), events |-> Texts(k.events), schemes |-> Texts(k.schemes)]
CarriedSubscription(n) ==
    [permission |-> Str8ToStr16(n.permission), priority |-> n.priority, user |-> n.user,
     threadMode |-> n.threadMode, deviceId |-> Str8ToStr16(n.deviceId), skills |-> CarriedSkills(n.skills)]

\* What the wire may lose of a call: the last subscriber, whatever follows a
\* NUL in the data of an event, and texts that are not valid.
Carried(r) ==
    CASE r.op \in {"publish", "publishAs"} ->
             [r EXCEPT !.last = None, !.event = CarriedEvent(@), !.info = CarriedInfo(@)]
      [] r.op = "notify" -> [r EXCEPT !.event = CarriedEvent(@)]
      [] r.op \in {"getSticky", "dump"} -> [r EXCEPT !.name = Str8ToStr16(@)]
      [] r.op = "finish" -> [r EXCEPT !.data = Str8ToStr16(@)]
      [] r.op = "subscribe" -> [r EXCEPT !.info = CarriedSubscription(@)]
      [] OTHER -> r

\* The service is called as the client called its proxy, but for what the wire
\* may lose: the two sides agree on what is written, in which order and width,
\* for every call, with a last subscriber and without.
ServedAsAsked == served # None => served = Carried(asked)

\* The last subscriber of a publication reaches the service.
LastSubscriberArrives == (served # None /\ asked.op \in {"publish", "publishAs"}) => served.last = asked.last
=============================================================================
