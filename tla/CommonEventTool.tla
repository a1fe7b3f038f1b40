-------------------------- MODULE CommonEventTool --------------------------
(***************************************************************************)
(* The cem tool and the path of what it asks: the options of a command are *)
(* read one by one, the call goes over the wire, and the service publishes *)
(* the event or lists what it holds.  Any other client may make its call   *)
(* instead.                                                                *)
(*                                                                         *)
(* External: getopt_long, which hands out the options in the order of the  *)
(* command line and '?' for one that it does not know or that lacks its    *)
(* value.                                                                  *)
(***************************************************************************)
EXTENDS CallWire, EventRules

CONSTANTS
    CommandLines,   \* set of [cmd, options, by]: options a sequence of [option, value],
                    \* by the tool as a publisher: [granted, system, proxy, sticky, user]
    Requests,       \* calls of other clients
    Subscribers,    \* sequence: [skills, user, permission, granted, system, proxy]
    SystemEvents,   \* names that only the system may publish
    State,          \* [sticky, unordered, ordered, history]: what the service holds
    Numbers,        \* function: texts of numbers to their values
    Failed          \* what is printed of a request that failed

Options == UNION {ToSet(l.options) : l \in CommandLines}

\* The events that the tool may name.
EventNames == {o.value : o \in {p \in Options : p.option = "e"}} \cup {Empty}

\* What the tool may call.
PublishCalls ==
    [op : {"publish"},
     event : [data : Bytes, code : Int, want : [action : EventNames, entities : {{}}, scheme : {Empty}]],
     info : [permissions : {<<>>}, ordered : BOOLEAN, sticky : BOOLEAN], last : {None}, user : Int]
DumpCalls == [op : {"dump"}, name : EventNames, user : Int]

\* The value of -d is a string of bytes, none of them NUL; what is no number is 0;
\* whoever runs the tool, it calls for itself.
ASSUME ToolAssumption ==
    /\ \A l \in CommandLines : l.options \in Seq(Options) /\ ~l.by.proxy /\ l.by.user \in Nat
    /\ \A o \in Options : o.option = "d" => o.value \in Seq(1..255)
    /\ Numbers \in [DOMAIN Numbers -> Int] /\ Empty \notin DOMAIN Numbers
    /\ \A r \in Requests : IsCall(r)
    /\ None \notin CommandLines \cup Requests /\ None \notin PublishCalls /\ None \notin DumpCalls
    /\ None \notin {"help", "published", Failed, "a", "e", "u"} /\ Failed \notin {"help", "published"}
    /\ Subscribers \in Seq(ToSet(Subscribers))
    /\ \A field \in {"sticky", "unordered", "ordered", "history"} : State[field] \in Seq(ToSet(State[field]))

VARIABLES
    line,           \* the command line, or None
    at,             \* options read so far
    options,        \* what they add up to
    result,         \* "ERR_OK" or "ERR_INVALID_VALUE"
    output,         \* what is printed: "help", "published", Failed, lines of a dump, or None
    receivers       \* places in Subscribers of those an event is sent to, or None

toolVars == <<line, at, options, result, output, receivers>>
vars == <<wireVars, toolVars>>

NoOptions ==
    [action |-> Empty, sticky |-> FALSE, ordered |-> FALSE, code |-> 0, data |-> <<>>, user |-> ALL_USER]

Init ==
    /\ WireInit
    /\ line \in CommandLines \cup {None}
    /\ at = 0 /\ options = NoOptions /\ result = "ERR_OK" /\ output = None /\ receivers = None

-----------------------------------------------------------------------------
(* CommonEventCommand *)

\* atoi: 0 for what is not a number.
Atoi(text) == IF text \in DOMAIN Numbers THEN Numbers[text] ELSE 0

Apply(o) ==
    CASE o.option = "e" -> [options EXCEPT !.action = o.value]
      [] o.option = "s" -> [options EXCEPT !.sticky = TRUE]
      [] o.option = "o" -> [options EXCEPT !.ordered = TRUE]
      [] o.option = "c" -> [options EXCEPT !.code = Atoi(o.value)]
      [] o.option = "d" -> [options EXCEPT !.data = o.value]
      [] o.option = "u" -> [options EXCEPT !.user = Atoi(o.value)]
      [] OTHER          -> options

Reading == line # None /\ output = None /\ asked = None

More == at < Len(line.options)

\* Mutant: only a missing value is an error.
AcceptUnknown(o) == o.option = "h"

Refuses(o) == o.option \in {"h", "?"}

\* RunAsPublishCommand, one turn of its loop; '?' ends the loop.
ReadPublishOption ==
    /\ Reading /\ line.cmd = "publish" /\ More
    /\ LET o == line.options[at + 1] IN
       /\ options' = Apply(o)
       /\ result' = IF Refuses(o) THEN "ERR_INVALID_VALUE" ELSE result
       /\ at' = IF o.option = "?" THEN Len(line.options) ELSE at + 1
    /\ UNCHANGED <<wireVars, line, output, receivers>>

PrintHelp ==
    /\ output' = "help" /\ result' = "ERR_INVALID_VALUE"
    /\ UNCHANGED <<wireVars, line, at, options, receivers>>

\* No option, one that was refused, or no event.
RefusePublish ==
    /\ Reading /\ line.cmd = "publish" /\ ~More
    /\ line.options = <<>> \/ result # "ERR_OK" \/ options.action = Empty
    /\ PrintHelp

AskPublish ==
    /\ Reading /\ line.cmd = "publish" /\ ~More
    /\ line.options # <<>> /\ result = "ERR_OK" /\ options.action # Empty
    /\ Ask([op |-> "publish",
            event |-> [data |-> options.data, code |-> options.code,
                       want |-> [action |-> options.action, entities |-> {}, scheme |-> Empty]],
            info |-> [permissions |-> <<>>, ordered |-> options.ordered, sticky |-> options.sticky],
            last |-> None, user |-> options.user])
    /\ UNCHANGED toolVars

\* RunAsDumpCommand reads one option; when it is none of its own, what follows
\* on the command line is the command itself, which it takes for no option.
FirstOption == IF line.options = <<>> THEN [option |-> None, value |-> None] ELSE Head(line.options)

RefuseDump ==
    /\ Reading /\ line.cmd = "dump" /\ FirstOption.option \notin {"a", "e", "u"}
    /\ PrintHelp

AskDump ==
    /\ Reading /\ line.cmd = "dump" /\ FirstOption.option \in {"a", "e", "u"}
    /\ Ask([op |-> "dump", name |-> Apply(FirstOption).action, user |-> Apply(FirstOption).user])
    /\ UNCHANGED toolVars

\* ShellCommand: an unknown command prints the help of the tool.
RunAsHelpCommand ==
    /\ Reading /\ line.cmd \notin {"publish", "dump"}
    /\ output' = "help"
    /\ UNCHANGED <<wireVars, line, at, options, result, receivers>>

PrintResult ==
    /\ line # None /\ answer # None /\ output = None
    /\ output' = IF ~answer.ret THEN Failed
                 ELSE IF line.cmd = "publish" THEN "published" ELSE answer.value
    /\ UNCHANGED <<wireVars, line, at, options, result, receivers>>

-----------------------------------------------------------------------------
(* The other clients and the service *)

AskOther ==
    /\ line = None
    /\ \E r \in Requests : Ask(r)
    /\ UNCHANGED toolVars

\* GetSubscriberRecordsByWantLocked and the check before each of them is told.
GetsEvent(s, p, event, info, user) ==
    /\ Match(s.skills, event.want)
    /\ CheckSubscriberByUserId(s.user, Trusted(p), user)
    /\ CheckPermission(s, p, event.want.action, info)

\* CheckUserId: whom the tool may address, and the user that it means.
MayAddress(user) == user >= UNDEFINED_USER /\ (line.by.system \/ user = UNDEFINED_USER)

UserMeant(user) ==
    CASE user = UNDEFINED_USER /\ line.by.system -> ALL_USER
      [] user = UNDEFINED_USER /\ ~line.by.system -> line.by.user
      [] user = CURRENT_USER -> line.by.user
      [] OTHER -> user

\* The checks of PublishCommonEvent and ProcessStickyEvent.
PublishAllowed(call) ==
    /\ MayAddress(call.user)
    /\ call.event.want.action \in SystemEvents => line.by.system
    /\ call.info.sticky => line.by.sticky

\* The call is answered before its event is looked at.
ServePublish ==
    /\ line # None /\ line.cmd = "publish"
    /\ Serve([ret |-> TRUE, value |-> None])
    /\ receivers' = {i \in DOMAIN Subscribers :
                        /\ PublishAllowed(served')
                        /\ GetsEvent(Subscribers[i], line.by, served'.event, served'.info, UserMeant(served'.user))}
    /\ UNCHANGED <<line, at, options, result, output>>

ServeDump ==
    /\ line # None /\ line.cmd = "dump"
    /\ LET call == ReadRequest("dump", parcel) IN
       Serve([ret |-> TRUE, value |-> DumpState(Subscribers, State, call.name, call.user)])
    /\ UNCHANGED toolVars

\* Whatever the service answers; its work is in the other modules.
ServeOther ==
    /\ line = None /\ asked # None
    /\ \E ret \in BOOLEAN :
        Serve([ret |-> ret,
               value |-> IF asked.op = "getSticky"
                         THEN [data |-> <<>>, code |-> 0, want |-> [action |-> asked.name, entities |-> {}, scheme |-> Empty]]
                         ELSE IF asked.op = "dump" THEN <<>> ELSE None])
    /\ UNCHANGED toolVars

Wire == (SendFails \/ Return) /\ UNCHANGED toolVars

Next ==
    \/ ReadPublishOption \/ RefusePublish \/ AskPublish \/ RefuseDump \/ AskDump \/ RunAsHelpCommand
    \/ PrintResult \/ AskOther \/ ServePublish \/ ServeDump \/ ServeOther \/ Wire

Spec == Init /\ [][Next]_vars
-----------------------------------------------------------------------------
(* Properties *)

\* Where an option is given, and the last value given for it.
Places(o) == {i \in 1..Len(line.options) : line.options[i].option = o}
Given(o) == Places(o) # {}
LastValue(o, otherwise) == IF Given(o) THEN line.options[Max(Places(o))].value ELSE otherwise
UserAsked == IF Given("u") THEN Atoi(LastValue("u", Empty)) ELSE ALL_USER

\* cem publish publishes when every option was understood, none asked for help
\* and an event was named, and then what the last option of each kind says; it
\* says so only if the service took the event.
CommandIsCarriedOut ==
    (line # None /\ line.cmd = "publish" /\ output # None) =>
        LET asks == ~Given("?") /\ ~Given("h") /\ LastValue("e", Empty) # Empty IN
        /\ asks <=> asked # None
        /\ asks => /\ asked.event.want.action = LastValue("e", Empty)
                   /\ asked.event.data = LastValue("d", <<>>)
                   /\ asked.event.code = Atoi(LastValue("c", Empty))
                   /\ asked.user = UserAsked
                   /\ asked.info = [permissions |-> <<>>, ordered |-> Given("o"), sticky |-> Given("s")]
        /\ output = "published" => served # None

\* What the rules of an event ask of a subscriber, taken from the table itself.
Meets(s, action) ==
    \A i \in DOMAIN CommonEventMap :
        LET e == CommonEventMap[i] IN
        e.event = action /\ ~Trusted(s) =>
            IF e.state = "OR" THEN \E n \in ToSet(e.names) : n \in s.granted
            ELSE \A n \in ToSet(e.names) : n \in s.granted

\* What the tool's event may be and for whom: an event of the system is for the
\* system to publish, a sticky one for those that may, and only the system
\* addresses others than its own user.
MayBeSent ==
    /\ LastValue("e", Empty) \in SystemEvents \/ UserAsked # UNDEFINED_USER => line.by.system
    /\ Given("s") => line.by.sticky
    /\ UserAsked >= UNDEFINED_USER

\* Whose subscribers the event reaches: everyone's, or of one user those of that
\* user and of all users, and the system's own besides if it is the system that
\* sends.
IsMeant(user) ==
    \/ user = ALL_USER
    \/ user = IF UserAsked \in {CURRENT_USER, UNDEFINED_USER} THEN line.by.user ELSE UserAsked
    \/ line.by.system /\ (UserAsked \in {ALL_USER, UNDEFINED_USER} \/ user \in 0..99)

\* An event that may be sent is sent to those that named it, whose schemes and
\* user it matches and that have the permissions that its entry in the table asks
\* for, whatever entries come before that one; any other is sent to nobody.
EntitledReceive ==
    receivers # None =>
        receivers = {i \in DOMAIN Subscribers :
            LET s == Subscribers[i]
                a == LastValue("e", Empty)
            IN  /\ MayBeSent /\ IsMeant(s.user)
                /\ a \in ToSet(s.skills.events) /\ (s.skills.schemes = <<>> \/ Empty \in ToSet(s.skills.schemes))
                /\ s.permission = Empty \/ s.permission \in line.by.granted
                /\ Meets(s, a)}

\* A dump shows, of the events that the service holds, those of the name or of
\* the user that was asked for and no other; only a long one is cut.  A name
\* that is no valid text asks for all.
DumpShowsAsked ==
    (output # None /\ asked # None /\ asked.op = "dump" /\ output # Failed) =>
        LET o == FirstOption
            held == State.sticky \o State.unordered \o State.ordered \o State.history
            wanted == {r \in ToSet(held) : CASE o.option = "e" -> Str8ToStr16(o.value) \in {Empty, r.action}
                                             [] o.option = "u" -> Atoi(o.value) \in {ALL_USER, r.user}
                                             [] OTHER -> TRUE}
            shown == {l.record : l \in {k \in ToSet(output) : "record" \in DOMAIN k /\ k.title # "Subscribers"}}
        IN  /\ shown \subseteq wanted
            /\ Len(output) < MAX_HISTORY_SIZE => shown = wanted
            /\ Len(Lines("Subscribers", Subscribers)) + Len(held) >= MAX_HISTORY_SIZE /\ o.option = "a" =>
                   Len(output) = MAX_HISTORY_SIZE
=============================================================================
