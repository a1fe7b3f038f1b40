------------------------- MODULE MCCommonEventTool -------------------------
(***************************************************************************)
(* An instance of CommonEventTool for TLC: command lines of up to three    *)
(* options, and a call of each kind by other clients.                      *)
(***************************************************************************)
EXTENDS CommonEventTool

Option(o, v) == [option |-> o, value |-> v]
SomeOptions ==
    {Option("e", "wifi"), Option("e", "disk"), Option("e", Empty), Option("e", Broken),
     Option("s", None), Option("o", None),
     Option("c", "7"), Option("d", <<1, 2>>), Option("u", "100"), Option("u", "x"),
     Option("u", "-2"), Option("u", "-3"), Option("u", "-4"), Option("a", None), Option("h", None), Option("?", None)}

MCNumbers == "7" :> 7 @@ "100" :> 100 @@ "-2" :> -2 @@ "-3" :> -3 @@ "-4" :> -4

\* The tool as a native process and as a program of user 101.
Native == [granted |-> {"send"}, system |-> TRUE, proxy |-> FALSE, sticky |-> TRUE, user |-> 0]
Plain == [granted |-> {}, system |-> FALSE, proxy |-> FALSE, sticky |-> FALSE, user |-> 101]

MCCommandLines ==
    {[cmd |-> "help", options |-> <<>>, by |-> Native]} \cup
    [cmd : {"publish", "dump"}, options : UNION {[1..n -> SomeOptions] : n \in 0..3}, by : {Native}] \cup
    [cmd : {"publish"}, options : UNION {[1..n -> SomeOptions] : n \in 2..3}, by : {Plain}]

\* One permission, two that are both needed, one of two, and none.
MCCommonEventMap ==
    <<[event |-> "boot", state |-> "DEFAULT", names |-> <<"startup">>],
      [event |-> "wifi", state |-> "AND", names |-> <<"info", "location">>],
      [event |-> "disk", state |-> "OR", names |-> <<"read", "write">>]>>

Events == RemoveSkill(FoldLeft(AddSkill, <<>>, <<"boot", "wifi", "disk", "wifi">>), "boot")
Skills(schemes) == [entities |-> <<>>, events |-> Events, schemes |-> schemes]
Subscriber(user, granted, system, schemes, permission) ==
    [skills |-> Skills(schemes), user |-> user, permission |-> permission, granted |-> granted,
     system |-> system, proxy |-> FALSE]

MCSubscribers ==
    <<Subscriber(100, {"info", "location"}, FALSE, <<>>, Empty),
      Subscriber(101, {"info", "write"}, FALSE, <<>>, Empty),
      Subscriber(ALL_USER, {}, TRUE, <<>>, "send"),
      Subscriber(0, {"read"}, FALSE, <<"file">>, Empty),
      Subscriber(0, {"read"}, FALSE, <<>>, "send")>>

Record(n, action, user) == [n |-> n, action |-> action, user |-> user]
MCState ==
    [sticky |-> <<Record(1, "wifi", ALL_USER)>>, unordered |-> <<Record(2, "disk", 100)>>,
     ordered |-> <<Record(3, "wifi", 0)>>, history |-> <<Record(4, "disk", 0), Record(5, "wifi", 100)>>]

Event(data) == [data |-> data, code |-> 1, want |-> [action |-> "wifi", entities |-> {}, scheme |-> Empty]]
Info(permissions) == [permissions |-> permissions, ordered |-> TRUE, sticky |-> FALSE]

\* Any data that an event may have, NUL included, and any uid.
Uids == 0..2 ^ INT_BITS - 1
Datas == {<<>>, <<1>>, <<1, 0, 1>>}

Publishes(listeners) ==
    [op : {"publish"}, event : {Event(d) : d \in Datas}, info : {Info(<<"p", Broken>>)}, last : listeners, user : {100}]
    \cup [op : {"publishAs"}, event : {Event(d) : d \in Datas}, info : {Info(<<>>)}, last : listeners,
          uid : Uids, user : {UNDEFINED_USER, 100}]

OtherRequests ==
    [op : {"subscribe"}, listener : {"l"},
     info : [permission : {"p", Broken}, priority : {5}, user : {ALL_USER, 100}, threadMode : {0, 2},
             deviceId : {Empty, Broken}, skills : {Skills(<<"file">>), Skills(<<"file", Broken>>)}]]
    \cup [op : {"unsubscribe"}, listener : {"l"}]
    \cup [op : {"getSticky"}, name : {"wifi", Broken}]
    \cup [op : {"dump"}, name : {"wifi", Broken}, user : {100}]
    \cup [op : {"finish"}, listener : {"l"}, code : {0, 1}, data : {"x", Broken}, abort : BOOLEAN]
    \cup [op : {"freeze", "unfreeze"}, uid : Uids]
    \cup [op : {"notify"}, event : {Event(d) : d \in Datas}, ordered : BOOLEAN, sticky : BOOLEAN]

MCRequests == OtherRequests \cup Publishes({None, "l"})
=============================================================================
