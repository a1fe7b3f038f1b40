------------------------ MODULE MCCommonEventService ------------------------
(***************************************************************************)
(* An instance of CommonEventService for TLC: an application, a native     *)
(* process, one that publishes for others, the package manager and the     *)
(* account manager.                                                        *)
(***************************************************************************)
EXTENDS CommonEventService

MCCaller ==
    [c \in Uids |-> IF c = "app" THEN [kind |-> "app", user |-> 100, known |-> TRUE, sticky |-> TRUE]
                    ELSE [kind |-> "native", user |-> 0, known |-> c # "native", sticky |-> FALSE]]

\* What is published with another token is published by proxy.
CallOf(c, token, i, op, name, user) ==
    [by |-> c, id |-> i, op |-> op, name |-> name, user |-> user,
     sticky |-> op = "publish" /\ c = "native" /\ token = c, ordered |-> FALSE, last |-> FALSE,
     proxy |-> token # c, token |-> token, bundle |-> None, of |-> None]

Call(c, i, op, name, user) == CallOf(c, c, i, op, name, user)

Plan(app, native, n) ==
    [calls |-> [c \in Uids |-> CASE c = "app" -> app [] c = "native" -> native [] OTHER -> <<>>],
     changes |-> n]

\* The application subscribes, publishes, unsubscribes and publishes again,
\* while a native process is frozen and somebody publishes for it.
Subscribing ==
    Plan(<<Call("app", 101, "subscribe", None, UNDEFINED_USER),
           Call("app", 102, "publish", "news", UNDEFINED_USER),
           Call("app", 103, "unsubscribe", None, UNDEFINED_USER),
           Call("app", 104, "publish", "news", UNDEFINED_USER)>>,
         <<Call("native", 111, "freeze", None, UNDEFINED_USER),
           CallOf("native", "am", 112, "publish", "started", UNDEFINED_USER)>>, 0)

\* A native process publishes two sticky events, which it and the application
\* read.
Keeping ==
    Plan(<<Call("app", 101, "publish", "news", 100),
           Call("app", 102, "getSticky", "news", UNDEFINED_USER)>>,
         <<Call("native", 111, "publish", "news", CURRENT_USER),
           Call("native", 112, "publish", "news", UNDEFINED_USER),
           Call("native", 113, "getSticky", "news", UNDEFINED_USER)>>, 0)

\* Packages and users change while the application publishes.
Changing(n) ==
    Plan(<<Call("app", 101, "publish", "news", UNDEFINED_USER)>>, <<>>, n)

MCProfiles == SUBSET {[name |-> "news", permission |-> p] : p \in {"granted", "asked"}}

MCPlans == {Subscribing, Keeping, Changing(2)}
=============================================================================
