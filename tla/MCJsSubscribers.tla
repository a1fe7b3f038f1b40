-------------------------- MODULE MCJsSubscribers --------------------------
(***************************************************************************)
(* An instance of JsSubscribers for TLC.                                   *)
(***************************************************************************)
EXTENDS JsSubscribers

CONSTANTS s1, s2, e1, e2, e3

TwoAndOne == (e1 :> s1) @@ (e2 :> s1) @@ (e3 :> s2)
Everything == Getters \cup Setters \cup Publishers
                  \cup {"create", "getSubscribeInfo", "subscribe", "unsubscribe", "finish"}
=============================================================================
