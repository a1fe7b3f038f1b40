------------------------- MODULE MCClientListeners -------------------------
(***************************************************************************)
(* An instance of ClientListeners for TLC.                                 *)
(***************************************************************************)
EXTENDS ClientListeners

CONSTANTS a, b, s1, s2

Own(s) == {<<"subscribe", s>>, <<"unsubscribe", s>>}
OneEach == (a :> Own(s1)) @@ (b :> {<<"publish", s2>>})
JustPublish == (s1 :> {<<"publish", None>>}) @@ (s2 :> {})
TwoAndOne == (a :> 2) @@ (b :> 1)
=============================================================================
