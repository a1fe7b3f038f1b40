------------------------ MODULE MCUnorderedDispatch ------------------------
(***************************************************************************)
(* Instances of UnorderedDispatch for TLC, its liveness, and what the      *)
(* documentation and the tests say of it.                                  *)
(***************************************************************************)
EXTENDS UnorderedDispatch, TLC

CONSTANTS n1, n2, p1, p2, p3, s1, s2

MCSubscribed == (s1 :> <<n1>>) @@ (s2 :> <<n1>>)
BothNames == (s1 :> <<n1>>) @@ (s2 :> <<n2, n1>>)
NameEach == (s1 :> <<n1>>) @@ (s2 :> <<n2>>)
MCName == [p \in Publications |-> n1]
NameInTurn == [p \in Publications |-> IF p = p1 THEN n1 ELSE n2]
MCPriority == (s1 :> 1) @@ (s2 :> 2)
SamePriority == (s1 :> 0) @@ (s2 :> 0)
MCUid == (s1 :> 1) @@ (s2 :> 1)
UidEach == (s1 :> 1) @@ (s2 :> 2)
PassAll == [p \in Publications |-> Subscribers]
Everybody == Subscribers \X Publications
AllButOne == Everybody \ {<<s2, p2>>}
NotMapped == <<>>
FirstToSecond == n1 :> n2
-----------------------------------------------------------------------------
(* Liveness *)

\* Every publication is dealt with in the end.
EveryEventIsNotified ==
    \A p \in Publications :
        p \in ToSet(published) ~> \E r \in done : r.pub = p /\ r.as = "named"

-----------------------------------------------------------------------------
(* What the documentation says *)

\* README_zh.md: a subscriber names the events it wants to receive; what it is
\* told is one of them.
ToldWhatItSubscribedTo ==
    \A s \in Subscribers : \A i \in DOMAIN told[s] : IsSubscribedTo(s, told[s][i].action)
=============================================================================
