------------------------- MODULE MCOrderedDispatch -------------------------
(***************************************************************************)
(* Instances of OrderedDispatch for TLC, and its liveness properties.      *)
(***************************************************************************)
EXTENDS OrderedDispatchPromise, TLC

CONSTANTS e1, e2, s1, s2

MCRank == (s1 :> 1) @@ (s2 :> 2)
MCUid == (s1 :> 1) @@ (s2 :> 2)
BothThenOne == (e1 :> {s1, s2}) @@ (e2 :> {s1})
BothThenNone == (e1 :> {s1, s2}) @@ (e2 :> {})
OneThenNone == (e1 :> {s1}) @@ (e2 :> {})
OneEach == (e1 :> {s1}) @@ (e2 :> {s1})
NoLast == (e1 :> None) @@ (e2 :> None)
LastIsS2 == (e1 :> s2) @@ (e2 :> None)
Everybody == {s1, s2} \X {e1, e2}
AllButOne == Everybody \ {<<s1, e2>>}

-----------------------------------------------------------------------------
(* Liveness *)

Waiting(e) == \E i \in 1..Len(queue) : queue[i] = e

\* Every published event is retired in the end, whatever its receivers do.
EveryEventIsRetired == \A e \in Events : Waiting(e) ~> ~Waiting(e)

\* A start message that finds the front event overdue gets it retired.
OverdueIsRetired ==
    \A e \in Events :
        (queue # <<>> /\ e = Head(queue) /\ Overdue(e) /\ \E i \in 1..Len(inbox) : inbox[i] = "START")
            ~> ~Waiting(e)

\* Each thread comes back from whatever it is called for.
ThreadsReturn == \A t \in Threads : pc[t] # "idle" ~> pc[t] = "idle"

=============================================================================
