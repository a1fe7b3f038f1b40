----------------------- MODULE OrderedDispatchPromise -----------------------
(***************************************************************************)
(* What OrderedDispatch implements: OrderedPromise, under the mapping that *)
(* forgets the threads, the lock, the handler and the receivers' answers.  *)
(***************************************************************************)
EXTENDS OrderedDispatch

IsPublished(e) == \E i \in 1..Len(published) : published[i] = e

Promise == INSTANCE OrderedPromise WITH
    WithLast <- {e \in Events : StubListener(e) # None},
    line <- queue,
    done <- [i \in 1..Len(history) |-> history[i].ev],
    size <- [e \in Events |-> IF IsPublished(e) THEN NumReceivers(e) ELSE 0],
    turn <- [e \in Events |-> ev[e].next],
    told <- notified

\* OrderedDispatch implements the promise: ProcessNextOrderedEvent, run by two
\* threads against unlocked finishes and timeouts, takes receivers in turn.
KeepsPromise == Promise!Spec
=============================================================================
