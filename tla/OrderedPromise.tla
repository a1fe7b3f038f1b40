---------------------------- MODULE OrderedPromise ----------------------------
(***************************************************************************)
(* What a publisher of ordered events may count on, whatever the threads   *)
(* of the service do: events are served one at a time in the order they    *)
(* were accepted; the receivers of the event being served are taken in     *)
(* turn, each told at most once; the last subscriber is told after them,   *)
(* and an event is given up early only after its first receiver had a turn.*)
(***************************************************************************)
EXTENDS Naturals, Sequences

CONSTANTS Events, WithLast   \* events that name a last subscriber

VARIABLES
    line,   \* accepted events not yet retired, the one being served first
    done,   \* retired events, in order
    size,   \* number of receivers of each accepted event
    turn,   \* how many of them have had their turn
    told    \* the receivers told, size + 1 standing for the last subscriber

vars == <<line, done, size, turn, told>>

Init ==
    /\ line = <<>> /\ done = <<>>
    /\ size = [e \in Events |-> 0]
    /\ turn = [e \in Events |-> 0]
    /\ told = [e \in Events |-> {}]

Last(e) == size[e] + 1

Accept(e) ==
    /\ \A i \in 1..Len(line) : line[i] # e
    /\ \A i \in 1..Len(done) : done[i] # e
    /\ line' = Append(line, e)
    /\ size'[e] \in Nat /\ size' = [size EXCEPT ![e] = size'[e]]
    /\ UNCHANGED <<done, turn, told>>

GiveTurn(e) ==
    /\ line # <<>> /\ e = Head(line)
    /\ turn[e] < size[e] /\ Last(e) \notin told[e]
    /\ turn' = [turn EXCEPT ![e] = @ + 1]
    /\ UNCHANGED <<line, done, size, told>>

\* Only the receiver whose turn it is can be told.
Tell(e) ==
    /\ line # <<>> /\ e = Head(line)
    /\ turn[e] > 0 /\ turn[e] \notin told[e] /\ Last(e) \notin told[e]
    /\ told' = [told EXCEPT ![e] = @ \cup {turn[e]}]
    /\ UNCHANGED <<line, done, size, turn>>

Over(e) == turn[e] = size[e] \/ turn[e] > 0

TellLast(e) ==
    /\ line # <<>> /\ e = Head(line)
    /\ e \in WithLast /\ Over(e) /\ Last(e) \notin told[e]
    /\ told' = [told EXCEPT ![e] = @ \cup {Last(e)}]
    /\ UNCHANGED <<line, done, size, turn>>

Retire(e) ==
    /\ line # <<>> /\ e = Head(line)
    /\ Over(e) /\ (e \in WithLast => Last(e) \in told[e])
    /\ line' = Tail(line)
    /\ done' = Append(done, e)
    /\ UNCHANGED <<size, turn, told>>

Next ==
    \E e \in Events :
        \/ Accept(e) \/ GiveTurn(e) \/ Tell(e) \/ TellLast(e) \/ Retire(e)

Spec == Init /\ [][Next]_vars
=============================================================================
