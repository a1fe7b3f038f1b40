---------------------------- MODULE FloodControl ----------------------------
(***************************************************************************)
(* PublishManager::CheckIsFloodAttack.  Binder threads call it for every   *)
(* publication before the service handler hears of it; mutex_ makes a call *)
(* one step, the reading of the clock included.  The clock is the event    *)
(* library's steady clock, in milliseconds: it never goes back.            *)
(***************************************************************************)
EXTENDS Integers, Sequences, FiniteSets

CONSTANTS
    Uids,                       \* callers
    FLOOD_ATTACK_NUMBER_MAX,
    FLOOD_ATTACK_INTERVAL_MAX,
    MaxTime                     \* bound of the clock

ASSUME FloodAssumption ==
    /\ FLOOD_ATTACK_NUMBER_MAX \in Nat \ {0}
    /\ FLOOD_ATTACK_INTERVAL_MAX \in Nat
    /\ MaxTime \in Nat

VARIABLES
    now,                          \* GetNowSysTime()
    floodAttackAppStatistics,     \* [Uids -> Seq(time)], <<>> for a uid not in the map
    calls                         \* [Uids -> Seq([time, attacked])]: every call so far
                                  \* and its answer (history variable)

floodVars == <<now, floodAttackAppStatistics, calls>>

FloodInit ==
    /\ now = 0
    /\ floodAttackAppStatistics = [u \in Uids |-> <<>>]
    /\ calls = [u \in Uids |-> <<>>]

\* Mutant: a record exactly as old as the interval is removed.
ExpiredEarly(time) == now - time >= FLOOD_ATTACK_INTERVAL_MAX

Expired(time) == now - time > FLOOD_ATTACK_INTERVAL_MAX

\* The loop removes records from the front until one is not expired.
StopsAfter(times, k) ==
    /\ \A i \in 1..k : Expired(times[i])
    /\ k < Len(times) => ~Expired(times[k + 1])

IsAttack(kept) == Len(kept) + 1 > FLOOD_ATTACK_NUMBER_MAX

\* The call is recorded whatever the answer is.
CheckIsFloodAttack(u) ==
    \E k \in 0..Len(floodAttackAppStatistics[u]) :
        LET times == floodAttackAppStatistics[u]
            kept  == SubSeq(times, k + 1, Len(times))
            attacked == IF times = <<>> THEN FALSE ELSE IsAttack(kept)
        IN  /\ StopsAfter(times, k)
            /\ floodAttackAppStatistics' =
                   [floodAttackAppStatistics EXCEPT ![u] = Append(kept, now)]
            /\ calls' = [calls EXCEPT ![u] = Append(@, [time |-> now, attacked |-> attacked])]
            /\ UNCHANGED now

FloodTick ==
    /\ now < MaxTime
    /\ now' = now + 1
    /\ UNCHANGED <<floodAttackAppStatistics, calls>>

FloodNext == FloodTick \/ \E u \in Uids : CheckIsFloodAttack(u)

FloodSpec == FloodInit /\ [][FloodNext]_floodVars
-----------------------------------------------------------------------------
(* Properties *)

Calls == [time : Nat, attacked : BOOLEAN]

\* Type invariant of the variables above.
FloodTypeOK ==
    /\ now \in Nat
    /\ floodAttackAppStatistics \in [Uids -> Seq(Nat)]
    /\ calls \in [Uids -> Seq(Calls)]

\* A call is refused exactly when the FLOOD_ATTACK_NUMBER_MAX-th call of the same
\* uid before it, admitted or refused, came within FLOOD_ATTACK_INTERVAL_MAX:
\* throwing old times away, and only from the front, never changes an answer.
RefusesExactlyFloods ==
    \A u \in Uids : \A i \in DOMAIN calls[u] :
        calls[u][i].attacked <=>
            /\ i > FLOOD_ATTACK_NUMBER_MAX
            /\ calls[u][i].time - calls[u][i - FLOOD_ATTACK_NUMBER_MAX].time
                   <= FLOOD_ATTACK_INTERVAL_MAX

\* From an admitted call on, at most FLOOD_ATTACK_NUMBER_MAX calls of the same uid
\* are admitted within FLOOD_ATTACK_INTERVAL_MAX, itself included.
AdmittedRate ==
    \A u \in Uids : \A i \in DOMAIN calls[u] :
        ~calls[u][i].attacked =>
            Cardinality({j \in i..Len(calls[u]) :
                /\ ~calls[u][j].attacked
                /\ calls[u][j].time - calls[u][i].time <= FLOOD_ATTACK_INTERVAL_MAX})
            <= FLOOD_ATTACK_NUMBER_MAX
=============================================================================
