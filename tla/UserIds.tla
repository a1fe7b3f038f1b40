------------------------------- MODULE UserIds -------------------------------
(***************************************************************************)
(* User ids: the special ones and which subscribers an event reaches.      *)
(***************************************************************************)
EXTENDS Integers

ALL_USER == -1
CURRENT_USER == -2
UNDEFINED_USER == -3
SUBSCRIBE_USER_SYSTEM_BEGIN == 0
SUBSCRIBE_USER_SYSTEM_END == 99

\* fromSystem: the publisher is of the system and calls for itself.
CheckSubscriberByUserId(subscriberUser, fromSystem, user) ==
    \/ subscriberUser \in {ALL_USER, user}
    \/ fromSystem /\ user \in {UNDEFINED_USER, ALL_USER}
    \/ fromSystem /\ subscriberUser \in SUBSCRIBE_USER_SYSTEM_BEGIN..SUBSCRIBE_USER_SYSTEM_END
=============================================================================
