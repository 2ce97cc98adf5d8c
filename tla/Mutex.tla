------------------------------- MODULE Mutex -------------------------------
(***************************************************************************)
(* What a lock promises: one holder at a time.                             *)
(***************************************************************************)
CONSTANT Client
VARIABLE holders

Init == holders = {}

Acquire(c) == holders = {} /\ holders' = {c}
Release(c) == holders = {c} /\ holders' = {}

Next == \E c \in Client : Acquire(c) \/ Release(c)

Spec == Init /\ [][Next]_holders
=============================================================================
