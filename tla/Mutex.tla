------------------------------- MODULE Mutex -------------------------------
(***************************************************************************)
(* What a lock promises to the contexts that share it: at any time a set   *)
(* of at most one holder, which grows from nobody to one context and       *)
(* shrinks back to nobody.  SpinLock implements it.                        *)
(***************************************************************************)
CONSTANT Contexts       \* the execution contexts that use the lock

VARIABLE holders        \* the contexts inside the critical section

Init == holders = {}

Acquire(c) ==
    /\ holders = {}
    /\ holders' = {c}

Release(c) ==
    /\ holders = {c}
    /\ holders' = {}

Next == \E c \in Contexts : Acquire(c) \/ Release(c)

Spec == Init /\ [][Next]_holders
=============================================================================
