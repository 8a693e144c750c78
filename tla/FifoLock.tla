------------------------------ MODULE FifoLock ------------------------------
(***************************************************************************)
(* What callers of AsyncMutex.runExclusive rely on: a lock that is given   *)
(* to the calls one at a time, in the order in which they were made, and   *)
(* that is given back however a call's work ends.                          *)
(***************************************************************************)
EXTENDS Naturals

VARIABLES
    arrived,    \* calls made so far
    served,     \* calls whose work has ended
    holder      \* the call that holds the lock, or 0

vars == <<arrived, served, holder>>

Init == arrived = 0 /\ served = 0 /\ holder = 0

Arrive ==
    /\ arrived' = arrived + 1
    /\ UNCHANGED <<served, holder>>

Acquire ==
    /\ holder = 0
    /\ served < arrived
    /\ holder' = served + 1
    /\ UNCHANGED <<arrived, served>>

Release ==
    /\ holder # 0
    /\ served' = holder
    /\ holder' = 0
    /\ UNCHANGED arrived

Next == Arrive \/ Acquire \/ Release

SafeSpec == Init /\ [][Next]_vars

Spec == SafeSpec /\ WF_vars(Acquire) /\ WF_vars(Release)
=============================================================================
