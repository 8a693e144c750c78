----------------------------- MODULE AsyncMutex -----------------------------
(***************************************************************************)
(* src/services/async-mutex.ts.  The n-th call of runExclusive finds in    *)
(* `queue` the promise that call n-1 left there (promise 0 is the resolved *)
(* one of the constructor), replaces it by a promise of its own, and waits *)
(* for the one it found.  A continuation never runs in the step that       *)
(* fulfils its promise, so fulfilling and resuming are separate actions    *)
(* and new calls arrive between them.  The faulty variants are used by no  *)
(* action: they stand for the definition after them in the runs that       *)
(* confirm that a property notices the fault.                              *)
(***************************************************************************)
EXTENDS Naturals

CONSTANT MaxCalls   \* bound on the calls ever made

ASSUME CallAssumption == MaxCalls \in Nat

VARIABLES
    queue,      \* the promise in this.queue, which is that of the last call
    phase,      \* where each call is
    fulfilled   \* the promises that have been in this.queue and are fulfilled

vars == <<queue, phase, fulfilled>>

Calls == 1 .. queue

Init ==
    /\ queue = 0
    /\ phase = [n \in {} |-> "waiting"]
    /\ fulfilled = {0}

\* prev = this.queue; this.queue = prev.then(() => next); await prev
RunExclusive ==
    /\ queue < MaxCalls
    /\ queue' = queue + 1
    /\ phase' = [n \in 1 .. queue + 1 |-> IF n \in Calls THEN phase[n] ELSE "waiting"]
    /\ UNCHANGED fulfilled

\* Faulty variant: the work starts without `await prev`.
ResumeAtOnce(n) ==
    /\ phase[n] = "waiting"
    /\ phase' = [phase EXCEPT ![n] = "working"]
    /\ UNCHANGED <<queue, fulfilled>>

\* The call resumes after `await prev` and starts its work.
Resume(n) ==
    /\ phase[n] = "waiting"
    /\ n - 1 \in fulfilled
    /\ phase' = [phase EXCEPT ![n] = "working"]
    /\ UNCHANGED <<queue, fulfilled>>

\* The work ends; `finally` resolves `next`, also when the work threw.
Finish(n, outcome) ==
    /\ phase[n] = "working"
    /\ phase' = [phase EXCEPT ![n] = outcome]
    /\ UNCHANGED <<queue, fulfilled>>

Outcomes == {"returned", "threw"}

\* Faulty variant: no `finally`, a call that threw never releases the next one.
FulfilReturned(n) ==
    /\ phase[n] = "returned"
    /\ n - 1 \in fulfilled
    /\ n \notin fulfilled
    /\ fulfilled' = fulfilled \cup {n}
    /\ UNCHANGED <<queue, phase>>

\* prev.then(() => next) is fulfilled once prev and next are.
Fulfil(n) ==
    /\ phase[n] \in Outcomes
    /\ n - 1 \in fulfilled
    /\ n \notin fulfilled
    /\ fulfilled' = fulfilled \cup {n}
    /\ UNCHANGED <<queue, phase>>

Progress(n) == Resume(n) \/ (\E outcome \in Outcomes : Finish(n, outcome)) \/ Fulfil(n)

Next == RunExclusive \/ \E n \in Calls : Progress(n)

SafeSpec == Init /\ [][Next]_vars

\* The event loop runs every continuation that is ready, and every work ends.
Spec == SafeSpec /\ WF_vars(\E n \in Calls : Progress(n))

-----------------------------------------------------------------------------
TypeOK ==
    /\ queue \in 0 .. MaxCalls
    /\ phase \in [Calls -> {"waiting", "working"} \cup Outcomes]
    /\ fulfilled \subseteq 0 .. queue

Ended(n) == phase[n] \in Outcomes

\* The refinement: the calls that have ended are the first ones.
Served == CHOOSE k \in 0 .. queue : \A n \in Calls : Ended(n) <=> n <= k

Holder == IF \E n \in Calls : phase[n] = "working"
          THEN CHOOSE n \in Calls : phase[n] = "working" ELSE 0

Lock == INSTANCE FifoLock WITH arrived <- queue, served <- Served, holder <- Holder

\* The promise chain is a first-come-first-served lock, which is given back
\* when work throws and always reaches the next call.
IsFifoLock == Lock!Spec

\* Two calls never work at once, and no call works before an earlier one ended.
MutualExclusion ==
    \A n \in Calls : phase[n] = "working" => \A m \in Calls : Ended(m) <=> m < n

\* Every call that was made gets to run its work.
EveryCallRuns == \A n \in 1 .. MaxCalls : n \in Calls ~> (n \in Calls /\ Ended(n))
=============================================================================
