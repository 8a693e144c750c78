-------------------------- MODULE AsyncMutexProofs --------------------------
(***************************************************************************)
(* For any number of calls, the promise chain of AsyncMutex excludes       *)
(* mutually and implements the safety part of FifoLock.                    *)
(***************************************************************************)
EXTENDS AsyncMutex, TLAPS

\* The calls that have ended are the first k.
EndedUpTo(k) == k \in 0 .. queue /\ \A n \in Calls : Ended(n) <=> n <= k

\* MutualExclusion is not inductive: what lets a call resume is a fulfilled
\* promise, so the invariant says what a fulfilled promise and a call that works
\* stand for.
Chain ==
    /\ TypeOK
    /\ 0 \in fulfilled
    /\ \A n \in fulfilled \ {0} : Ended(n)
    /\ \A n \in Calls : phase[n] = "working" => n - 1 \in fulfilled
    /\ \E k \in 0 .. queue : EndedUpTo(k)

-----------------------------------------------------------------------------
\* A call that works is the first that has not ended, and so is a call that may
\* resume.
LEMMA NextCall ==
    ASSUME Chain, NEW k, EndedUpTo(k), NEW n \in Calls,
           ~ Ended(n), n - 1 \in fulfilled
    PROVE  n = k + 1
<1>1. queue \in Nat /\ n \in Nat /\ k \in Nat /\ n > k
  BY CallAssumption DEF Chain, TypeOK, Calls, EndedUpTo
<1>2. n - 1 = 0 \/ (n - 1 \in Calls /\ Ended(n - 1))
  BY <1>1 DEF Chain, Calls
<1>3. n - 1 <= k
  BY <1>1, <1>2 DEF EndedUpTo
<1> QED BY <1>1, <1>3

\* A promise chain that is just built satisfies the invariant.
LEMMA ChainInit == Init => Chain
  BY CallAssumption DEF Init, Chain, TypeOK, Calls, EndedUpTo

\* A new call joins the end of the chain.
LEMMA ChainRunExclusive == ASSUME Chain, RunExclusive PROVE Chain'
<1> USE DEF RunExclusive, Calls, Ended, Outcomes
<1>1. queue \in Nat /\ queue' = queue + 1 /\ fulfilled' = fulfilled
  BY CallAssumption DEF Chain, TypeOK
<1>2. \A n \in 1 .. queue : phase'[n] = phase[n]
  BY <1>1
<1>3. phase'[queue + 1] = "waiting"
  BY <1>1
<1>4. TypeOK'
  BY <1>1, CallAssumption DEF Chain, TypeOK
<1>5. \A n \in fulfilled' \ {0} : Ended(n)'
  BY <1>1, <1>2 DEF Chain, TypeOK
<1>6. \A n \in Calls' : phase'[n] = "working" => n - 1 \in fulfilled'
  BY <1>1, <1>2, <1>3 DEF Chain
<1>7. PICK k \in 0 .. queue : EndedUpTo(k)
  BY DEF Chain
<1>8. EndedUpTo(k)'
  BY <1>1, <1>2, <1>3, <1>7 DEF EndedUpTo
<1> QED BY <1>1, <1>4, <1>5, <1>6, <1>7, <1>8 DEF Chain

\* A call that resumes finds the promise before its own fulfilled.
LEMMA ChainResume == ASSUME Chain, NEW n \in Calls, Resume(n) PROVE Chain'
<1> USE DEF Resume, Calls, Ended, Outcomes
<1>1. queue \in Nat /\ queue' = queue /\ fulfilled' = fulfilled
  BY CallAssumption DEF Chain, TypeOK
<1>2. \A m \in Calls : Ended(m)' <=> Ended(m)
  BY <1>1 DEF Chain, TypeOK
<1>3. TypeOK'
  BY <1>1 DEF Chain, TypeOK
<1>4. \A m \in fulfilled' \ {0} : Ended(m)'
  BY <1>1, <1>2 DEF Chain, TypeOK
<1>5. \A m \in Calls' : phase'[m] = "working" => m - 1 \in fulfilled'
  BY <1>1 DEF Chain, TypeOK
<1>6. PICK k \in 0 .. queue : EndedUpTo(k)
  BY DEF Chain
<1>7. EndedUpTo(k)'
  BY <1>1, <1>2, <1>6 DEF EndedUpTo
<1> QED BY <1>1, <1>3, <1>4, <1>5, <1>6, <1>7 DEF Chain

\* When the k+1st call ends, k+1 calls have.
LEMMA EndedAfterFinish ==
    ASSUME Chain, NEW n \in Calls, NEW outcome \in Outcomes, Finish(n, outcome),
           NEW k, EndedUpTo(k)
    PROVE  n = k + 1 /\ EndedUpTo(n)'
<1> USE DEF Finish, Calls
<1>1. queue \in Nat /\ queue' = queue
  BY CallAssumption DEF Chain, TypeOK
<1>2. n = k + 1
  BY NextCall DEF Chain, Ended, Outcomes
<1>3. k \in Nat
  BY <1>1 DEF EndedUpTo
<1>4. \A m \in Calls : Ended(m)' <=> (Ended(m) \/ m = n)
  BY <1>1 DEF Chain, TypeOK, Ended, Outcomes
<1> QED BY <1>1, <1>2, <1>3, <1>4 DEF EndedUpTo

\* A call that ends keeps the invariant, however its work ended.
LEMMA ChainFinish ==
    ASSUME Chain, NEW n \in Calls, NEW outcome \in Outcomes, Finish(n, outcome)
    PROVE  Chain'
<1> USE DEF Finish, Calls, Ended, Outcomes
<1>1. queue \in Nat /\ queue' = queue /\ fulfilled' = fulfilled
  BY CallAssumption DEF Chain, TypeOK
<1>2. TypeOK'
  BY <1>1 DEF Chain, TypeOK
<1>3. \A m \in fulfilled' \ {0} : Ended(m)'
  BY <1>1 DEF Chain, TypeOK
<1>4. \A m \in Calls' : phase'[m] = "working" => m - 1 \in fulfilled'
  BY <1>1 DEF Chain, TypeOK
<1>5. PICK k \in 0 .. queue : EndedUpTo(k)
  BY DEF Chain
<1>6. EndedUpTo(n)'
  BY <1>5, EndedAfterFinish DEF Outcomes
<1> QED BY <1>1, <1>2, <1>3, <1>4, <1>6 DEF Chain, EndedUpTo

\* Fulfilling a promise ends no call.
LEMMA ChainFulfil == ASSUME Chain, NEW n \in Calls, Fulfil(n) PROVE Chain'
<1> USE DEF Fulfil, Calls, Ended
<1>1. queue \in Nat /\ queue' = queue /\ phase' = phase /\ fulfilled' = fulfilled \cup {n}
  BY CallAssumption DEF Chain, TypeOK
<1>2. TypeOK'
  BY <1>1 DEF Chain, TypeOK
<1>3. \A m \in fulfilled' \ {0} : Ended(m)'
  BY <1>1 DEF Chain, TypeOK
<1>4. \A m \in Calls' : phase'[m] = "working" => m - 1 \in fulfilled'
  BY <1>1 DEF Chain
<1>5. \E k \in 0 .. queue' : EndedUpTo(k)'
  BY <1>1 DEF Chain, EndedUpTo
<1> QED BY <1>1, <1>2, <1>3, <1>4, <1>5 DEF Chain

\* Every reachable promise chain satisfies the invariant.
THEOREM AlwaysChain == Spec => []Chain
<1>1. Init => Chain
  BY ChainInit
<1>2. Chain /\ [Next]_vars => Chain'
  <2> SUFFICES ASSUME Chain, [Next]_vars PROVE Chain'
    OBVIOUS
  <2>1. CASE RunExclusive
    BY <2>1, ChainRunExclusive
  <2>2. ASSUME NEW n \in Calls, Progress(n) PROVE Chain'
    BY <2>2, ChainResume, ChainFinish, ChainFulfil DEF Progress
  <2>3. CASE UNCHANGED vars
    BY <2>3 DEF vars, Chain, TypeOK, Calls, Ended, EndedUpTo
  <2> QED BY <2>1, <2>2, <2>3 DEF Next
<1> QED BY <1>1, <1>2, PTL DEF Spec, SafeSpec

-----------------------------------------------------------------------------
\* The invariant excludes two calls that work at once.
LEMMA ChainExcludes == Chain => MutualExclusion
<1> SUFFICES ASSUME Chain, NEW n \in Calls, phase[n] = "working", NEW m \in Calls
             PROVE  Ended(m) <=> m < n
  BY DEF MutualExclusion
<1>1. PICK k \in 0 .. queue : EndedUpTo(k)
  BY DEF Chain
<1>2. n = k + 1
  BY <1>1, NextCall DEF Chain, Ended, Outcomes
<1>3. queue \in Nat /\ k \in Nat /\ m \in Nat
  BY CallAssumption DEF Chain, TypeOK, Calls
<1> QED BY <1>1, <1>2, <1>3 DEF EndedUpTo

\* runExclusive: two calls never work at once, and no call works before all
\* earlier ones ended, for any number of calls.
THEOREM WorkIsExclusive == Spec => []MutualExclusion
  BY AlwaysChain, ChainExcludes, PTL

-----------------------------------------------------------------------------
\* The number of calls served is the k of the invariant.
LEMMA ServedIs == ASSUME queue \in Nat, NEW k, EndedUpTo(k) PROVE Served = k
<1>1. EndedUpTo(Served)
  BY Zenon DEF Served, EndedUpTo, Ended, Calls
<1>2. ASSUME NEW j, EndedUpTo(j) PROVE j = k
  BY <1>2 DEF EndedUpTo, Ended, Calls
<1> QED BY <1>1, <1>2

\* The same of the next state.
LEMMA ServedIsNext ==
    ASSUME (queue \in Nat)', NEW k, EndedUpTo(k)'
    PROVE  Served' = k
<1> DEFINE UpTo(j) == j \in 0 .. queue' /\ \A n \in 1 .. queue' : phase'[n] \in Outcomes <=> n <= j
<1>1. UpTo(k)
  BY DEF EndedUpTo, Ended, Calls
<1>2. Served' = CHOOSE j \in 0 .. queue' : \A n \in 1 .. queue' : phase'[n] \in Outcomes <=> n <= j
  BY DEF Served, Ended, Calls
<1>3. UpTo(Served')
  BY <1>1, <1>2, Zenon
<1>4. ASSUME NEW j, UpTo(j) PROVE j = k
  BY <1>1, <1>4
<1> QED BY <1>3, <1>4

\* The lock is free exactly when no call works, and held by the call that works.
LEMMA HolderIs ==
    ASSUME Chain, NEW k, EndedUpTo(k)
    PROVE  /\ (\A n \in Calls : phase[n] # "working") => Holder = 0
           /\ \A n \in Calls : phase[n] = "working" => Holder = n /\ n = k + 1
<1>1. \A n \in Calls : phase[n] = "working" => n = k + 1
  BY NextCall DEF Chain, Ended, Outcomes
<1>2. ASSUME NEW n \in Calls, phase[n] = "working" PROVE Holder = n
  <2>1. Holder \in Calls /\ phase[Holder] = "working"
    BY <1>2, Zenon DEF Holder
  <2> QED BY <2>1, <1>1, <1>2
<1> QED BY <1>1, <1>2, Zenon DEF Holder

\* The same of the next state.
LEMMA HolderIsNext ==
    ASSUME NEW k,
           \A n \in Calls' : phase'[n] = "working" => n = k
    PROVE  /\ (\A n \in Calls' : phase'[n] # "working") => Holder' = 0
           /\ \A n \in Calls' : phase'[n] = "working" => Holder' = n
<1>1. ASSUME NEW n \in Calls', phase'[n] = "working" PROVE Holder' = n
  <2>1. Holder' \in Calls' /\ phase'[Holder'] = "working"
    BY <1>1, Zenon DEF Holder
  <2> QED BY <2>1, <1>1
<1> QED BY <1>1, Zenon DEF Holder

-----------------------------------------------------------------------------
\* The step of the lock that each step of the promise chain is.
LEMMA LockStep ==
    ASSUME Chain, Chain', [Next]_vars
    PROVE  [Lock!Next]_(Lock!vars)
<1> USE DEF Lock!vars, Lock!Next
<1>1. PICK k \in 0 .. queue : EndedUpTo(k)
  BY DEF Chain
<1>2. queue \in Nat /\ queue' \in Nat /\ k \in Nat
  BY CallAssumption DEF Chain, TypeOK
<1>3. Served = k
  BY <1>1, <1>2, ServedIs
<1>4. CASE RunExclusive
  <2>1. queue' = queue + 1 /\ \A n \in Calls : phase'[n] = phase[n]
    BY <1>4, <1>2 DEF RunExclusive, Calls
  <2>2. phase'[queue + 1] = "waiting"
    BY <1>4, <1>2 DEF RunExclusive, Calls
  <2>3. EndedUpTo(k)'
    BY <2>1, <2>2, <1>1, <1>2 DEF EndedUpTo, Ended, Calls, Outcomes
  <2>4. Served' = k
    BY <2>3, <1>2, ServedIsNext
  <2>5. Holder' = Holder
    <3>1. CASE \E n \in Calls : phase[n] = "working"
      <4>1. PICK n \in Calls : phase[n] = "working"
        BY <3>1
      <4>2. Holder = n /\ n = k + 1
        BY <4>1, <1>1, HolderIs
      <4>3. \A m \in Calls' : phase'[m] = "working" => m = k + 1
        BY <2>1, <2>2, <1>1, <1>2, HolderIs DEF Calls
      <4>4. n \in Calls' /\ phase'[n] = "working"
        BY <4>1, <2>1, <1>2 DEF Calls
      <4> QED BY <4>2, <4>3, <4>4, HolderIsNext
    <3>2. CASE \A n \in Calls : phase[n] # "working"
      <4>1. \A m \in Calls' : phase'[m] # "working"
        BY <3>2, <2>1, <2>2, <1>2 DEF Calls
      <4> QED BY <3>2, <4>1, <1>1, HolderIs, HolderIsNext
    <3> QED BY <3>1, <3>2
  <2> QED BY <2>1, <2>4, <2>5, <1>3 DEF Lock!Arrive
<1>5. ASSUME NEW n \in Calls, Resume(n) PROVE Lock!Acquire
  <2>1. n = k + 1 /\ k < queue
    BY <1>5, <1>1, <1>2, NextCall DEF Resume, Ended, Outcomes, Calls
  <2>2. queue' = queue /\ phase' = [phase EXCEPT ![n] = "working"] /\ phase[n] = "waiting"
    BY <1>5 DEF Resume
  <2>3. \A m \in Calls : phase[m] # "working"
    BY <2>1, <2>2, <1>1, HolderIs
  <2>4. Holder = 0
    BY <2>3, <1>1, HolderIs
  <2>5. phase'[n] = "working" /\ \A m \in Calls \ {n} : phase'[m] = phase[m]
    BY <2>2 DEF Chain, TypeOK
  <2>6. EndedUpTo(k)'
    BY <2>2, <2>5, <1>1 DEF EndedUpTo, Ended, Calls, Outcomes
  <2>7. Served' = k
    BY <2>6, <1>2, ServedIsNext
  <2>8. Holder' = n
    BY <2>2, <2>3, <2>5, HolderIsNext DEF Calls
  <2> QED BY <2>1, <2>2, <2>4, <2>7, <2>8, <1>3 DEF Lock!Acquire
<1>6. ASSUME NEW n \in Calls, NEW outcome \in Outcomes, Finish(n, outcome)
      PROVE  Lock!Release
  <2>1. n = k + 1 /\ EndedUpTo(n)'
    BY <1>6, <1>1, EndedAfterFinish
  <2>2. queue' = queue /\ phase' = [phase EXCEPT ![n] = outcome] /\ phase[n] = "working"
    BY <1>6 DEF Finish
  <2>3. Holder = n
    BY <2>2, <1>1, HolderIs
  <2>4. \A m \in Calls : phase'[m] # "working"
    BY <2>2, <2>1, <1>1, HolderIs DEF Chain, TypeOK, Outcomes
  <2>5. Holder' = 0
    BY <2>4, <2>2, HolderIsNext DEF Calls
  <2>6. Served' = n
    BY <2>1, <1>2, ServedIsNext
  <2> QED BY <2>1, <2>2, <2>3, <2>5, <2>6, <1>2 DEF Lock!Release
<1>7. ASSUME UNCHANGED <<queue, phase>> PROVE UNCHANGED Lock!vars
  BY <1>7 DEF Served, Holder, Ended, Calls
<1> QED BY <1>4, <1>5, <1>6, <1>7 DEF Next, Progress, Fulfil, vars

\* The promise chain of runExclusive implements the lock its callers rely on:
\* first come, first served, one at a time, and given back however work ends.
THEOREM ImplementsFifoLock == Spec => Lock!SafeSpec
<1>1. Init => Lock!Init
  <2> SUFFICES ASSUME Init PROVE Lock!Init
    OBVIOUS
  <2>1. queue = 0 /\ Calls = {}
    BY DEF Init, Calls
  <2>2. Served = 0
    BY <2>1, ServedIs DEF EndedUpTo
  <2>3. Holder = 0
    BY <2>1 DEF Holder
  <2> QED BY <2>1, <2>2, <2>3 DEF Lock!Init
<1>2. Chain /\ Chain' /\ [Next]_vars => [Lock!Next]_(Lock!vars)
  BY LockStep
<1> QED BY <1>1, <1>2, AlwaysChain, PTL DEF Spec, SafeSpec, Lock!SafeSpec
=============================================================================
