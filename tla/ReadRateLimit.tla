--------------------------- MODULE ReadRateLimit ----------------------------
(***************************************************************************)
(* What enforceReadRateLimit relies on a ReadRateLimitBackend for          *)
(* (src/http/read-rate-limit-backend.ts): every consume takes effect at    *)
(* one moment, on a window of its bucket that began when the one before    *)
(* had ended.  InMemoryReadRateLimitBackend.consume has no await, and is   *)
(* Consume; both backends also clear windows away, which is Forget.        *)
(***************************************************************************)
EXTENDS Naturals

CONSTANTS
    Null,
    Requests,   \* calls of consume
    Buckets,    \* bucket keys
    Times,      \* what Date.now() returns
    Limit,      \* the limit each call brings along: [Requests -> Nat]
    Window      \* windowMs

VARIABLES
    windows,    \* bucket -> [count, resetAt]
    verdicts    \* request -> what consume answered, or Null

limiterVars == <<windows, verdicts>>

Verdict(allowed, count, resetAt) == [allowed |-> allowed, count |-> count, resetAt |-> resetAt]

Opened(now) == Verdict(TRUE, 1, now + Window)

Counted(window, limit) ==
    IF window.count >= limit
    THEN Verdict(FALSE, window.count, window.resetAt)
    ELSE Verdict(TRUE, window.count + 1, window.resetAt)

Ended(window, now) == now >= window.resetAt

VerdictOn(b, limit, now) ==
    IF b \notin DOMAIN windows THEN Opened(now)
    ELSE IF Ended(windows[b], now) THEN Opened(now)
    ELSE Counted(windows[b], limit)

\* The windows once verdict v was given on bucket b.
After(b, v) ==
    IF ~ v.allowed THEN windows
    ELSE [c \in DOMAIN windows \cup {b} |->
             IF c = b THEN [count |-> v.count, resetAt |-> v.resetAt] ELSE windows[c]]

Init == windows = <<>> /\ verdicts = [r \in Requests |-> Null]

Consume(r, b, now) ==
    /\ verdicts[r] = Null
    /\ LET v == VerdictOn(b, Limit[r], now)
       IN  /\ verdicts' = [verdicts EXCEPT ![r] = v]
           /\ windows' = After(b, v)

Forget(forgotten) ==
    /\ windows' = [b \in DOMAIN windows \ forgotten |-> windows[b]]
    /\ UNCHANGED verdicts

Next ==
    \/ \E r \in Requests, b \in Buckets, now \in Times : Consume(r, b, now)
    \/ \E forgotten \in SUBSET Buckets : Forget(forgotten)

Spec == Init /\ [][Next]_limiterVars
=============================================================================
