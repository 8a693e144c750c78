----------------------- MODULE PostgresReadRateLimit ------------------------
(***************************************************************************)
(* PostgresReadRateLimitBackend (src/http/postgres-read-rate-limit-        *)
(* backend.ts): API processes share the table ledger_read_rate_limits.  A  *)
(* consume takes a client of its process's pool, runs one transaction, and *)
(* then, still holding the client, waits for a cleanup that is due.        *)
(***************************************************************************)
EXTENDS Integers, Sequences, FiniteSets

CONSTANTS
    Null,
    Processes,
    Buckets,
    PoolSize,       \* clients of a process's pool (10 in pg)
    RequestBound,   \* how many requests arrive
    Routes,         \* where each may arrive: [Requests -> SUBSET (Processes \X Buckets)]
    FailureBound,   \* how many requests may have failed when a query fails
    Limit,          \* the limit each request brings along
    Window,         \* windowMs
    Interval,       \* cleanupIntervalMs
    Retention,      \* cleanupRetentionMs
    BatchSize,      \* cleanupBatchSize
    Times           \* what Date.now() returns, in the order of the numbers

ASSUME TimesAssumption ==
    {Window, Interval, Retention} \cup Times \subseteq Nat /\ 0 \in Times
ASSUME CleanupAssumption == BatchSize \in Nat \ {0} /\ Interval > 0 /\ Retention > 0

\* A cleanupPromise that has not settled, and the locals of its runCleanup.
Cleaner == [pc : {"queued", "lock", "pick", "delete", "unlock"}, now : Times,
            targets : SUBSET Buckets, deleted : SUBSET Buckets, outcome : {"done", "failed"}]

ASSUME NullAssumption == Null \notin Processes /\ Null \notin Cleaner

Requests == 1 .. RequestBound
Cleanup == 0    \* stands in a pool's queue for the cleanup of the process

VARIABLES
    clock,
    rows,           \* the committed table: bucket -> [count, resetAt]
    requests,       \* request -> [pc, process, bucket, now, plan]
    queue,          \* process -> who waits for a client, in order
    cleaner,        \* process -> its cleanupPromise: Null or a record
    lastCleanup,    \* process -> lastCleanupAtMs
    turn            \* the process that holds the advisory lock, or Null

vars == <<clock, rows, requests, queue, cleaner, lastCleanup, turn>>

(***************************************************************************)
(* What the state says.                                                    *)
(***************************************************************************)
At(r) == requests[r].pc
Cleaning(p, pcs) == cleaner[p] # Null /\ cleaner[p].pc \in pcs

\* Faulty variant: a request that failed keeps its client.
ClientsNotReleased == {"select", "insert", "commit", "committed", "joined", "failed"}

\* The places of a request that has a client.
Clients == {"select", "insert", "commit", "committed", "joined"}

Busy(p) ==
    Cardinality({r \in Requests : requests[r].process = p /\ At(r) \in Clients})
    + (IF Cleaning(p, {"lock", "pick", "delete", "unlock"}) THEN 1 ELSE 0)

\* The transactions that hold the key b: an open request that has read,
\* reset, counted or inserted its row, a batch that has deleted it.
Locked(b) ==
    \/ \E r \in Requests : At(r) = "commit" /\ requests[r].bucket = b
    \/ \E p \in Processes : cleaner[p] # Null /\ b \in cleaner[p].deleted

Overdue(now) == {b \in DOMAIN rows : rows[b].resetAt < now - Retention}

\* What the target subquery may return: the oldest rows, up to a batch.
Targets(now) ==
    {targets \in SUBSET Overdue(now) :
        /\ Cardinality(targets) <= BatchSize
        /\ Cardinality(targets) = BatchSize \/ targets = Overdue(now)
        /\ \A b \in targets, c \in Overdue(now) \ targets :
              rows[b].resetAt <= rows[c].resetAt}

\* What the backend implements, every consume at the moment of its COMMIT.
Atomic == INSTANCE ReadRateLimit WITH
    windows <- rows,
    verdicts <- [r \in Requests |->
        IF At(r) \in {"committed", "joined", "done", "failed"}
        THEN requests[r].plan ELSE Null]

Breakable == Cardinality({r \in Requests : At(r) = "failed"}) < FailureBound

(***************************************************************************)
(* consume                                                                 *)
(***************************************************************************)
Init ==
    /\ clock = 0
    /\ rows = <<>>
    /\ requests = [r \in Requests |->
          [pc |-> "new", process |-> Null, bucket |-> Null, now |-> Null, plan |-> Null]]
    /\ queue = [p \in Processes |-> <<>>]
    /\ cleaner = [p \in Processes |-> Null]
    /\ lastCleanup = [p \in Processes |-> -Interval]   \* 1970: long overdue
    /\ turn = Null

Goes(r, pc) == requests' = [requests EXCEPT ![r].pc = pc]

\* A request in a transaction that is rolled back answers nothing.
Fails(r) == requests' = [requests EXCEPT ![r].pc = "failed", ![r].plan = Null]

Plans(r, plan) ==
    requests' = [requests EXCEPT ![r].pc = "commit", ![r].plan = plan]

\* The clock is read before a client is asked for.
Arrive(p, b) ==
    \E r \in Requests :
        /\ At(r) = "new"
        /\ \A earlier \in 1 .. r - 1 : At(earlier) # "new"
        /\ <<p, b>> \in Routes[r]
        /\ requests' = [requests EXCEPT ![r] =
              [pc |-> "queued", process |-> p, bucket |-> b, now |-> clock, plan |-> Null]]
        /\ queue' = [queue EXCEPT ![p] = Append(@, r)]
        /\ UNCHANGED <<clock, rows, cleaner, lastCleanup, turn>>

\* pool.connect(): first come, first served.
Connect(p) ==
    /\ queue[p] # <<>>
    /\ Busy(p) < PoolSize
    /\ queue' = [queue EXCEPT ![p] = Tail(@)]
    /\ IF Head(queue[p]) = Cleanup
       THEN cleaner' = [cleaner EXCEPT ![p].pc = "lock"] /\ UNCHANGED requests
       ELSE Goes(Head(queue[p]), "select") /\ UNCHANGED cleaner
    /\ UNCHANGED <<clock, rows, lastCleanup, turn>>

\* Faulty variant: SELECT without FOR UPDATE.
SelectWithoutLock(r) ==
    /\ At(r) = "select"
    /\ LET b == requests[r].bucket
       IN  IF b \in DOMAIN rows
           THEN Plans(r, Atomic!VerdictOn(b, Limit[r], requests[r].now))
           ELSE Goes(r, "insert")
    /\ UNCHANGED <<clock, rows, queue, cleaner, lastCleanup, turn>>

\* SELECT ... FOR UPDATE: waits for a row that is locked, locks nothing when
\* there is none; the reset or the count is written under that lock.
Select(r) ==
    /\ At(r) = "select"
    /\ LET b == requests[r].bucket
       IN  IF b \in DOMAIN rows
           THEN ~ Locked(b) /\ Plans(r, Atomic!VerdictOn(b, Limit[r], requests[r].now))
           ELSE Goes(r, "insert")
    /\ UNCHANGED <<clock, rows, queue, cleaner, lastCleanup, turn>>

\* INSERT: waits for whoever holds the key, and fails when the row is there.
Insert(r) ==
    /\ At(r) = "insert"
    /\ ~ Locked(requests[r].bucket)
    /\ IF requests[r].bucket \in DOMAIN rows
       THEN Fails(r)
       ELSE Plans(r, Atomic!Opened(requests[r].now))
    /\ UNCHANGED <<clock, rows, queue, cleaner, lastCleanup, turn>>

Commit(r) ==
    /\ At(r) = "commit"
    /\ Goes(r, "committed")
    /\ rows' = Atomic!After(requests[r].bucket, requests[r].plan)
    /\ UNCHANGED <<clock, queue, cleaner, lastCleanup, turn>>

\* A query fails: ROLLBACK, and the client goes back to the pool.
Fail(r) ==
    /\ At(r) \in {"select", "insert", "commit"} /\ Breakable
    /\ Fails(r)
    /\ UNCHANGED <<clock, rows, queue, cleaner, lastCleanup, turn>>

\* COMMIT took effect but its answer did not arrive.
AnswerLost(r) ==
    /\ At(r) = "committed" /\ Breakable
    /\ Goes(r, "failed")
    /\ UNCHANGED <<clock, rows, queue, cleaner, lastCleanup, turn>>

\* cleanupIfNeeded: a request that is due starts the cleanup or joins the one
\* that runs, and keeps its client until that cleanup has ended.
Finish(r) ==
    /\ At(r) = "committed"
    /\ LET p == requests[r].process
           now == requests[r].now
           due == now - lastCleanup[p] >= Interval
           starts == due /\ cleaner[p] = Null
       IN  /\ Goes(r, IF due THEN "joined" ELSE "done")
           /\ IF starts
              THEN /\ lastCleanup' = [lastCleanup EXCEPT ![p] = now]
                   /\ cleaner' = [cleaner EXCEPT ![p] =
                         [pc |-> "queued", now |-> now,
                          targets |-> {}, deleted |-> {}, outcome |-> "done"]]
                   /\ queue' = [queue EXCEPT ![p] = Append(@, Cleanup)]
              ELSE UNCHANGED <<lastCleanup, cleaner, queue>>
    /\ UNCHANGED <<clock, rows, turn>>

(***************************************************************************)
(* runCleanup                                                              *)
(***************************************************************************)
\* Faulty variant: what pg_try_advisory_lock answered is not looked at.
TryLockIgnored(p) ==
    /\ Cleaning(p, {"lock"})
    /\ turn' = IF turn = Null THEN p ELSE turn
    /\ cleaner' = [cleaner EXCEPT ![p].pc = "pick"]
    /\ UNCHANGED <<clock, rows, requests, queue, lastCleanup>>

\* pg_try_advisory_lock: without the lock nothing is deleted.
TryLock(p) ==
    /\ Cleaning(p, {"lock"})
    /\ turn' = IF turn = Null THEN p ELSE turn
    /\ cleaner' = [cleaner EXCEPT ![p].pc = IF turn = Null THEN "pick" ELSE "unlock"]
    /\ UNCHANGED <<clock, rows, requests, queue, lastCleanup>>

\* The DELETE begins: target is read from the snapshot, without locks.
Pick(p) ==
    /\ Cleaning(p, {"pick"})
    /\ \E targets \in Targets(cleaner[p].now) :
          cleaner' = [cleaner EXCEPT ![p].pc = "delete", ![p].targets = targets]
    /\ UNCHANGED <<clock, rows, requests, queue, lastCleanup, turn>>

\* It then waits for each of those rows, and deletes whatever is there: only
\* the keys are joined again, not the age.
Delete(p, b) ==
    /\ Cleaning(p, {"delete"})
    /\ b \in cleaner[p].targets
    /\ ~ Locked(b)
    /\ cleaner' = [cleaner EXCEPT ![p].targets = @ \ {b}, ![p].deleted = @ \cup ({b} \cap DOMAIN rows)]
    /\ UNCHANGED <<clock, rows, requests, queue, lastCleanup, turn>>

\* The DELETE commits; a full batch is followed by another.
DeleteEnd(p) ==
    /\ Cleaning(p, {"delete"})
    /\ cleaner[p].targets = {}
    /\ rows' = [b \in DOMAIN rows \ cleaner[p].deleted |-> rows[b]]
    /\ cleaner' = [cleaner EXCEPT
          ![p].pc = IF Cardinality(cleaner[p].deleted) < BatchSize THEN "unlock" ELSE "pick",
          ![p].deleted = {}]
    /\ UNCHANGED <<clock, requests, queue, lastCleanup, turn>>

\* A query of the cleanup fails: the DELETE is undone, finally still runs.
CleanupFails(p) ==
    /\ Cleaning(p, {"lock", "pick", "delete"}) /\ Breakable
    /\ cleaner' = [cleaner EXCEPT ![p].pc = "unlock", ![p].outcome = "failed",
                                  ![p].targets = {}, ![p].deleted = {}]
    /\ UNCHANGED <<clock, rows, requests, queue, lastCleanup, turn>>

\* pg_advisory_unlock (which answers false to a session without the lock),
\* release, and the promise settles for all who joined.
Unlock(p) ==
    /\ Cleaning(p, {"unlock"})
    /\ turn' = IF turn = p THEN Null ELSE turn
    /\ cleaner' = [cleaner EXCEPT ![p] = Null]
    /\ requests' = [r \in Requests |->
          IF At(r) = "joined" /\ requests[r].process = p
          THEN [requests[r] EXCEPT !.pc = cleaner[p].outcome] ELSE requests[r]]
    /\ UNCHANGED <<clock, rows, queue, lastCleanup>>

\* Time goes on, whoever waits: no connect and no query has a timeout.
Tick ==
    /\ \E next \in Times :
          /\ next > clock
          /\ \A t \in Times : t > clock => next <= t
          /\ clock' = next
    /\ UNCHANGED <<rows, requests, queue, cleaner, lastCleanup, turn>>

(***************************************************************************)
(* Every query is answered, and every promise that is settled continues.   *)
(***************************************************************************)
Progress ==
    \/ \E p \in Processes :
          Connect(p) \/ TryLock(p) \/ Pick(p) \/ DeleteEnd(p) \/ Unlock(p)
    \/ \E p \in Processes, b \in Buckets : Delete(p, b)
    \/ \E r \in Requests : Select(r) \/ Insert(r) \/ Commit(r) \/ Finish(r)

Next ==
    \/ Progress
    \/ \E p \in Processes, b \in Buckets : Arrive(p, b)
    \/ \E r \in Requests : Fail(r) \/ AnswerLost(r)
    \/ \E p \in Processes : CleanupFails(p)
    \/ Tick

Spec == Init /\ [][Next]_vars /\ WF_vars(Progress)

(***************************************************************************)
(* Properties                                                              *)
(***************************************************************************)
\* Several processes that count one bucket in transactions of their own, with
\* failures and cleanups between, answer as if each consume took place at
\* once: no answer is given twice, no count is lost (consume, FOR UPDATE).
ConsumesAreAtomic == Atomic!Spec

\* Every client of process p is held by a request that waits for a cleanup
\* that waits for a client: no consume of p ends from here on.
PoolStopped(p) ==
    /\ Cleaning(p, {"queued"})
    /\ Cardinality({r \in Requests : requests[r].process = p /\ At(r) = "joined"}) = PoolSize

\* A consume answers or fails, or the pool of its process has stopped on its
\* own cleanup: waiting for clients, rows, locks and other processes goes in
\* no other circle, and a client that was taken is given back.
OnlyAStoppedPoolHangs ==
    \A r \in Requests :
        At(r) = "queued" ~>
            \/ At(r) \in {"done", "failed"}
            \/ \E p \in Processes : requests[r].process = p /\ PoolStopped(p)

\* A request above the limit is answered with 429, as the README says, where
\* no query fails: but a pool that has stopped answers none (consume).
DenialsAreAnswered ==
    \A r \in Requests : At(r) = "committed" /\ ~ requests[r].plan.allowed ~> At(r) = "done"

\* The advisory lock keeps cleanups of two processes from deleting at once
\* (runCleanup).
CleanersTakeTurns ==
    \A p, q \in Processes :
        p # q => ~ (Cleaning(p, {"pick", "delete"}) /\ Cleaning(q, {"pick", "delete"}))

\* The cleanup removes windows that have ended, as the end-to-end test of the
\* cleanup says ("expired buckets"), and no window that still counts.
CleanupDeletesExpiredOnly ==
    [][\A b \in DOMAIN rows \ DOMAIN rows' : rows[b].resetAt <= clock]_vars
=============================================================================
