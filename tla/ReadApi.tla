------------------------------- MODULE ReadApi -------------------------------
(***************************************************************************)
(* The paged reads of the HTTP API (GET /transactions and /audit-logs in   *)
(* src/http/app.ts) with the in-memory rate limiter, seen by clients who   *)
(* read page after page while records are added.  A list is never locked:  *)
(* each request sees it as it is when the handler runs.                    *)
(***************************************************************************)
EXTENDS Integers, Sequences, FiniteSets

CONSTANTS
    Null,
    Readers,        \* clients: [role, user, ip, scope, size, order, stop]
    Tenant,         \* the tenant they read: like a user and an ip, the parts of
                    \* its name between colons
    Users,          \* owners of the accounts that records move
    Strategy,       \* actorKeyStrategy
    MaxRequests,    \* limits: the default, by role and by scope
    MaxRequestsByRole,
    MaxRequestsByScope,
    Window,         \* windowMs
    Second,         \* how many moments of the clock one second has
    MaxBuckets,     \* 10000: above it, ended windows are cleared away
    MaxPageSize,    \* 200
    LogBound,       \* how many records are added
    MaxTime         \* where the clock stops

ASSUME ReadersAssumption ==
    \A r \in Readers :
        /\ r.size \in Nat \ {0}      \* parseBoundedInt
        /\ r.scope \in {"transactions", "audit-logs"}
        /\ r.scope = "audit-logs" => r.role = "ADMIN"
        /\ r.stop = "total" => r.scope = "audit-logs"  \* only its reply has one
\* index.ts takes no limit that is not a positive integer.
ASSUME LimitsAssumption ==
    /\ {Window, Second, MaxPageSize, MaxRequests} \subseteq Nat \ {0}
    /\ \A role \in DOMAIN MaxRequestsByRole : MaxRequestsByRole[role] \in Nat \ {0}
    /\ \A scope \in DOMAIN MaxRequestsByScope : MaxRequestsByScope[scope] \in Nat \ {0}
ASSUME BoundAssumption == MaxTime \in Nat /\ LogBound \in Nat
ASSUME NullAssumption == Null \notin Nat

VARIABLES
    clock,
    steady,     \* history: the clock was never set back
    log,        \* what was added, in that order: [at, users, lists]
    expiring,   \* timestamp of the batch that swept a lot and has yet to mark it, or Null
    windows,    \* InMemoryReadRateLimitBackend.buckets
    grants,     \* history: bucket -> moment -> requests let through
    readers     \* client -> where its reading stands

vars == <<clock, steady, log, expiring, windows, grants, readers>>

Times == 0 .. MaxTime

LeastOf(a, b) == IF a <= b THEN a ELSE b

(***************************************************************************)
(* enforceReadRateLimit                                                    *)
(***************************************************************************)
UserKey(r) == IF r.user = Null THEN r.ip ELSE r.user

ActorKey(r) ==
    CASE Strategy = "ip" -> r.ip
      [] Strategy = "role_ip" -> <<r.role>> \o r.ip
      [] Strategy = "user" -> UserKey(r)
      [] Strategy = "role_user" -> <<r.role>> \o UserKey(r)

\* Joined with colons: where names hold colons, other parts make the same key.
Bucket(r) == <<r.scope>> \o Tenant \o ActorKey(r)

LimitOf(r) ==
    IF r.role \in DOMAIN MaxRequestsByRole THEN MaxRequestsByRole[r.role]
    ELSE IF r.scope \in DOMAIN MaxRequestsByScope THEN MaxRequestsByScope[r.scope]
    ELSE MaxRequests

Limiter == INSTANCE ReadRateLimit WITH
    Requests <- Readers, Buckets <- {Bucket(r) : r \in Readers},
    Limit <- [r \in Readers |-> LimitOf(r)], verdicts <- readers

Without(buckets, all) == [b \in DOMAIN all \ buckets |-> all[b]]

\* Faulty variant: above the bound every window is cleared away.
ClearedOfAll(all, now) ==
    IF Cardinality(DOMAIN all) <= MaxBuckets THEN all ELSE <<>>

Cleared(all, now) ==
    IF Cardinality(DOMAIN all) <= MaxBuckets THEN all
    ELSE Without({b \in DOMAIN all : Limiter!Ended(all[b], now)}, all)

\* The windows after verdict v: only a request that counted looks for ended ones.
WindowsAfter(b, v, now) ==
    IF v.allowed /\ v.count > 1
    THEN Cleared(Limiter!After(b, v), now)
    ELSE Limiter!After(b, v)

\* Faulty variant: the seconds to wait are rounded down.
RetryAfterRoundedDown(resetAt, now) == (resetAt - now) \div Second

\* Retry-After: whole seconds, at least one.
RetryAfter(resetAt, now) ==
    LET seconds == (resetAt - now + Second - 1) \div Second
    IN  IF seconds < 1 THEN 1 ELSE seconds

(***************************************************************************)
(* queryTransactions, listAuditLogs                                        *)
(***************************************************************************)
\* Faulty variant: of two records of one moment the later comes first.
BeforeUnstable(order, i, j) ==
    \/ log[i].at = log[j].at /\ j < i
    \/ log[i].at # log[j].at /\ ((order = "asc") <=> (log[i].at < log[j].at))

\* Whether record i comes before record j: by time, records of one moment
\* in the order they were added, whichever way the list is sorted.
Before(order, i, j) ==
    \/ log[i].at = log[j].at /\ i < j
    \/ log[i].at # log[j].at /\ ((order = "asc") <=> (log[i].at < log[j].at))

\* What the list of the client's scope shows it: members and viewers see the
\* transactions that move an account of theirs.
Visible(r) ==
    {i \in DOMAIN log :
        r.scope \in log[i].lists /\ (r.role = "ADMIN" \/ r.user \in log[i].users)}

\* The numbers of a set of records as a sorted list.
Sorted(records, order) ==
    [n \in 1 .. Cardinality(records) |->
        CHOOSE i \in records : Cardinality({j \in records : Before(order, j, i)}) = n - 1]

PageSize(r) == LeastOf(r.size, MaxPageSize)

Slice(list, page, size) ==
    SubSeq(list, (page - 1) * size + 1, LeastOf(page * size, Len(list)))

\* Faulty variant: the page is cut first, and then reduced to what is visible.
PageCutFirst(r, page) ==
    SelectSeq(Slice(Sorted(DOMAIN log, r.order), page, PageSize(r)), LAMBDA i : i \in Visible(r))

\* Faulty variant: the count is limited to a page, like the list.
TotalOfPage(r) == LeastOf(PageSize(r), Cardinality(Visible(r)))

\* countAuditLogs: all that the list would show, on any page.
Total(r) == Cardinality(Visible(r))

\* What a request for a page answers.
Page(r, page) == Slice(Sorted(Visible(r), r.order), page, PageSize(r))

(***************************************************************************)
(* A client reads from page 1 on, until a page is short or the pages       *)
(* behind it hold as many records as the reply says there are.             *)
(***************************************************************************)
Idle ==
    [pc |-> "idle", page |-> 0, total |-> 0, start |-> {}, known |-> {}, late |-> 0,
     seen |-> <<>>, deniedBy |-> Null, denials |-> 0, retryAt |-> 0]

Init ==
    /\ clock = 0
    /\ steady = TRUE
    /\ log = <<>>
    /\ expiring = Null
    /\ windows = <<>>
    /\ grants = [b \in {Bucket(r) : r \in Readers} |-> [t \in Times |-> 0]]
    /\ readers = [r \in Readers |-> Idle]

Start(r) ==
    /\ readers[r].pc = "idle"
    /\ readers' = [readers EXCEPT ![r].pc = "ask", ![r].page = 1, ![r].start = Visible(r)]
    /\ UNCHANGED <<clock, steady, log, expiring, windows, grants>>

\* A request arrives and is let through, or answered 429 with Retry-After;
\* the client comes again no sooner than that.
Ask(r) ==
    LET b == Bucket(r)
        v == Limiter!VerdictOn(b, LimitOf(r), clock)
        me == readers[r]
    IN  /\ me.pc = "ask"
        /\ clock >= me.retryAt
        /\ windows' = WindowsAfter(b, v, clock)
        /\ IF v.allowed
           THEN /\ readers' = [readers EXCEPT
                      ![r].pc = IF r.scope = "audit-logs" THEN "count" ELSE "list",
                      ![r].deniedBy = Null, ![r].denials = 0, ![r].retryAt = 0]
                /\ grants' = [grants EXCEPT ![b][clock] = @ + 1]
           ELSE /\ readers' = [readers EXCEPT
                      ![r].deniedBy = v.resetAt,
                      ![r].denials = IF me.deniedBy = v.resetAt THEN @ + 1 ELSE 1,
                      ![r].retryAt = clock + Second * RetryAfter(v.resetAt, clock)]
                /\ UNCHANGED grants
        /\ UNCHANGED <<clock, steady, log, expiring>>

\* countAuditLogs, awaited before the list is; known: what there was then.
Count(r) ==
    /\ readers[r].pc = "count"
    /\ readers' = [readers EXCEPT ![r].pc = "list", ![r].total = Total(r), ![r].known = Visible(r)]
    /\ UNCHANGED <<clock, steady, log, expiring, windows, grants>>

\* The list is read and cut; the client reads the reply.  Late are the
\* records that the total of this reply could not count.
List(r) ==
    LET me == readers[r]
        items == Page(r, me.page)
        last == IF r.stop = "total"
                THEN me.page * PageSize(r) >= me.total
                ELSE Len(items) < PageSize(r)
    IN  /\ me.pc = "list"
        /\ readers' = [readers EXCEPT
              ![r].pc = IF last THEN "done" ELSE "ask",
              ![r].page = IF last THEN @ ELSE @ + 1,
              ![r].total = 0,
              ![r].known = {},
              ![r].late = Cardinality(Visible(r) \ me.known),
              ![r].seen = @ \o items]
        /\ UNCHANGED <<clock, steady, log, expiring, windows, grants>>

(***************************************************************************)
(* What adds records, one operation at a time (AsyncMutex).                *)
(***************************************************************************)
Adds(record) ==
    /\ log' = Append(log, record)
    /\ UNCHANGED <<clock, steady, windows, grants, readers>>

Posted(users) == [at |-> clock, users |-> users, lists |-> {"transactions", "audit-logs"}]

\* A posting or a reversal: a transaction and its audit, with the time read.
Post(users) ==
    /\ expiring = Null
    /\ Len(log) < LogBound
    /\ Adds(Posted(users))
    /\ UNCHANGED expiring

\* expireLots posts the sweep of a lot with the time read. The batch's own
\* time is the caller's now, or when the batch was asked for.
Sweep(users, now) ==
    /\ expiring = Null
    /\ Len(log) + 2 <= LogBound
    /\ Adds(Posted(users))
    /\ expiring' = now

\* It then marks the lot: the LOT_EXPIRE audit has the batch's time.
Mark ==
    /\ expiring # Null
    /\ Adds([at |-> expiring, users |-> {}, lists |-> {"audit-logs"}])
    /\ expiring' = Null

Tick ==
    /\ clock < MaxTime
    /\ clock' = clock + 1
    /\ UNCHANGED <<steady, log, expiring, windows, grants, readers>>

\* The host's clock is set back.
SetBack ==
    /\ clock > 0
    /\ steady
    /\ clock' = 0
    /\ steady' = FALSE
    /\ UNCHANGED <<log, expiring, windows, grants, readers>>

Next ==
    \/ \E r \in Readers : Start(r) \/ Ask(r) \/ Count(r) \/ List(r)
    \/ \E users \in SUBSET Users : Post(users) \/ \E now \in Times : Sweep(users, now)
    \/ Mark
    \/ Tick
    \/ SetBack

Spec == Init /\ [][Next]_vars

(***************************************************************************)
(* Properties                                                              *)
(***************************************************************************)
Seen(r) == {readers[r].seen[n] : n \in DOMAIN readers[r].seen}

\* A client that reads until a page is short has seen every record there was
\* when it began, in either order and whatever the clock did: records that
\* are added push the others to later pages, never to earlier ones.
PagesMissNothing ==
    \A r \in Readers :
        readers[r].pc = "done" /\ r.stop = "short"
            => readers[r].start \subseteq Seen(r)

\* While the clock runs forward, ascending pages of GET /transactions put
\* together are the list itself, nothing twice: postings stamp themselves, so
\* none goes in before another (of audits, LOT_EXPIRE does).
AscendingPagesAreExact ==
    \A r \in Readers :
        steady /\ r.scope = "transactions" /\ r.order = "asc" =>
            readers[r].seen = SubSeq(Sorted(Visible(r), "asc"), 1, Len(readers[r].seen))

\* The total is read before the list it is sent with (GET /audit-logs): who
\* stops by it misses, of what there was when it began, no more records than
\* were added between the two reads of its last page, in either order and
\* whatever times the records have.
TotalMissesOnlyLate ==
    \A r \in Readers :
        readers[r].pc = "done" /\ r.stop = "total"
            => Cardinality(readers[r].start \ Seen(r)) <= readers[r].late

\* Who waits as long as Retry-After says is not turned away by the same
\* window again, though seconds are rounded and pages go on being read.
DeniedOncePerWindow == steady => \A r \in Readers : readers[r].denials <= 1

\* The requests let through from moment first on and before moment after.
Granted(b, first, after) ==
    UNION {{t} \X (1 .. grants[b][t]) : t \in {t \in Times : first <= t /\ t < after}}

\* However windows open, end and are cleared away, a window on record lets
\* through no more than the highest limit of those who share its bucket, from
\* its first moment to its last (InMemoryReadRateLimitBackend.consume).
RateIsBounded ==
    steady =>
        \A b \in DOMAIN windows :
            \E r \in Readers :
                /\ Bucket(r) = b
                /\ Cardinality(Granted(b, windows[b].resetAt - Window, windows[b].resetAt)) <= LimitOf(r)
=============================================================================
