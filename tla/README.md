# A TLA+ verification of the Point Ledger Service

The service keeps, per tenant, a double-entry ledger of loyalty points: accounts
with balances, transactions made of signed entries that sum to zero, and *lots* of
granted points that expire. Spends consume lots in first-expiring-first-out (FEFO)
order, a batch sweeps the expired ones, transactions can be reversed once, and
requests can be resent under an idempotency key. It is a single Node process
(Fastify over an in-memory service), with an optional store that saves the whole
ledger after each operation, and an optional read rate limit.

Paths below are relative to the root of the repository.

## 1. Inventory

| Component | State | Operations | Interacts with |
|---|---|---|---|
| `LedgerService` (`src/services/ledger-service.ts`) | nine maps and lists: accounts, balances, transactions, entries, lots, consumptions, audit log, idempotency index, reversal index | `createAccount`, `postTransaction`, `reverseTransaction`, `expireLots`, `importState`, `saveState`, `loadState`, queries | runs every mutation inside the mutex; saves through a `StateStore` |
| `AsyncMutex` (`src/services/async-mutex.ts`) | the promise of the last call | `runExclusive` | the promise jobs of the event loop |
| State stores (`src/persistence/`) | one file, or one row of a table | `load`, `save` | called by the service with the mutex held, or without (`saveState`, `saveStateToFile`) |
| HTTP API (`src/http/app.ts`, `schemas.ts`) | counters of the rate limit | routes, roles, validation | calls the service; several routes await it more than once |
| Read rate limit (`read-rate-limit-backend.ts`, `postgres-read-rate-limit-backend.ts`, `app.ts`) | a fixed window per bucket, in a map or in a table | `consume`, cleanup | awaited before the guarded reads; several processes may share the table |
| Start-up (`src/index.ts`) | configuration | build the stores, load, listen | wires the parts |
| Scripts, artifacts, CI, documents | – | – | not part of the running system |

**What is hard.** All mutations are serialised by the mutex, so two of them never
interleave; what remains is:

- *sequences*: spend, reversal and expiry meet on the same lot in any order (a
  spend reversed after the rest of its lot expired; an EARN reversed around a
  spend). Each handler re-establishes by hand what the others assume.
- *the batch*: `expireLots` awaits `postInternal` once per lot. Readers run in
  between, and a lot that cannot be swept makes the call fail halfway.
- *errors after mutation*: some checks throw after balances and lots have moved,
  and nothing rolls back.
- *rebuilt state*: the idempotency and reversal indexes are not stored; a restart
  computes them again, with code of its own.
- *time*: the clock is read once per call and may be set back; the batch takes its
  time from the request.
- *persistence*: a failed save leaves memory ahead of the store; saves outside the
  mutex share one temporary file; two processes overwrite each other.
- *the rate limit in Postgres*: races on the first row of a bucket, stale times,
  a cleanup that chooses rows before it locks them, and a pool whose clients can
  all be waiting for one more.
- *requests that await more than once*: a member's posting is authorised before it
  is made, an audit page is counted before it is read, and a client who reads page
  after page sees a different list each time.

`PROJECT.json` lists these hazards with their lines, and the properties that catch
them going wrong.

**What makes each component correct.** *Ledger*: balances are the sum of the
journal, tenants net to zero, guarded accounts never go negative, points of a lot
are conserved, spends are FEFO, reversals mirror and happen once, no internal
error, complete audit, batches end. *Mutex*: a first-come-first-served lock that
survives exceptions. *Persistence*: what was acknowledged survives a crash; what
is loaded is a state the service was in. *Rate limit*: at most `limit` requests
per window and bucket; every request is answered. *Paged reads*: pages miss nothing
that was there when the client began. *HTTP*: each role reaches only
its operations and accounts.

## 2. The modules

| Module | Content |
|---|---|
| `Ledger.tla` | the state machine of `LedgerService` |
| `LedgerProperties.tla` | its type invariant, invariants, action and liveness properties |
| `DisciplinedLedger.tla` | the ledger restricted to callers who grant points only as lots, and what it promises them |
| `LedgerRestart.tla` | what a save and a load make of the ledger's journal and indexes |
| `Journal.tla` | the abstract double-entry ledger |
| `JournalledLedger.tla` | the refinement mapping from `Ledger` to `Journal` |
| `MCLedger.tla`, `MCLedger_*.cfg` | small instances of all of these |
| `HttpApi.tla`, `MCHttpApi.*` | the ledger behind the requests that change it, with roles and key header |
| `ReadRateLimit.tla` | the atomic rate limiter: the in-memory backend, and the promise of both |
| `PostgresReadRateLimit.tla`, `MCReadRateLimit*` | the Postgres backend, query by query, shown to implement it |
| `ReadApi.tla`, `MCReadApi*` | clients that read page after page through the in-memory limiter |
| `FifoLock.tla` | the abstract lock that callers of the mutex rely on |
| `AsyncMutex.tla`, `AsyncMutex.cfg` | the promise chain, shown to implement `FifoLock` |
| `StateStore.tla` | what the service relies on a store for: atomic saves with known or unknown outcome |
| `FileStateStore.tla`, `.cfg` | the file store call by call, shown and proved to implement `StateStore` |
| `DurableLedger.tla`, `DurableLedger*.cfg` | the service with a store, its restarts and resends |
| `LedgerProofs.tla` | sums over finite sets; types, no negative balance and sound reversals, proved |
| `LedgerHistoryProofs.tla` | what the ledger has recorded: conservation of lots, no internal error and FEFO; balances as journal sums, closed tenants, the refinement of `Journal`; thorough batches, idempotency index, audit log, and what a load gives back, proved |
| `CallerProofs.tla` | what disciplined callers and the owners of accounts can rely on, proved |
| `DurableLedgerProofs.tla` | what the store holds, and which operations survive, proved |
| `AsyncMutexProofs.tla` | mutual exclusion and the safety half of the refinement, proved |
| `ReadRateLimitProofs.tla` | the Postgres limiter implements the atomic one, and cleanups take turns, proved |
| `ReadApiProofs.tla` | sorted lists and pages; what paged reads and the in-memory limiter promise, proved |

### From the code to `Ledger`

The variables have the names of the service's fields. Identifiers are creation
order: an account or a transaction is its position in the insertion-ordered `Map`,
a lot is the pair of its transaction and the entry that granted it. Two variables
are not fields: `batch` holds the locals of the `expireLots` call that has the
mutex, and `reply` the answer or error of the last completed call.

| Code | Action |
|---|---|
| `createAccount` | `CreateAccount` |
| `postTransaction`: resend, refusal, posting | the three disjuncts of `PostTransaction` |
| `reverseTransaction`: unknown, replayed, refused, done | the disjuncts of `ReverseTransaction` |
| `expireLots` up to its loop | `ExpireBegin` |
| `postInternal`, succeeding or throwing | `ExpirePost`, `ExpireAbort` |
| the loop body after `await postInternal` | `ExpireMark` |
| the end of `expireLots` | `ExpireEnd` |
| time | `Tick`, in both directions |

Each `...Verdict` operator gives the first error the handler would throw, in the
order of the code. `AssertInvariants` is `assertInvariantsForTenant`, evaluated on
the state the handler has already produced: it can fail the call but not undo it.
The planning loop of a spend is written in closed form (`SpendPlan`): a lot is
reached when the lots ahead of it do not cover the amount.

An operation without a store awaits nothing before it is done, and holds the mutex
until then, so it is one action. `expireLots` is not: its `await` lets readers in,
so it is stepped, and while `batch` is not `Null` no other mutation starts.

*Left out, because no check reads it*: units, owner ids, versions, descriptions,
external references, update times. *Abstracted*: instants are numbers (the code
compares ISO strings; see the hazards); amounts are integers (the code adds
doubles). Tenants, actors and keys are the sequences of segments that `:` separates,
because the code joins them with `:` and the joins can meet.

The comments mark some definitions as *faulty variants*. No action uses them. Each
replaces the definition it precedes to confirm that a property notices the fault.

`LedgerRestart` states what `importState(snapshot())` gives for the parts that are
not saved as they are kept: the entries and consumptions, saved as flat lists and
grouped again, and the reversal index, which is rebuilt from the transactions. The
operators are the two conversions; `RestartKeepsJournal` compares their result with
the fields at every moment, so that a save may be taken in any state.

### From the ledger to `Journal`

`Journal` is what a caller thinks of: accounts are opened, and balanced movements
within one tenant are posted that leave no guarded account below zero; the book only
grows. `JournalledLedger` maps `entriesByTxId` to the book and `balances` to itself.
Posting, reversing and sweeping a lot are `Post`; resends, refusals, errors after the
mutation, the marking of lots and the ends of batches stutter.

### From the code to `HttpApi`

| Code (`src/http/app.ts`) | Action |
|---|---|
| `POST /accounts`, `/transactions/:txId/reverse`, `/batch/expire` | `HttpCreateAccount`, `HttpReverse`, `HttpExpire` |
| `POST /transactions` of an ADMIN | `HttpPost` |
| the same of a MEMBER, up to `await service.getAccount` | `HttpAuthorise` |
| the same after it | `HttpPostAuthorised` |
| the steps of a batch that a request started | `HttpBatchStep` |

Every action contains the action of `Ledger` that its handler calls. A request that is
refused before it reaches the service changes nothing and is no step. `owners` is the
field `ownerId` of the accounts, which `Ledger` leaves out; `authorised` is the
posting between its check and the mutex; `postedBy` is history.

### From the code to the rate limiters

`ReadRateLimit` is `InMemoryReadRateLimitBackend.consume`, which has no `await` and is
one action, and the interface that `app.ts` relies on. `Forget` stands for the removal
of windows, which both backends do in ways of their own.

| Code (`postgres-read-rate-limit-backend.ts`) | Action of `PostgresReadRateLimit` |
|---|---|
| `consume` up to `pool.connect()` | `Arrive` |
| a client becomes free; `BEGIN` | `Connect` |
| `SELECT ... FOR UPDATE`, and the UPDATE under its lock | `Select` |
| `INSERT`, which may hit the primary key | `Insert` |
| `COMMIT` | `Commit` |
| a query fails, the answer of COMMIT is lost; `ROLLBACK` | `Fail`, `AnswerLost` |
| `cleanupIfNeeded` | `Finish` |
| `runCleanup`: try lock, `target`, each row, end of the DELETE, error, `finally` | `TryLock`, `Pick`, `Delete`, `DeleteEnd`, `CleanupFails`, `Unlock` |

The database is what its documentation says of READ COMMITTED: a statement sees what was
committed when it began, waits for the transactions that hold a row it wants, and looks at
the row again after that. The UPDATE that follows a SELECT FOR UPDATE is joined to it,
since nobody else reaches the row before COMMIT. The refinement maps the table to
`windows`, and takes a consume to happen at its COMMIT, with the time it read when
it arrived.

### From the code to `ReadApi`

A client reads `GET /transactions` or `GET /audit-logs` from page 1 on. `Ask` is
`enforceReadRateLimit`, `Count` the `await` of `countAuditLogs`, `List` the query, the
filter by owner for members and viewers, and the slice. Each of them sees the log as it
is at that moment: records are added between any two. A client stops at a short page, or
when the pages it has hold as many records as the total it was told; one that is denied
comes back when `Retry-After` says.

`Post` is a posting or a reversal, a transaction and its audit with the time that was
read. `expireLots` is two steps: `Sweep` posts with the time read, and `Mark` adds the
`LOT_EXPIRE` audit with the time of the batch (line 621), which the request may have chosen
and which is older than the records around it even where the clock only runs forward. So
audits are not added in the order of their times, and transactions are. `log` says of each
record which lists show it. Users, addresses and tenants are sequences of the parts between
their colons, so that keys joined with `:` collide as they do in the code.
`grants`, `steady`, and what a client notes of its replies in `start`, `known` and `late`, are
history. The counters that `/metrics` shows are left out; the limiter and the header of a
denial, which read the clock one after the other, read one value.

### From the code to `AsyncMutex`

Call *n* of `runExclusive` waits for promise *n*−1, and puts promise *n* in
`queue`. `RunExclusive` is the part before `await prev`, `Resume` the
continuation, `Finish` the end of the work in either way, `Fulfil` the moment
when `prev.then(() => next)` is fulfilled. Calls arrive between any two of these.

### From the code to the stores and `DurableLedger`

`StateStore` is the interface of `state-store.ts` as the service uses it. A save is
begun by `Save`, takes effect in `Replace` and ends in `Return` or `Fail`; a `Fail`
after `Replace` is the save whose answer was lost. The upsert of
`PostgresStateStore` is exactly this. `FileStateStore` has one action for each
call of `writeFileAtomic` (two for `writeFile`, which truncates before it fills),
and `Fail` and `Crash` at every one of them; its `Rename` is the `Replace`.

`DurableLedger` composes the service with `StateStore`. `Ledger` says what each
operation does to balances and lots. Here an operation is an id and its idempotency
key, and the ledger is the sequence of the operations it went through, because
`exportState` saves the whole ledger and the question is which operations a restart
brings back.

| Code | Action |
|---|---|
| `index.ts`: `await service.loadState()`, `importState` | `Start` |
| `postTransaction`, `createAccount`, ... up to `await persistIfConfigured()` | `Apply` |
| `postTransaction`: the key is known | `Resend` |
| `expireLots` that throws after a sweep | `AbortedBatch` |
| the save, and the two ways it ends | `Replace`, `Saved`, `SaveFailed` |
| the process dies | `Crash` |

`answers` and `confirmed` are history variables: what clients were told.

## 3. The runs

| Run | Shows | Instance |
|---|---|---|
| `journal` | `LotConservation`, `NoInternalError`, `BalanceIsJournalSum`, `NoNegativeBalance`, `ReversalIntegrity`, `AuditTrail`, `RestartKeepsJournal`, `BatchEnds`, `IsJournal` | any caller, 1 tenant, its SYSTEM and a USER account that may or may not go negative; an EARN of a lot and a spend that may reach two, and movements that lots do not follow: ADJUSTs that name an account twice, debits behind the lots' back, points without expiry, a spend to the same account, entries that do not balance; reversals, also of reversals; 3 transactions and the EXPIREs; clock 0..1 |
| `api` | `TypeOK`, `TenantsNetToZero`, `RestartKeepsIdempotency`, `MembersSpendTheirOwn` | an admin, a member and a viewer; 2 tenants, 2 owners and one key whose joins collide, in body and header, padded and blank keys; spends of either user, one in the name of another; a SYSTEM account with the id of the member; 3 accounts, 2 transactions |
| `disciplined` | `SpendsAreFefo`, `BatchSweepsAll`, `LotsBackBalances`, `BatchNeverFails` | callers that keep the discipline; SYSTEM and 2 USER accounts; an EARN of lots of two users, and one of a lot that expires sooner; a spend of 2 points; reversals; 3 transactions and the EXPIREs; clock 0..2 |
| `mutex` | `MutualExclusion`, `IsFifoLock`, `EveryCallRuns` | 5 calls |
| `durable` | `StoreIsPast`, `PostedOnce`, `ConfirmedSurvives` | 2 keys, 4 operations with and without keys |
| `file_store` | `IsStateStore` | 3 states to save |
| `resend` | *violated*: LG-TX-004 | as `durable` |
| `lot_balance` | *violated*: LG-INV-005 for every caller | as `journal`, but no account goes negative |
| `read_limit` | `CleanersTakeTurns`, `ConsumesAreAtomic`, `OnlyAStoppedPoolHangs` | 2 processes with pools of 2, 2 buckets, 3 requests with limits 2, 2 and 1, times 0, 1 and 3, one failed request, batches of one row |
| `read_limit_cleanup` | *violated*: cleanup deletes expired buckets | as `read_limit` |
| `read_limit_pool` | *violated*: a request above the limit is answered 429 | as `read_limit`, nothing fails |
| `reads` | `PagesMissNothing`, `AscendingPagesAreExact`, `TotalMissesOnlyLate`, `DeniedOncePerWindow`, `RateIsBounded` | one of five clients reads: a member who reads transactions and an auditor who stops by the total, each upwards and downwards, or one who reads audits downwards to a short page; pages of 1, 2 and 3 records (of 4 asked), 3 records of either kind, clock 0..1, limits above need. Or a viewer and an admin share a bucket with limits 1 and 2, an auditor has one beside it, and the list stays as it is; windows of 3 moments and seconds of 2, one bucket before windows are cleared away, clock 0..4. Set back once |

**Why the bounds are enough.** Three requests after the accounts are what the hard
sequences need: an EARN, a spend and a reversal, with any number of batches and
clock changes between them (`MaxTx` does not count EXPIRE transactions; a batch is
bounded by the lots it finds). That reaches a lot that was half spent, expired,
given back by the reversal and expired again. Two lots are enough for a spend to
stop in one and reach into the next; two expiries and an instant after both make
each lot be before, at and after its expiry. Four operations let one key be posted, fail
to be saved, be lost and be posted again with another operation on either side; the
crashes between them are not bounded. Three states distinguish the old state, the
new one and what an earlier save left in the temporary file. Five calls of the mutex
let one work, one have ended without its promise being fulfilled and three wait.

Three requests of the limiter let two meet on a row that is missing, counted or reset,
while the third is behind them or has started the cleanup that meets both; with pools
of two, two requests fill a pool. At time 3 a window of time 0 is ended and overdue, and one of
time 1 is ended only.

In `reads`, the constraint `OneReadsOrSharersMeet` joins two instances. In the first, one
client reads while records are added: three records let a client that began with one or
two read several pages and finish them while others come before, on and after the page it is
at, sweeps and back-dated audits among them; TLC reaches finished readings of both kinds in
both orders with records added, with records read twice, and with records missed by the
total. The limits are above what a reading asks for, so that it can end; clients then have
nothing in common but the log, and one of them to read in each behaviour is enough. In the
second, limits bind: two clients with different limits share a bucket, over a list that is
full and takes the admin two requests, and the third has a bucket beside it. A window of
three moments and seconds of two make the rounding of `Retry-After` matter, from the first
moment of a window and from its last, and `MaxBuckets` = 1 lets the second bucket trigger the
clearing. The clock lets a window end, begin anew and count those who waited.

The bounds and where they guard: `MaxAccounts` (`CreateAccount`), `MaxTx`
(`RoomForTx`), `MaxTime` (`Tick` of `Ledger` and of `ReadApi`), `MaxCalls`
(`RunExclusive`), `MaxOps` (`Apply`, `AbortedBatch`), `RequestBound` and `Routes`
(`Arrive`), `FailureBound` (`Breakable`), the largest of `Times`
(`Tick` of `PostgresReadRateLimit`), `LogBound` (`Post`, `Sweep`), the one `SetBack`, and one
member at a time between check and posting (`HttpAuthorise`).

**Deadlock** is checked in the ledger and store runs: a request can always be
answered, and a process always restarted. It
is not in `mutex`, `read_limit` and `reads`, where all calls may have been served and
the clock may have stopped, nor in `api`, where refused requests are no steps.

**Fairness.** `Ledger` assumes weak fairness of `ExpireStep`: nothing but the event
loop is between the holder of the mutex and its next step, since neither
`postInternal` nor the rest of the loop waits for I/O. Requests and the clock are
not fair: nothing obliges a client to call. `AsyncMutex` assumes that ready
continuations run and that work ends; the first is the promise job queue, the
second is an assumption on callers, met by handlers that await only the store.

`PostgresReadRateLimit` assumes weak fairness of `Progress`, the answers of queries and
the continuations that wait for them: `pg` has no query timeout here, and a query that
never ends keeps its client for ever in the code as well. Arrivals, failures and the clock are not
fair. One fairness for all of `Progress` is enough, because the requests are finitely
many and each takes finitely many such steps.

Nothing bounds how long a consume takes: neither `pool.connect` nor a query has a timeout, and
the clock of the model goes on while they wait. So the pool can stop for good
(`PoolStopped`): every client is held by a request that waits for the cleanup (line 84),
which is in the queue for one. `OnlyAStoppedPoolHangs` says that this is the only way in
which a consume does not end: rows, the key of a bucket, the advisory lock and the queues
are never waited for in a circle, whatever fails, and a client that was taken is given back. To end
may be to fail; that a failure counts at most once, and answers nothing, is `ConsumesAreAtomic`.

`DurableLedger`, `FileStateStore`, `HttpApi` and `ReadApi` state no fairness, since their
properties are safety properties.

**What the violations say.** The documents and tests state four promises without the
conditions under which the code keeps them. `LG-INV-005` holds for callers who
grant points only with an expiry, never ADJUST a user, spend only to a SYSTEM account and
reverse only EARNs and SPENDs (`LotsBackBalances`). For the same
callers a batch sweeps all due lots (`BatchNeverFails`); for others, a
lot whose points have left the balance stops every batch of its tenant: the batch
answers `INSUFFICIENT_BALANCE`, having swept the lots before it.
`LG-TX-004` (a resend returns the same result) holds as long as saves succeed. When
a save throws, the operation stays in memory: the next request with its key is
answered as if the first had succeeded, and saves nothing. If the process dies
before another operation saves, that answer is lost, and a third request posts
anew. The cleanup of the Postgres limiter, which its test says deletes expired buckets,
picks overdue rows without locking them and deletes by key: a request that resets such a
row in between commits first, and its new window is deleted with its count. The client
may then make up to `limit` requests more; `ConsumesAreAtomic` says that nothing else goes
wrong. The README's 429 for requests above the limit never comes from a process whose pool
has stopped: in the run, a request starts the cleanup, another that was stamped a cleanup
interval later has the other client and joins it, and nobody is left to let the cleanup
in. That takes a consume which lasts a cleanup interval from its stamp to its COMMIT, and as many
requests as the pool has clients; with the defaults (10 clients, 60 seconds) only a database that
hangs makes it likely, with the interval of 1 ms that the end-to-end test sets, a burst
of ten requests can do, and a pool of one client stops at the first cleanup. `PostedOnce` and `ConfirmedSurvives` say what remains true: no surviving ledger
has a key twice, and an operation answered after its own save is never lost.

## 4. The proofs

All are for arbitrary constants under the named assumptions of the modules
(`InputAssumption`, `BoundAssumption`, `NullAssumption`, `KeyAssumption`,
`CallAssumption`, `ContentAssumption`, `DurableAssumption`, `TimesAssumption`,
`CleanupAssumption`, and those of `ReadApi`), which only type the inputs, separate
`Null` from data, and say that limits, windows and page sizes are positive, as
`isPositiveInt` (`src/index.ts`) and `parseBoundedInt` (`src/http/app.ts`) make them.

### The ledger

The invariants build on each other, each proved step by step under those before it:
`Typed`, then `MovementsOK`, `LotsOK` and `AssertionsOK`, then one invariant for
each further property.

- **`TypeCorrect`**: `Spec => []TypeOK`. `TypeOK` is not inductive. A batch
  remembers a SYSTEM account, a set of due lots and the sweep it is in the middle
  of, and the next steps apply functions to them. So the invariant is
  `Typed == TypeOK /\ OneSystemAccount /\ BatchOK`: at most one SYSTEM account per
  tenant, and what a batch holds exists and belongs to its tenant. Sums of integer
  amounts must be integers, and the community modules define sums by a fold whose
  recursion the prover cannot unfold; the first part of `LedgerProofs` derives what is
  needed (a sum is an integer, adding or removing one index, agreement, bounds,
  unions, sums by group) from the recursive function behind it.
- **`NeverNegative`**: `Spec => []NoNegativeBalance`. Under `Typed` it is inductive:
  a movement is accepted only if it overdraws no account (`Overdrawn`), accounts it does
  not name keep their balance (`DeltaOfOthers`), and `ExpireMark` moves none. This
  is the promise that a reader relies on between the halves of a sweep.
- **`ReversalsAreSound`**: `Spec => []ReversalIntegrity`. Recording a transaction
  extends the sequences (`AppendKeepsReversals`); only `ReverseTransaction` writes
  the index, for a source that is not in it and is no EXPIRE
  (`ReversalKeepsReversals`).
- **`LotsConserved`** and **`NoInternalErrors`** are proved together, because each needs
  the other: a handler that threw `LOT_NEGATIVE` or `LOT_OVERFLOW` would stop between
  balances and journal, and these errors are unreachable only as long as lots are
  conserved. The inductive invariant `LotsOK` adds to `LotConservation` that lots were granted
  positive amounts by recorded transactions (`LotsGranted`), that only SPENDs consume, and
  never nothing (`ConsumptionsOK`), that the audit log names lots that exist
  (`SweepsOK`), and that what a batch holds in flight is still what its lot has
  (`SweepInFlight`). Giving a
  spend's points back then cannot overfill a lot, since they are part of what it
  granted. `MovementsOK` says that recorded movements balance and name
  accounts that exist, and `AssertionsOK` that the ledger always passes `assertInvariantsForTenant`.
- **`SpendsTakeEarliest`**: `Spec => SpendsAreFefo`. With the closed form of the plan:
  the lots ahead of a lot that is reached are taken whole, so that what the plan takes
  adds up to the amount when the last lot reached is counted (`PlanSum`). `LotsOwned`
  says that a lot belongs to the tenant of its account.
- **`BalancesAreJournalSums`**, **`TenantsAreClosed`**, **`ImplementsJournal`**. All
  three follow from `StepMoves`: a step moves one balanced movement of one tenant, or
  opens an account, or leaves book and balances alone. The steps of a request that
  fails after its mutation would break it, and are excluded by the invariant above.
- **`BatchIsThorough`**: `Spec => BatchSweepsAll`. `DueCovered`: every lot that is due at
  the time of a batch is still in its list. Nothing that gives points back to a lot
  runs before the batch ends.
- **`RestartFindsResends`**: `Spec => []RestartKeepsIdempotency`. `IndexOK`: the index
  and the transactions with a key name each other, so that no two of them share a joined
  key; a posting whose joined key is taken, by whichever parts, is answered as a resend.
- **`AuditIsComplete`**: `Spec => []AuditTrail`, with `AuditOK`: the log names
  recorded transactions only, one record each, and the sweep in flight is known to the batch.

- **`RestartLosesNothing`**: `Spec => []RestartKeepsJournal`. It needs no further
  invariant, but the two loops of a save and a load have to be understood for journals of any
  length. `FlattenSeq` and `Grouped` are recursive functions on intervals of numbers;
  that they exist, and each thing said about them, is proved by a least counterexample
  (`LeastNumber`). `FlattenPlaces`: the saved list holds the entries of each transaction
  without a gap, one transaction behind the other. `GroupRun`: such a run is grouped
  to the entries it came from, and gives nothing to other transactions.

### Groups of callers

- **`LotsAlwaysBackBalances`**: `DisciplinedSpec => []LotsBackBalances`. The
  invariant `Disciplines` consists of all of the above (`Settled`), of where points
  come from and went (`Traced`: a lot comes from an entry of its transaction, a user's
  entry of an EARN granted a lot, a SPEND took from the lots of each account what it
  debits), and of the property between the halves of a sweep (`LotsBack`). There is
  one lemma per operation (`EarnBacks`, `SpendBacks`, `SpendReversalBacks`,
  `EarnReversalBacks`, `ExpirePostBacks`, `ExpireMarkBacks`, `CreateAccountBacks`), each
  of which sums a change over the lots of one account and over its entries. Lots that
  are no longer ACTIVE have nothing left.
- **`NoBatchFails`**: `DisciplinedSpec => BatchNeverFails`. A user's balance is what
  all lots of the user have left, so it covers any one of them: no sweep is refused
  (`SweepIsAllowed`), and by `AssertionsOK` none fails after it has begun.
- **`MembersAreConfined`**: `HttpSpec => []MembersSpendTheirOwn`. What was
  checked still holds when the mutex is got (`AuthorisedOK`), because accounts are never
  removed and never change owner; and each transaction of a member that was recorded keeps to
  it (`OwnPosting`). The body of a request is any record of the right shape.

### The mutex, the stores and the limiter

- **`WorkIsExclusive`**: `Spec => []MutualExclusion`. The inductive invariant `Chain`
  says what a fulfilled promise stands for: the calls that ended are the first
  *k*, a fulfilled promise is that of a call that ended, and a call that works
  found the promise before its own fulfilled. So it is call *k*+1.
- **`ImplementsFifoLock`**: `Spec => Lock!SafeSpec`. Under `Chain`, `RunExclusive`
  maps to `Arrive`, `Resume` to `Acquire`, `Finish` to `Release`, and `Fulfil`
  stutters.
- **`FileIsStateStore`**: `Spec => IsStateStore`. The invariant `SaveOK`, inductive as
  it stands, says that the temporary file holds the whole state being saved when it
  is about to be renamed. So `Rename` maps to `Replace`, `Return` to `Return`, `Fail`
  and `Crash` to `Fail`, and the other calls stutter.
- **`RestartsToThePast`**, **`KeysPostOnce`**, **`AnsweredSurvives`**. One invariant,
  `DurableOK`, for the three: the store is a beginning of memory or memory of it
  (`StoreIsPast`), what is being saved is memory and ends with the operation that waits
  (`SavesMemory`), a process that is down has no memory (`DownIsEmpty`), the index covers
  every key in memory (`IndexCovers`), no key is twice in memory or in the store
  (`KeysOnce`), and what was answered after its own save is in the store
  (`ConfirmedSurvives`).
- **`PostgresIsAtomic`**: `Spec => ConsumesAreAtomic`. A request fixes its answer when it
  reads or inserts its row, and the refinement lets the consume happen later, at its COMMIT.
  The two agree because of `CommitsOK`: whoever is at its COMMIT is the only one
  with the key of its bucket, no cleanup has deleted that key, and its answer is still what
  the committed row calls for. Steps that take a key (`CommitsJoined`) find it free, and
  steps that change rows hold the keys of those rows (`CommitsKept`). The
  rest of `Inv` carries the types, and says that who stands in a pool's queue stands
  there once and waits for nothing else (`QueuesOK`): `Connect` then moves a request that has no
  answer, or a cleanup that has deleted nothing. Nothing about the clock or the size of the pools is needed.
- **`TurnsAreTaken`**: `Spec => []CleanersTakeTurns`, since a cleanup that picks or deletes
  holds the advisory lock (`TurnOK`).

### The paged reads

One invariant, `ReadInv`, for the five.

- **`NothingIsMissed`**: `Spec => []PagesMissNothing`. The rank of a record is the number
  of visible records before it. Ranks are injective and fill 0 to the number of records
  (`RanksDiffer`), so a record is in the sorted list at its rank (`SortedPlaces`), and a page holds
  the records whose ranks are in its range (`PageHolds`). `PagesOK` says that a record of the start that
  was not seen has a rank on or after the page that is asked for next. Added records can
  only raise ranks (`RanksGrow`), in either order and whatever the clock did.
- **`TotalMissesLittle`**: `Spec => []TotalMissesOnlyLate`. What a client has not seen when it
  stops has ranks behind its last page (`StartAfterPage`); of *c* visible records at most
  *c* - *k* have rank *k* or more (`FewBehind`), and the total, which it has reached, is *c*
  less the records that came after the count (`TotalStops`). This uses no order of times,
  since back-dated audits go in anywhere. (A smaller claim than for transactions on purpose: each
  record that enters between the two reads of the last page can cost the client one record.)
- **`AscendingPagesAreTheList`**: `Spec => []AscendingPagesAreExact`, for
  `GET /transactions`. While the clock runs forward no transaction is of a later time than the
  clock (`LogInOrder`), so one that is added comes last among them and moves none
  (`AddedLast`); `AscendingOK` says that what was read is the beginning of the list, a whole
  number of full pages while the client reads on (`PageExtends`). It is false of
  `GET /audit-logs`, where a `LOT_EXPIRE` audit enters in the middle and pushes a
  record to the next page, which shows it again.
- **`NobodyIsDeniedTwice`**: `Spec => []DeniedOncePerWindow`. `Retry-After`, though rounded
  to seconds, reaches the end of the window that denied (`RetryAfterReaches`). `DeniedOnce`
  says that a client that was denied was denied once by that window and comes back no
  sooner than it has ended.
- **`RateIsKept`**: `Spec => []RateIsBounded`. `WindowOK` says that the count of a window is the number
  of requests let through since it began, and is within the limit of one of those who share
  the bucket. `GrantsPast` says that nothing was let through that a window beginning now would
  count, unless an open window counts it: so a window that begins anew starts with none, also when
  the old one was cleared away.

**Only model-checked**: the liveness properties (`BatchEnds`, `EveryCallRuns`,
`OnlyAStoppedPoolHangs`, the fairness half of `IsFifoLock`), which are out of the prover's
reach. Every other property of a passing run is a theorem; those of the ledger are theorems
of `Spec`, for any inputs of the right types, while the run `api` checks some of them behind
`HttpSpec`, whose requests are such inputs. Inductions over data (sums,
the loops of a save and a load, ranks in lists) are done by minimal counterexamples, since
the induction theorems of the library take an operator as a parameter, which the provers cannot
instantiate.

## 5. Not modelled, and the plan

Not modelled:

- saves outside the mutex (`saveState` and `saveStateToFile`, which only tests call);
  two processes on one Postgres row, which overwrite each other's ledger by design; an
  upsert that takes effect after its process died and the next has loaded; loss of
  power (nothing is fsynced); schema versions;
- the reads of one account, its lots or one transaction, the filters of the queries
  and the metrics: one handler, one look at the ledger, no state;
- in the limiter: clocks that differ between hosts, a failing `pool.connect`, an unlock
  that fails on a session that lives on, a `COMMIT` whose outcome the server itself does not know;
- the double arithmetic of amounts beyond 2^53, and the comparison of instants that are
  written in different forms;
- the values of the configuration, scripts, CI artifacts.

What is left to prove is that the requests of `HttpSpec` are calls of `Ledger` with the inputs
that header and member make of a body, so that the ledger's invariants are theorems behind
the HTTP API as well.
