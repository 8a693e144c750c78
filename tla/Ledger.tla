------------------------------- MODULE Ledger -------------------------------
(***************************************************************************)
(* The state machine of LedgerService (src/services/ledger-service.ts):    *)
(* accounts and their balances, the double-entry journal, the point lots   *)
(* granted by EARN and ADJUST, consumed by SPEND in first-expiring-first-  *)
(* out order and swept by the expiry batch, the idempotency and reversal   *)
(* indexes, and the audit log.                                             *)
(*                                                                         *)
(* Every operation that changes the ledger runs inside one AsyncMutex      *)
(* (async-mutex.ts), so an operation without an `await` before it persists *)
(* is one action here.  expireLots awaits postInternal once per lot, and   *)
(* a reader can run between the two halves of that loop body: the batch is *)
(* therefore stepped, and `batch` says who holds the mutex meanwhile.      *)
(* This is the service without a state store, whose persistIfConfigured    *)
(* does nothing.                                                           *)
(*                                                                         *)
(* Identifiers are the order of creation: an account or a transaction is   *)
(* its position in the insertion-ordered Map that holds it, a lot is the   *)
(* pair of the transaction and the entry it was granted by.  Tenants,      *)
(* actors and idempotency keys are the sequences of segments that          *)
(* splitting them at ':' gives, so that joining them is concatenation.     *)
(* Units, owner ids, versions, descriptions, external references and all   *)
(* timestamps that no check reads are left out.                            *)
(*                                                                         *)
(* A definition commented as a faulty variant is used by no action: it     *)
(* takes the place of the definition after it in the runs that confirm     *)
(* that a property notices the fault.                                      *)
(***************************************************************************)
EXTENDS Integers, Sequences, FiniteSets, Functions

CONSTANTS
    Null,           \* the null / undefined of the code
    Tenants,        \* tenant ids, each a sequence of segments
    Actors,         \* user ids, each a sequence of segments
    Keys,           \* trimmed idempotency keys, each a sequence of segments
    AccountInputs,  \* the inputs createAccount may receive
    PostInputs,     \* the inputs postTransaction may receive
    MaxAccounts,    \* bound on the accounts ever created
    MaxTx,          \* bound on the transactions posted by requests
    MaxTime         \* bound on the wall clock

Statuses   == {"ACTIVE", "SUSPENDED"}
OwnerTypes == {"USER", "SYSTEM"}
PostTypes  == {"EARN", "SPEND", "ADJUST"}
TxTypes    == PostTypes \cup {"EXPIRE", "REVERSAL"}
Times      == 0 .. MaxTime
AccountIds == Nat \ {0}
TxIds      == Nat \ {0}
LotIds     == TxIds \X (Nat \ {0})

AccountInput == [tenant : Tenants, ownerType : OwnerTypes,
                 status : Statuses \cup {Null}, allowNegative : BOOLEAN \cup {Null}]

EntryInput == [account : AccountIds, amount : Int, expiresAt : Times \cup {Null}]

\* A raw key is its trimmed text, <<>> when the text is blank, and whether
\* white space surrounds it.
RawKey == [text : Keys \cup {<<>>}, padded : BOOLEAN]

PostInput == [tenant : Tenants, txType : PostTypes, actor : Actors \cup {Null},
              key : RawKey \cup {Null}, entries : Seq(EntryInput),
              spend : [account : AccountIds, amount : Int] \cup {Null},
              counter : AccountIds \cup {Null}]

\* A sweep that postInternal has recorded, and a call of expireLots.
Posting == [tx : TxIds, lot : LotIds, amount : Int]

Batch == [tenant : Tenants, now : Times, system : AccountIds,
          due : SUBSET LotIds, posted : Posting \cup {Null}]

ASSUME InputAssumption ==
    /\ AccountInputs \subseteq AccountInput
    /\ PostInputs \subseteq PostInput

ASSUME BoundAssumption ==
    /\ MaxAccounts \in Nat
    /\ MaxTx \in Nat
    /\ MaxTime \in Nat

\* Null is none of the values it stands in for.
ASSUME NullAssumption ==
    /\ Null \notin BOOLEAN
    /\ Null \notin Statuses
    /\ Null \notin Int
    /\ Null \notin Actors \cup Keys
    /\ Null \notin RawKey
    /\ Null \notin [account : AccountIds, amount : Int]
    /\ Null \notin LotIds
    /\ Null \notin Posting
    /\ Null \notin Batch

\* No id or key is the empty string.
ASSUME KeyAssumption == <<>> \notin Keys

VARIABLES
    clock,                  \* what new Date() reads
    accounts,               \* Map accountId -> Account
    balances,               \* Map accountId -> number
    transactions,           \* Map txId -> LedgerTransaction
    entriesByTxId,          \* Map txId -> LedgerEntry[]
    lots,                   \* Map lotId -> PointLot
    consumptionsBySpendTx,  \* Map txId -> LotConsumption[], as lot -> amount
    auditLogs,              \* AuditLog[]
    idempotencyToTxId,      \* Map "tenant:actor:key" -> txId
    reversalBySourceTxId,   \* Map txId -> txId of its reversal
    batch,                  \* the expireLots call that holds the mutex, or Null
    reply                   \* what the last completed call answered

journal == <<transactions, entriesByTxId, consumptionsBySpendTx, auditLogs>>
indexes == <<idempotencyToTxId, reversalBySourceTxId>>
ledger  == <<accounts, balances, lots, journal, indexes>>
vars    == <<clock, ledger, batch, reply>>

\* Map.set
Put(map, k, v) == [x \in DOMAIN map \cup {k} |-> IF x = k THEN v ELSE map[x]]

Answer(op, code, tx) == [op |-> op, code |-> code, tx |-> tx]

-----------------------------------------------------------------------------
(* Entries and balances.                                                   *)

Amounts(entries) == [i \in DOMAIN entries |-> entries[i].amount]

\* sum(entries)
Total(entries) == SumFunction(Amounts(entries))

\* What the entries add to account a.
Delta(entries, a) ==
    SumFunctionOnSet(Amounts(entries), {i \in DOMAIN entries : entries[i].account = a})

\* Faulty variant: any account that exists, of whatever tenant.
OwnsAnyTenant(t, a) == a \in DOMAIN accounts

\* requireAccount succeeds.
Owns(t, a) == a \in DOMAIN accounts /\ accounts[a].tenant = t

\* Faulty variant: the balance is checked as it was before the movement.
OverdrawnBefore(entries) ==
    \E i \in DOMAIN entries :
        ~ accounts[entries[i].account].allowNegative /\ balances[entries[i].account] < 0

\* The staged balance of some account would be negative and may not be.
Overdrawn(entries) ==
    \E i \in DOMAIN entries :
        LET a == entries[i].account IN
        ~ accounts[a].allowNegative /\ balances[a] + Delta(entries, a) < 0

\* Faulty variant: entries that do not sum to zero are let through.
MovementVerdictUnbalanced(t, entries, sumError) ==
    IF \E i \in DOMAIN entries : ~ Owns(t, entries[i].account) THEN "NOT_FOUND"
    ELSE IF Overdrawn(entries) THEN "INSUFFICIENT_BALANCE"
    ELSE "OK"

\* The checks every movement of points passes before it is applied.
MovementVerdict(t, entries, sumError) ==
    IF Total(entries) # 0 THEN sumError
    ELSE IF \E i \in DOMAIN entries : ~ Owns(t, entries[i].account) THEN "NOT_FOUND"
    ELSE IF Overdrawn(entries) THEN "INSUFFICIENT_BALANCE"
    ELSE "OK"

\* Faulty variant: every entry starts from the balance before the movement, so
\* that the last entry of an account is the only one that counts.
AppliedFromOld(entries) ==
    LET last(a) == {i \in DOMAIN entries : /\ entries[i].account = a
                                           /\ \A j \in DOMAIN entries : j > i => entries[j].account # a}
    IN  [a \in DOMAIN balances |-> balances[a] + SumFunctionOnSet(Amounts(entries), last(a))]

Applied(entries) == [a \in DOMAIN balances |-> balances[a] + Delta(entries, a)]

Mirror(entries) ==
    [i \in DOMAIN entries |-> [account |-> entries[i].account, amount |-> - entries[i].amount]]

-----------------------------------------------------------------------------
(* Lots: the FEFO order and the plan of a spend.                           *)

InsertedBefore(l, m) == l[1] < m[1] \/ (l[1] = m[1] /\ l[2] < m[2])

ExpiresBefore(l, m) ==
    /\ lots[l].expiresAt # Null
    /\ lots[m].expiresAt # Null => lots[l].expiresAt < lots[m].expiresAt

\* Faulty variant: first in, first out.
PrecedesByAge(l, m) == InsertedBefore(l, m)

\* sortLotsForFefo, a stable sort, puts l before m: lots that never expire go
\* last, ties are broken by creation time and then by insertion order.
Precedes(l, m) ==
    \/ ExpiresBefore(l, m)
    \/ /\ lots[l].expiresAt = lots[m].expiresAt
       /\ \/ lots[l].createdAt < lots[m].createdAt
          \/ lots[l].createdAt = lots[m].createdAt /\ InsertedBefore(l, m)

\* The lots a SPEND from account a may consume now.
CandidateLots(t, a) ==
    {l \in DOMAIN lots : /\ lots[l].tenant = t
                         /\ lots[l].account = a
                         /\ lots[l].status = "ACTIVE"
                         /\ lots[l].remaining > 0
                         /\ lots[l].expiresAt = Null \/ lots[l].expiresAt > clock}

\* The lots an expiry batch of tenant t at time `now` sweeps.
DueLots(t, now) ==
    {l \in DOMAIN lots : /\ lots[l].tenant = t
                         /\ lots[l].status = "ACTIVE"
                         /\ lots[l].remaining > 0
                         /\ lots[l].expiresAt # Null
                         /\ lots[l].expiresAt <= now}

Remaining(set) == SumFunctionOnSet([l \in DOMAIN lots |-> lots[l].remaining], set)

Ahead(set, l) == Remaining({m \in set : Precedes(m, l)})

\* Faulty variant: a lot gives all that is required, the min is forgotten.
SpendPlanUncapped(set, amount) ==
    [l \in {k \in set : Ahead(set, k) < amount} |-> amount - Ahead(set, l)]

\* The planning loop in closed form: a lot is reached when the lots ahead of it
\* do not cover the amount, and gives what is still required or all it has.
SpendPlan(set, amount) ==
    [l \in {k \in set : Ahead(set, k) < amount} |->
        IF lots[l].remaining <= amount - Ahead(set, l)
        THEN lots[l].remaining ELSE amount - Ahead(set, l)]

StatusFor(remaining) == IF remaining = 0 THEN "CONSUMED" ELSE "ACTIVE"

\* The lots after each lot in DOMAIN change moved by that amount.
LotsMovedBy(change) ==
    [l \in DOMAIN lots |->
        IF l \in DOMAIN change
        THEN LET left == lots[l].remaining + change[l]
             IN  [lots[l] EXCEPT !.remaining = left, !.status = StatusFor(left)]
        ELSE lots[l]]

-----------------------------------------------------------------------------
(* assertInvariantsForTenant, which runs after an operation has mutated.   *)
(* INVARIANT_REVERSAL stands for ..._LENGTH and ..._MIRROR.                *)

AssertInvariants(t) ==
    IF \E tx \in DOMAIN transactions :
          transactions[tx].tenant = t /\ Total(entriesByTxId[tx]) # 0
    THEN "INVARIANT_TX_SUM"
    ELSE IF \E a \in DOMAIN accounts :
          Owns(t, a) /\ ~ accounts[a].allowNegative /\ balances[a] < 0
    THEN "INVARIANT_NEGATIVE_BALANCE"
    ELSE IF \E l \in DOMAIN lots :
          lots[l].tenant = t /\ lots[l].remaining \notin 0 .. lots[l].original
    THEN "INVARIANT_LOT_RANGE"
    ELSE IF \E s \in DOMAIN reversalBySourceTxId :
          entriesByTxId[reversalBySourceTxId[s]] # Mirror(entriesByTxId[s])
    THEN "INVARIANT_REVERSAL"
    ELSE "OK"

-----------------------------------------------------------------------------
Init ==
    /\ clock = 0
    /\ accounts = <<>>
    /\ balances = <<>>
    /\ transactions = <<>>
    /\ entriesByTxId = <<>>
    /\ lots = <<>>
    /\ consumptionsBySpendTx = <<>>
    /\ auditLogs = <<>>
    /\ idempotencyToTxId = <<>>
    /\ reversalBySourceTxId = <<>>
    /\ batch = Null
    /\ reply = Answer("start", "OK", Null)

\* Wall-clock time moves; it may also be set back.
Tick ==
    /\ clock' \in Times \ {clock}
    /\ UNCHANGED <<ledger, batch, reply>>

\* The bound on transactions counts those that requests post; a batch is
\* bounded by the lots it finds.
RoomForTx == Cardinality({tx \in DOMAIN transactions : transactions[tx].txType # "EXPIRE"}) < MaxTx

\* A call that holds the mutex throughout and leaves the ledger as it was.
Answered(op, code, tx) ==
    /\ reply' = Answer(op, code, tx)
    /\ UNCHANGED <<clock, ledger, batch>>

-----------------------------------------------------------------------------
(* createAccount                                                           *)

SystemAccounts(t) == {a \in DOMAIN accounts : Owns(t, a) /\ accounts[a].ownerType = "SYSTEM"}

\* Faulty variant: the defaults of the optional inputs are forgotten.
NewAccountAsGiven(in) ==
    [tenant |-> in.tenant, ownerType |-> in.ownerType,
     status |-> in.status, allowNegative |-> in.allowNegative]

NewAccount(in) ==
    [tenant |-> in.tenant,
     ownerType |-> in.ownerType,
     status |-> IF in.status = Null THEN "ACTIVE" ELSE in.status,
     allowNegative |-> IF in.allowNegative = Null THEN in.ownerType = "SYSTEM"
                       ELSE in.allowNegative]

SystemAccountExists(in) == in.ownerType = "SYSTEM" /\ SystemAccounts(in.tenant) # {}

CreateAccount(in) ==
    /\ batch = Null
    /\ \/ /\ SystemAccountExists(in)
          /\ Answered("createAccount", "SYSTEM_ACCOUNT_EXISTS", Null)
       \/ /\ ~ SystemAccountExists(in)
          /\ Len(accounts) < MaxAccounts
          /\ accounts' = Append(accounts, NewAccount(in))
          /\ balances' = Put(balances, Len(accounts) + 1, 0)
          /\ reply' = Answer("createAccount", "OK", Null)
          /\ UNCHANGED <<clock, lots, journal, indexes, batch>>

-----------------------------------------------------------------------------
(* postTransaction                                                         *)

\* input.idempotencyKey?.trim() || null
TrimmedKey(raw) == IF raw = Null THEN Null ELSE IF raw.text = <<>> THEN Null ELSE raw.text

\* `${tenantId}:${createdByUserId ?? 'system'}:${idempotencyKey}`
IndexKey(tenant, actor, key) == tenant \o (IF actor = Null THEN <<"system">> ELSE actor) \o key

\* Faulty variant: indexed without the actor, unlike the index importState builds.
InputKeyWithoutActor(in) == in.tenant \o TrimmedKey(in.key)

InputKey(in) == IndexKey(in.tenant, in.actor, TrimmedKey(in.key))

IsResend(in) == TrimmedKey(in.key) # Null /\ InputKey(in) \in DOMAIN idempotencyToTxId

SpendVerdict(in) ==
    IF in.spend = Null \/ in.counter = Null THEN "INVALID_SPEND_INPUT"
    ELSE IF in.spend.amount <= 0 THEN "INVALID_SPEND_AMOUNT"
    ELSE IF ~ Owns(in.tenant, in.spend.account) \/ ~ Owns(in.tenant, in.counter) THEN "NOT_FOUND"
    ELSE IF \E a \in {in.spend.account, in.counter} : accounts[a].status # "ACTIVE" THEN "ACCOUNT_INACTIVE"
    ELSE IF Remaining(CandidateLots(in.tenant, in.spend.account)) < in.spend.amount THEN "INSUFFICIENT_BALANCE"
    ELSE "OK"

EntriesOf(in) ==
    IF in.txType = "SPEND"
    THEN << [account |-> in.spend.account, amount |-> - in.spend.amount],
            [account |-> in.counter, amount |-> in.spend.amount] >>
    ELSE [i \in DOMAIN in.entries |-> [account |-> in.entries[i].account, amount |-> in.entries[i].amount]]

InputVerdict(in) ==
    IF in.txType = "SPEND" THEN SpendVerdict(in)
    ELSE IF in.entries = <<>> THEN "INVALID_ENTRIES"
    ELSE "OK"

PostVerdict(in) ==
    IF InputVerdict(in) # "OK" THEN InputVerdict(in)
    ELSE MovementVerdict(in.tenant, EntriesOf(in), "TX_SUM_NOT_ZERO")

PlanOf(in) ==
    IF in.txType = "SPEND"
    THEN SpendPlan(CandidateLots(in.tenant, in.spend.account), in.spend.amount)
    ELSE <<>>

\* The lots EARN and ADJUST grant: one per positive entry of a user account
\* that carries an expiry.
Granted(in, tx) ==
    IF in.txType = "SPEND" THEN {}
    ELSE {tx} \X {i \in DOMAIN in.entries :
                     /\ in.entries[i].amount > 0
                     /\ in.entries[i].expiresAt # Null
                     /\ accounts[in.entries[i].account].ownerType = "USER"}

NewLot(in, i) ==
    [tenant |-> in.tenant, account |-> in.entries[i].account,
     original |-> in.entries[i].amount, remaining |-> in.entries[i].amount,
     expiresAt |-> in.entries[i].expiresAt, status |-> "ACTIVE", createdAt |-> clock]

LotsAfterPost(in, tx) ==
    LET consumed == LotsMovedBy([l \in DOMAIN PlanOf(in) |-> - PlanOf(in)[l]])
    IN  [l \in DOMAIN lots \cup Granted(in, tx) |->
            IF l \in DOMAIN lots THEN consumed[l] ELSE NewLot(in, l[2])]

Transaction(tenant, txType, actor, key, reversalOf) ==
    [tenant |-> tenant, txType |-> txType, status |-> "POSTED",
     actor |-> actor, key |-> key, reversalOf |-> reversalOf]

\* Faulty variant: the amount is read from the lot once it has been emptied.
AuditOfEmptied(tenant, actor, action, tx, lot, amount) ==
    [tenant |-> tenant, actor |-> actor, action |-> action, tx |-> tx, lot |-> lot, amount |-> 0]

Audit(tenant, actor, action, tx, lot, amount) ==
    [tenant |-> tenant, actor |-> actor, action |-> action, tx |-> tx, lot |-> lot, amount |-> amount]

PostAccepted(in) ==
    LET tx       == Len(transactions) + 1
        key      == TrimmedKey(in.key)
        negative == \E l \in DOMAIN PlanOf(in) : lots[l].remaining < PlanOf(in)[l]
    IN  /\ RoomForTx
        /\ balances' = Applied(EntriesOf(in))
        /\ lots' = LotsAfterPost(in, tx)
        /\ IF negative   \* LOT_NEGATIVE is thrown before anything is recorded
                         \* (the lots after the offending one would not be moved)
           THEN UNCHANGED <<journal, idempotencyToTxId>>
           ELSE /\ transactions' = Append(transactions, Transaction(in.tenant, in.txType, in.actor, key, Null))
                /\ entriesByTxId' = Append(entriesByTxId, EntriesOf(in))
                /\ consumptionsBySpendTx' = Put(consumptionsBySpendTx, tx, PlanOf(in))
                /\ auditLogs' = Append(auditLogs, Audit(in.tenant, in.actor, "TX_POST", tx, Null, 0))
                /\ idempotencyToTxId' =
                      IF key = Null THEN idempotencyToTxId
                      ELSE Put(idempotencyToTxId, InputKey(in), tx)
        /\ UNCHANGED <<clock, accounts, reversalBySourceTxId, batch>>
        /\ reply' = Answer("post", IF negative THEN "LOT_NEGATIVE" ELSE AssertInvariants(in.tenant)', tx)

\* The answer for a transaction already posted: getTransactionDetailInternal.
Detail(op, tenant, tx) ==
    Answered(op, IF transactions[tx].tenant = tenant THEN "OK" ELSE "NOT_FOUND", tx)

PostTransaction(in) ==
    /\ batch = Null
    /\ \/ IsResend(in) /\ Detail("resend", in.tenant, idempotencyToTxId[InputKey(in)])
       \/ ~ IsResend(in) /\ PostVerdict(in) # "OK" /\ Answered("post", PostVerdict(in), Null)
       \/ ~ IsResend(in) /\ PostVerdict(in) = "OK" /\ PostAccepted(in)

-----------------------------------------------------------------------------
(* reverseTransaction                                                      *)

LotsGrantedBy(tenant, tx) == {l \in DOMAIN lots : l[1] = tx /\ lots[l].tenant = tenant}

Untouched(l) == lots[l].remaining = lots[l].original /\ lots[l].status = "ACTIVE"

\* Faulty variant: only the balances are checked.
ReversalVerdictOfBalances(tenant, src) ==
    MovementVerdict(tenant, Mirror(entriesByTxId[src]), "REVERSAL_SUM_INVALID")

ReversalVerdict(tenant, src) ==
    IF transactions[src].txType = "EXPIRE" THEN "REVERSAL_NOT_ALLOWED"
    ELSE IF transactions[src].txType = "EARN" /\ \E l \in LotsGrantedBy(tenant, src) : ~ Untouched(l)
    THEN "EARN_ALREADY_CONSUMED"
    ELSE MovementVerdict(tenant, Mirror(entriesByTxId[src]), "REVERSAL_SUM_INVALID")

\* Faulty variant: the reversal moves balances and forgets the lots.
LotsIgnored(tenant, src) == lots

\* Reversing an EARN cancels the lots it granted, reversing a SPEND gives the
\* lots back what they were consumed for.
LotsAfterReversal(tenant, src) ==
    CASE transactions[src].txType = "EARN" ->
            [l \in DOMAIN lots |-> IF l \in LotsGrantedBy(tenant, src)
                                   THEN [lots[l] EXCEPT !.remaining = 0, !.status = "CANCELLED"]
                                   ELSE lots[l]]
      [] transactions[src].txType = "SPEND" -> LotsMovedBy(consumptionsBySpendTx[src])
      [] OTHER -> lots

ReversalAccepted(tenant, src, actor) ==
    LET tx       == Len(transactions) + 1
        restored == IF transactions[src].txType = "SPEND" THEN consumptionsBySpendTx[src] ELSE <<>>
        overflow == \E l \in DOMAIN restored : lots[l].remaining + restored[l] > lots[l].original
    IN  /\ RoomForTx
        /\ balances' = Applied(Mirror(entriesByTxId[src]))
        /\ lots' = LotsAfterReversal(tenant, src)
        /\ IF overflow   \* LOT_OVERFLOW is thrown before anything is recorded
                         \* (the lots after the offending one would not be moved)
           THEN UNCHANGED <<journal, reversalBySourceTxId>>
           ELSE /\ transactions' = Append([transactions EXCEPT ![src].status = "REVERSED"],
                                          Transaction(tenant, "REVERSAL", actor, Null, src))
                /\ entriesByTxId' = Append(entriesByTxId, Mirror(entriesByTxId[src]))
                /\ consumptionsBySpendTx' = Put(consumptionsBySpendTx, tx, <<>>)
                /\ auditLogs' = Append(auditLogs, Audit(tenant, actor, "TX_REVERSE", tx, Null, 0))
                /\ reversalBySourceTxId' = Put(reversalBySourceTxId, src, tx)
        /\ UNCHANGED <<clock, accounts, idempotencyToTxId, batch>>
        /\ reply' = Answer("reverse", IF overflow THEN "LOT_OVERFLOW" ELSE AssertInvariants(tenant)', tx)

HasTransaction(tenant, tx) == tx \in DOMAIN transactions /\ transactions[tx].tenant = tenant

ReverseTransaction(tenant, src, actor) ==
    /\ batch = Null
    /\ \/ ~ HasTransaction(tenant, src) /\ Answered("reverse", "NOT_FOUND", Null)
       \/ /\ HasTransaction(tenant, src)
          /\ src \in DOMAIN reversalBySourceTxId
          /\ Detail("reverse", tenant, reversalBySourceTxId[src])
       \/ /\ HasTransaction(tenant, src)
          /\ src \notin DOMAIN reversalBySourceTxId
          /\ \/ ReversalVerdict(tenant, src) # "OK" /\ Answered("reverse", ReversalVerdict(tenant, src), Null)
             \/ ReversalVerdict(tenant, src) = "OK" /\ ReversalAccepted(tenant, src, actor)

-----------------------------------------------------------------------------
(* expireLots                                                              *)

FirstSystemAccount(t) == CHOOSE a \in SystemAccounts(t) : \A b \in SystemAccounts(t) : a <= b

ExpireBegin(t, now) ==
    /\ batch = Null
    /\ \/ SystemAccounts(t) = {} /\ Answered("expire", "NOT_FOUND", Null)
       \/ /\ SystemAccounts(t) # {}
          /\ batch' = [tenant |-> t, now |-> now, system |-> FirstSystemAccount(t),
                       due |-> DueLots(t, now), posted |-> Null]
          /\ UNCHANGED <<clock, ledger, reply>>

\* Faulty variant: lots that a spend has touched are passed over.
PendingWhole == {l \in batch.due : lots[l].remaining = lots[l].original /\ lots[l].remaining > 0}

\* The targets the loop has still to visit; it skips those with nothing left.
Pending == {l \in batch.due : lots[l].remaining > 0}

NextDue == CHOOSE l \in Pending : \A m \in Pending \ {l} : Precedes(l, m)

ExpireEntries(l) ==
    << [account |-> lots[l].account, amount |-> - lots[l].remaining],
       [account |-> batch.system, amount |-> lots[l].remaining] >>

ExpireVerdict == MovementVerdict(batch.tenant, ExpireEntries(NextDue), "TX_SUM_NOT_ZERO")

\* postInternal moves the points of the next lot and records the transaction;
\* the lot itself is still untouched when it returns.
ExpirePost ==
    /\ batch # Null
    /\ batch.posted = Null
    /\ Pending # {}
    /\ ExpireVerdict = "OK"
    /\ LET l  == NextDue
           tx == Len(transactions) + 1
       IN  /\ balances' = Applied(ExpireEntries(l))
           /\ transactions' = Append(transactions, Transaction(batch.tenant, "EXPIRE", Null, Null, Null))
           /\ entriesByTxId' = Append(entriesByTxId, ExpireEntries(l))
           /\ consumptionsBySpendTx' = Put(consumptionsBySpendTx, tx, <<>>)
           /\ auditLogs' = Append(auditLogs, Audit(batch.tenant, Null, "TX_POST", tx, Null, 0))
           /\ batch' = [batch EXCEPT !.posted = [tx |-> tx, lot |-> l, amount |-> lots[l].remaining]]
    /\ UNCHANGED <<clock, accounts, lots, indexes, reply>>

\* postInternal throws: the call fails, the lots swept so far stay swept.
ExpireAbort ==
    /\ batch # Null
    /\ batch.posted = Null
    /\ Pending # {}
    /\ ExpireVerdict # "OK"
    /\ batch' = Null
    /\ reply' = Answer("expire", ExpireVerdict, Null)
    /\ UNCHANGED <<clock, ledger>>

\* Back from postInternal: the lot is emptied and the sweep is audited.
ExpireMark ==
    /\ batch # Null
    /\ batch.posted # Null
    /\ LET p == batch.posted
       IN  /\ lots' = [lots EXCEPT ![p.lot].remaining = 0, ![p.lot].status = "EXPIRED"]
           /\ auditLogs' = Append(auditLogs, Audit(batch.tenant, Null, "LOT_EXPIRE", p.tx, p.lot, p.amount))
    /\ batch' = [batch EXCEPT !.posted = Null]
    /\ UNCHANGED <<clock, accounts, balances, transactions, entriesByTxId,
                   consumptionsBySpendTx, indexes, reply>>

ExpireEnd ==
    /\ batch # Null
    /\ batch.posted = Null
    /\ Pending = {}
    /\ batch' = Null
    /\ reply' = Answer("expire", AssertInvariants(batch.tenant), Null)
    /\ UNCHANGED <<clock, ledger>>

\* Faulty variant: a sweep that throws keeps the mutex.
ExpireStepThatHangs == ExpirePost \/ ExpireMark \/ ExpireEnd

ExpireStep == ExpirePost \/ ExpireAbort \/ ExpireMark \/ ExpireEnd

-----------------------------------------------------------------------------
Next ==
    \/ Tick
    \/ \E in \in AccountInputs : CreateAccount(in)
    \/ \E in \in PostInputs : PostTransaction(in)
    \/ \E t \in Tenants, src \in 1 .. Len(transactions) + 1, actor \in Actors \cup {Null} : ReverseTransaction(t, src, actor)
    \/ \E t \in Tenants, now \in Times : ExpireBegin(t, now)
    \/ ExpireStep

\* The holder of the mutex is resumed by the event loop until it is done.
Spec == Init /\ [][Next]_vars /\ WF_vars(ExpireStep)
=============================================================================
