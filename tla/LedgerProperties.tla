-------------------------- MODULE LedgerProperties --------------------------
(***************************************************************************)
(* What the ledger promises, stated over the state machine of Ledger.tla.  *)
(* The last section holds promises that the repository's documents make    *)
(* and the code does not keep for every input.                             *)
(***************************************************************************)
EXTENDS Ledger

-----------------------------------------------------------------------------
(* Types.                                                                  *)

Account == [tenant : Tenants, ownerType : OwnerTypes, status : Statuses, allowNegative : BOOLEAN]

Entry == [account : AccountIds, amount : Int]

TransactionRecord ==
    [tenant : Tenants, txType : TxTypes, status : {"POSTED", "REVERSED"},
     actor : Actors \cup {Null}, key : Keys \cup {Null}, reversalOf : TxIds \cup {Null}]

Lot == [tenant : Tenants, account : AccountIds, original : Int, remaining : Int,
        expiresAt : Times \cup {Null},
        status : {"ACTIVE", "CONSUMED", "EXPIRED", "CANCELLED"}, createdAt : Times]

AuditLog == [tenant : Tenants, actor : Actors \cup {Null},
             action : {"TX_POST", "TX_REVERSE", "LOT_EXPIRE"},
             tx : TxIds, lot : LotIds \cup {Null}, amount : Int]

\* Every part of the ledger keeps its type, and the maps that the code keeps in
\* step have the same keys: a balance per account, entries and consumptions per
\* transaction, and both indexes naming transactions that exist.
TypeOK ==
    /\ clock \in Times
    /\ accounts \in Seq(Account)
    /\ balances \in [DOMAIN accounts -> Int]
    /\ transactions \in Seq(TransactionRecord)
    /\ entriesByTxId \in Seq(Seq(Entry))
    /\ Len(entriesByTxId) = Len(transactions)
    /\ DOMAIN lots \subseteq LotIds
    /\ IsFiniteSet(DOMAIN lots)
    /\ lots \in [DOMAIN lots -> Lot]
    /\ DOMAIN consumptionsBySpendTx = DOMAIN transactions
    /\ \A tx \in DOMAIN consumptionsBySpendTx :
          /\ DOMAIN consumptionsBySpendTx[tx] \subseteq DOMAIN lots
          /\ consumptionsBySpendTx[tx] \in [DOMAIN consumptionsBySpendTx[tx] -> Int]
    /\ auditLogs \in Seq(AuditLog)
    /\ idempotencyToTxId \in [DOMAIN idempotencyToTxId -> DOMAIN transactions]
    /\ DOMAIN reversalBySourceTxId \subseteq DOMAIN transactions
    /\ reversalBySourceTxId \in [DOMAIN reversalBySourceTxId -> DOMAIN transactions]
    /\ batch \in Batch \cup {Null}

-----------------------------------------------------------------------------
(* The journal and the balances.                                           *)

\* What all recorded transactions together moved on account a.
Posted(a) ==
    SumFunction([tx \in DOMAIN entriesByTxId |-> Delta(entriesByTxId[tx], a)])

\* A balance is never anything but the sum of the recorded entries of its
\* account: balances are staged, checked and then applied entry by entry, in
\* three handlers, and none of them applies what it does not record, also when
\* one transaction names an account twice or the batch fails midway.
BalanceIsJournalSum == \A a \in DOMAIN accounts : balances[a] = Posted(a)

\* A tenant is a closed double-entry ledger: whatever is posted, reversed or
\* expired, the balances of its accounts sum to zero, so that no points leak
\* between tenants or appear from nowhere.
TenantsNetToZero ==
    \A t \in Tenants :
        SumFunctionOnSet(balances, {a \in DOMAIN accounts : accounts[a].tenant = t}) = 0

\* An account that may not go negative never does, as a reader sees it at any
\* moment, in the middle of an expiry batch included.
NoNegativeBalance ==
    \A a \in DOMAIN accounts : ~ accounts[a].allowNegative => balances[a] >= 0

-----------------------------------------------------------------------------
(* Lots.                                                                   *)

\* What spends that have not been reversed took from lot l.
Outstanding(l) ==
    SumFunction([tx \in {s \in DOMAIN transactions : /\ transactions[s].status = "POSTED"
                                                     /\ l \in DOMAIN consumptionsBySpendTx[s]}
                    |-> consumptionsBySpendTx[tx][l]])

\* What batches swept from lot l, by the audit log.
Swept(l) ==
    SumFunction([i \in {k \in DOMAIN auditLogs : auditLogs[k].lot = l} |-> auditLogs[i].amount])

\* No point of a lot is ever spent twice or lost: what it granted is what it
\* still has, what unreversed spends took and what batches swept, over any
\* sequence of spends, reversals and sweeps.  A cancelled lot has given nothing,
\* so that no later reversal can bring it back; and a lot has points left
\* exactly while it is ACTIVE.
LotConservation ==
    \A l \in DOMAIN lots :
        /\ IF lots[l].status = "CANCELLED"
           THEN Outstanding(l) = 0 /\ Swept(l) = 0
           ELSE lots[l].original = lots[l].remaining + Outstanding(l) + Swept(l)
        /\ lots[l].remaining > 0 <=> lots[l].status = "ACTIVE"
        /\ lots[l].remaining >= 0

\* A spend takes from a lot only when the lots of the account that expire
\* earlier are used up, takes nothing that has expired, and takes in total
\* what it debits the account.
SpendsAreFefo ==
    [][LET tx == Len(transactions')
           taken == consumptionsBySpendTx'[tx]
       IN  (tx > Len(transactions) /\ transactions'[tx].txType = "SPEND") =>
           /\ SumFunction(taken) = entriesByTxId'[tx][2].amount
           /\ \A l \in DOMAIN taken :
                /\ lots[l].account = entriesByTxId'[tx][1].account
                /\ lots[l].expiresAt = Null \/ lots[l].expiresAt > clock
                /\ \A m \in DOMAIN lots :
                      /\ lots[m].account = lots[l].account
                      /\ lots[m].expiresAt # Null
                      /\ lots[m].expiresAt > clock
                      /\ lots[l].expiresAt # Null => lots[m].expiresAt < lots[l].expiresAt
                      => lots'[m].remaining = 0]_vars

-----------------------------------------------------------------------------
(* Reversals, resends and restarts.                                        *)

\* A transaction is reversed at most once, by a transaction of its tenant that
\* mirrors it entry by entry; REVERSED marks exactly the reversed ones; and
\* points that a batch expired are never given back by a reversal.
ReversalIntegrity ==
    /\ \A s \in DOMAIN reversalBySourceTxId :
          LET r == reversalBySourceTxId[s] IN
          /\ transactions[r].txType = "REVERSAL"
          /\ transactions[r].reversalOf = s
          /\ transactions[r].tenant = transactions[s].tenant
          /\ transactions[s].txType # "EXPIRE"
          /\ entriesByTxId[r] = Mirror(entriesByTxId[s])
    /\ \A tx \in DOMAIN transactions :
          /\ transactions[tx].status = "REVERSED" <=> tx \in DOMAIN reversalBySourceTxId
          /\ transactions[tx].reversalOf # Null =>
                /\ transactions[tx].reversalOf \in DOMAIN reversalBySourceTxId
                /\ reversalBySourceTxId[transactions[tx].reversalOf] = tx

\* The transaction that importState leaves in the idempotency index under key
\* k: the last one with that key wins.
LastWithKey(k) ==
    CHOOSE tx \in DOMAIN transactions :
        /\ transactions[tx].key # Null
        /\ k = IndexKey(transactions[tx].tenant, transactions[tx].actor, transactions[tx].key)
        /\ \A later \in DOMAIN transactions :
              (later > tx /\ transactions[later].key # Null) =>
              k # IndexKey(transactions[later].tenant, transactions[later].actor, transactions[later].key)

\* importState
RebuiltIdempotency ==
    [k \in {IndexKey(transactions[tx].tenant, transactions[tx].actor, transactions[tx].key) :
               tx \in {x \in DOMAIN transactions : transactions[x].key # Null}} |-> LastWithKey(k)]

\* The idempotency index is not persisted: a restart rebuilds it from the
\* transactions.  What it rebuilds is what the process had, so that a resend
\* after a restart finds the transaction a resend before it would have found.
RestartKeepsIdempotency == idempotencyToTxId = RebuiltIdempotency

-----------------------------------------------------------------------------
(* The audit log and the internal assertions.                              *)

\* Every transaction has exactly one audit record of its posting, in order of
\* posting; and every EXPIRE transaction but the one a batch is working on has
\* exactly one record of the lot it swept, for the amount it moved.
AuditTrail ==
    LET logged(tx, actions) ==
            {i \in DOMAIN auditLogs : auditLogs[i].tx = tx /\ auditLogs[i].action \in actions}
        sweeping == IF batch = Null THEN {}
                    ELSE IF batch.posted = Null THEN {} ELSE {batch.posted.tx}
    IN  \A tx \in DOMAIN transactions :
          /\ Cardinality(logged(tx, {"TX_POST", "TX_REVERSE"})) = 1
          /\ IF transactions[tx].txType = "EXPIRE" /\ tx \notin sweeping
             THEN \E i \in DOMAIN auditLogs :
                     /\ logged(tx, {"LOT_EXPIRE"}) = {i}
                     /\ lots[auditLogs[i].lot].account = entriesByTxId[tx][1].account
                     /\ auditLogs[i].amount = entriesByTxId[tx][2].amount
             ELSE logged(tx, {"LOT_EXPIRE"}) = {}

InternalErrors ==
    {"LOT_NEGATIVE", "LOT_OVERFLOW", "REVERSAL_SUM_INVALID", "INVARIANT_TX_SUM",
     "INVARIANT_NEGATIVE_BALANCE", "INVARIANT_LOT_RANGE", "INVARIANT_REVERSAL"}

\* No sequence of calls makes an internal check throw.  They throw after the
\* balances and lots have been changed and nothing is rolled back, so a ledger
\* that reached one would stay corrupt.
NoInternalError == reply.code \notin InternalErrors

-----------------------------------------------------------------------------
(* The expiry batch.                                                       *)

\* A batch that succeeds leaves no lot of the tenant that was due at its time.
BatchSweepsAll ==
    [][(batch # Null /\ batch' = Null /\ reply'.code = "OK")
          => DueLots(batch.tenant, batch.now) = {}]_vars

\* A batch ends: it gives the mutex back, whatever lots it meets.
BatchEnds == batch # Null ~> batch = Null

-----------------------------------------------------------------------------
(* Promises of the documents that some inputs break.                       *)

\* docs/specs/ISSUE1-TRACEABILITY-MATRIX.md, LG-INV-005: "sum(active lot
\* remaining) == user balance", here only while no batch is running.
ActiveLotsEqualBalance ==
    batch = Null =>
        \A a \in DOMAIN accounts :
            accounts[a].ownerType = "USER" =>
                Remaining({l \in DOMAIN lots : lots[l].account = a /\ lots[l].status = "ACTIVE"}) = balances[a]

=============================================================================
