------------------------ MODULE LedgerHistoryProofs -------------------------
(***************************************************************************)
(* What the ledger has recorded after any history of calls, for every      *)
(* value of its constants.  First the points: what lots have left, what    *)
(* spends took from them and batches swept.  Then the book of movements:   *)
(* balances are what the journal says, tenants are closed, and the ledger  *)
(* implements the double-entry ledger of Journal.  All three follow from   *)
(* StepMoves: a step moves one balanced movement of one tenant, or opens   *)
(* an account, or leaves journal and balances alone.  Last the records:    *)
(* batches sweep all that is due, the idempotency index can be rebuilt,    *)
(* the audit log is complete, and a load gives back what a save wrote.     *)
(***************************************************************************)
EXTENDS LedgerProofs, JournalledLedger, LedgerRestart

-----------------------------------------------------------------------------
(* The inductive invariant of the lots.                                    *)

\* The unreversed transactions that took from lot l, and the audit records of
\* its sweeps.
Spenders(l) ==
    {s \in DOMAIN transactions : /\ transactions[s].status = "POSTED"
                                 /\ l \in DOMAIN consumptionsBySpendTx[s]}

Sweeps(l) == {k \in DOMAIN auditLogs : auditLogs[k].lot = l}

\* A lot is named after a recorded transaction, which granted it a positive
\* amount.
LotsGranted ==
    \A l \in DOMAIN lots : l[1] \in DOMAIN transactions /\ lots[l].original > 0

\* Only a SPEND consumes lots, and never nothing.
ConsumptionsOK ==
    \A tx \in DOMAIN transactions : \A l \in DOMAIN consumptionsBySpendTx[tx] :
        transactions[tx].txType = "SPEND" /\ consumptionsBySpendTx[tx][l] > 0

\* The audit log names lots that exist.
SweepsOK ==
    \A i \in DOMAIN auditLogs :
        auditLogs[i].lot # Null => auditLogs[i].lot \in DOMAIN lots /\ auditLogs[i].amount >= 0

\* Between the two halves of a sweep the lot still has what was posted.
SweepInFlight ==
    (batch # Null /\ batch.posted # Null) =>
        lots[batch.posted.lot].remaining = batch.posted.amount /\ batch.posted.amount > 0

LotsOK == LotConservation /\ LotsGranted /\ ConsumptionsOK /\ SweepsOK /\ SweepInFlight

-----------------------------------------------------------------------------
(* Sums over the history of a lot.                                         *)

\* What was taken from a lot is a natural number that covers what each spend
\* took.
LEMMA OutstandingType ==
  ASSUME TypeOK, ConsumptionsOK, NEW l
  PROVE  /\ IsFiniteSet(Spenders(l))
         /\ \A tx \in Spenders(l) : consumptionsBySpendTx[tx][l] \in Int
         /\ Outstanding(l) \in Nat
         /\ \A tx \in Spenders(l) : consumptionsBySpendTx[tx][l] <= Outstanding(l)
<1> DEFINE S == Spenders(l)
           f == [tx \in S |-> consumptionsBySpendTx[tx][l]]
<1>1. IsFiniteSet(S)
  BY FiniteIndexes DEF Spenders, TypeOK
<1>2. \A tx \in S : f[tx] \in Nat
  BY DEF Spenders, ConsumptionsOK, TypeOK
<1>3. Outstanding(l) = SumFunctionOnSet(f, S)
  BY SumOfFunction DEF Outstanding, Spenders
<1>4. SumFunctionOnSet(f, S) \in Nat /\ \A tx \in S : f[tx] <= SumFunctionOnSet(f, S)
  <2> HIDE DEF S, f
  <2> QED BY <1>1, <1>2, SumNat, SumBounds
<1>5. QED
  BY <1>1, <1>2, <1>3, <1>4

\* A record of the audit log is one.
LEMMA AuditLogTyped ==
  ASSUME TypeOK
  PROVE  \A i \in DOMAIN auditLogs : auditLogs[i] \in AuditLog
<1>1. auditLogs \in Seq(AuditLog)
  BY DEF TypeOK
<1>2. QED
  BY <1>1, LenProperties, ElementOfSeq

\* What batches swept from a lot is a natural number.
LEMMA SweptType ==
  ASSUME TypeOK, SweepsOK, NEW l \in DOMAIN lots
  PROVE  IsFiniteSet(Sweeps(l)) /\ Swept(l) \in Nat
<1> DEFINE S == Sweeps(l)
           f == [i \in S |-> auditLogs[i].amount]
<1>1. IsFiniteSet(S)
  BY FiniteIndexes DEF Sweeps, TypeOK
<1>2. \A i \in S : f[i] \in Nat
  <2>1. \A i \in DOMAIN auditLogs : auditLogs[i].amount \in Int
    BY AuditLogTyped DEF AuditLog
  <2>2. l # Null
    BY NullAssumption DEF TypeOK
  <2>3. QED BY <2>1, <2>2 DEF Sweeps, SweepsOK
<1>3. Swept(l) = SumFunctionOnSet(f, S)
  BY SumOfFunction DEF Swept, Sweeps
<1>4. SumFunctionOnSet(f, S) \in Nat
  <2> HIDE DEF S, f
  <2> QED BY <1>1, <1>2, SumNat
<1>5. QED
  BY <1>1, <1>3, <1>4

\* Nothing is outstanding after a step that changes no spend of the lot.
LEMMA OutstandingSame ==
  ASSUME NEW l, Spenders(l)' = Spenders(l),
         \A tx \in Spenders(l) : consumptionsBySpendTx'[tx][l] = consumptionsBySpendTx[tx][l]
  PROVE  Outstanding(l)' = Outstanding(l)
<1> DEFINE f == [tx \in Spenders(l) |-> consumptionsBySpendTx[tx][l]]
           g == [tx \in Spenders(l) |-> consumptionsBySpendTx'[tx][l]]
<1>1. f = g
  OBVIOUS
<1>2. Outstanding(l) = SumFunction(f)
  BY DEF Outstanding, Spenders
<1>3. Outstanding(l)' = SumFunction(g)
  BY DEF Outstanding, Spenders
<1>4. QED
  BY <1>1, <1>2, <1>3

\* A spend that is recorded adds what it took.
LEMMA OutstandingMore ==
  ASSUME TypeOK, ConsumptionsOK, NEW l, NEW y, y \notin Spenders(l),
         Spenders(l)' = Spenders(l) \cup {y},
         \A tx \in Spenders(l) : consumptionsBySpendTx'[tx][l] = consumptionsBySpendTx[tx][l],
         consumptionsBySpendTx'[y][l] \in Int
  PROVE  Outstanding(l)' = Outstanding(l) + consumptionsBySpendTx'[y][l]
<1> DEFINE f == [tx \in Spenders(l) |-> consumptionsBySpendTx[tx][l]]
           g == [tx \in Spenders(l) \cup {y} |-> consumptionsBySpendTx'[tx][l]]
<1>1. Outstanding(l) = SumFunction(f)
  BY DEF Outstanding, Spenders
<1>2. Outstanding(l)' = SumFunction(g)
  BY DEF Outstanding, Spenders
<1>3. /\ IsFiniteSet(DOMAIN f) /\ y \notin DOMAIN f
      /\ DOMAIN g = DOMAIN f \cup {y}
      /\ \A tx \in DOMAIN f : g[tx] = f[tx] /\ f[tx] \in Int
      /\ g[y] \in Int /\ g[y] = consumptionsBySpendTx'[y][l]
  BY OutstandingType
<1>4. SumFunction(g) = g[y] + SumFunction(f)
  <2> HIDE DEF f, g
  <2> QED BY <1>3, SumExtended
<1>5. Outstanding(l) \in Nat
  BY OutstandingType
<1>6. QED
  <2> HIDE DEF f, g
  <2> QED BY <1>1, <1>2, <1>3, <1>4, <1>5

\* A spend that is reversed takes back what it took.
LEMMA OutstandingLess ==
  ASSUME TypeOK, ConsumptionsOK, NEW l, NEW y \in Spenders(l),
         Spenders(l)' = Spenders(l) \ {y},
         \A tx \in Spenders(l) : consumptionsBySpendTx'[tx][l] = consumptionsBySpendTx[tx][l]
  PROVE  Outstanding(l)' = Outstanding(l) - consumptionsBySpendTx[y][l]
<1> DEFINE f == [tx \in Spenders(l) |-> consumptionsBySpendTx[tx][l]]
           g == [tx \in Spenders(l) \ {y} |-> consumptionsBySpendTx'[tx][l]]
<1>1. Outstanding(l) = SumFunction(f)
  BY DEF Outstanding, Spenders
<1>2. Outstanding(l)' = SumFunction(g)
  BY DEF Outstanding, Spenders
<1>3. /\ IsFiniteSet(DOMAIN g) /\ y \notin DOMAIN g
      /\ DOMAIN f = DOMAIN g \cup {y}
      /\ \A tx \in DOMAIN g : f[tx] = g[tx] /\ g[tx] \in Int
      /\ f[y] \in Int /\ f[y] = consumptionsBySpendTx[y][l]
  BY OutstandingType, FS_Subset
<1>4. SumFunction(f) = f[y] + SumFunction(g)
  <2> HIDE DEF f, g
  <2> QED BY <1>3, SumExtended
<1>5. SumFunction(g) \in Int
  <2>1. SumFunction(g) = SumFunctionOnSet(g, DOMAIN g)
    BY SumOfFunction
  <2> HIDE DEF f, g
  <2>2. QED BY <1>3, <2>1, SumInt
<1>6. QED
  <2> HIDE DEF f, g
  <2> QED BY <1>1, <1>2, <1>3, <1>4, <1>5

\* An audit record of another lot, or of none, sweeps nothing.
LEMMA SweptSame ==
  ASSUME TypeOK, NEW l, NEW log, log.lot # l, auditLogs' = Append(auditLogs, log)
  PROVE  Swept(l)' = Swept(l)
<1>1. /\ DOMAIN auditLogs' = DOMAIN auditLogs \cup {Len(auditLogs) + 1}
      /\ \A i \in DOMAIN auditLogs : auditLogs'[i] = auditLogs[i]
      /\ auditLogs'[Len(auditLogs) + 1] = log
  BY LenProperties DEF TypeOK
<1>2. Sweeps(l)' = Sweeps(l)
  BY <1>1 DEF Sweeps
<1> DEFINE f == [i \in Sweeps(l) |-> auditLogs[i].amount]
           g == [i \in Sweeps(l) |-> auditLogs'[i].amount]
<1>3. f = g
  BY <1>1 DEF Sweeps
<1>4. Swept(l) = SumFunction(f)
  BY DEF Swept, Sweeps
<1>5. Swept(l)' = SumFunction(g)
  BY <1>2 DEF Swept, Sweeps
<1>6. QED
  BY <1>3, <1>4, <1>5

\* The audit record of a sweep adds the amount it names.
LEMMA SweptMore ==
  ASSUME TypeOK, SweepsOK, NEW l \in DOMAIN lots, NEW log, log.lot = l, log.amount \in Int,
         auditLogs' = Append(auditLogs, log)
  PROVE  Swept(l)' = Swept(l) + log.amount
<1> DEFINE y == Len(auditLogs) + 1
           f == [i \in Sweeps(l) |-> auditLogs[i].amount]
           g == [i \in Sweeps(l) \cup {y} |-> auditLogs'[i].amount]
<1>1. /\ DOMAIN auditLogs' = DOMAIN auditLogs \cup {y} /\ y \notin DOMAIN auditLogs
      /\ \A i \in DOMAIN auditLogs : auditLogs'[i] = auditLogs[i] /\ auditLogs[i].amount \in Int
      /\ auditLogs'[y] = log
  <2>1. \A i \in DOMAIN auditLogs : auditLogs[i].amount \in Int
    BY AuditLogTyped DEF AuditLog
  <2>2. QED
    BY <2>1, LenProperties DEF TypeOK
<1>2. Sweeps(l)' = Sweeps(l) \cup {y}
  <2> HIDE DEF y
  <2> QED BY <1>1 DEF Sweeps
<1>3. Swept(l) = SumFunction(f)
  BY DEF Swept, Sweeps
<1>4. Swept(l)' = SumFunction(g)
  <2>1. Swept(l)' = SumFunction([i \in Sweeps(l)' |-> auditLogs'[i].amount])
    BY DEF Swept, Sweeps
  <2> HIDE DEF y
  <2>2. QED BY <1>2, <2>1
<1>5. /\ IsFiniteSet(DOMAIN f) /\ y \notin DOMAIN f
      /\ DOMAIN g = DOMAIN f \cup {y}
      /\ \A i \in DOMAIN f : g[i] = f[i] /\ f[i] \in Int
      /\ g[y] \in Int /\ g[y] = log.amount
  <2> HIDE DEF y
  <2> QED BY <1>1, SweptType DEF Sweeps
<1>6. SumFunction(g) = g[y] + SumFunction(f)
  <2> HIDE DEF f, g, y
  <2> QED BY <1>5, SumExtended
<1>7. Swept(l) \in Nat
  BY SweptType
<1>8. QED
  <2> HIDE DEF f, g, y
  <2> QED BY <1>3, <1>4, <1>5, <1>6, <1>7

-----------------------------------------------------------------------------
(* Recording a transaction.                                                *)

\* What recording a transaction does to the spends of a lot.
LEMMA RecordedSpends ==
  ASSUME TypeOK, NEW rec, rec.status = "POSTED", NEW plan,
         transactions' = Append(transactions, rec),
         consumptionsBySpendTx' = Put(consumptionsBySpendTx, Len(transactions) + 1, plan)
  PROVE  /\ DOMAIN transactions' = DOMAIN transactions \cup {Len(transactions) + 1}
         /\ Len(transactions) + 1 \notin DOMAIN transactions
         /\ transactions'[Len(transactions) + 1] = rec
         /\ consumptionsBySpendTx'[Len(transactions) + 1] = plan
         /\ \A t \in DOMAIN transactions :
               /\ transactions'[t] = transactions[t]
               /\ consumptionsBySpendTx'[t] = consumptionsBySpendTx[t]
         /\ \A l : /\ l \in DOMAIN plan => Spenders(l)' = Spenders(l) \cup {Len(transactions) + 1}
                   /\ l \notin DOMAIN plan => Spenders(l)' = Spenders(l)
<1> DEFINE tx == Len(transactions) + 1
<1>1. /\ DOMAIN transactions' = DOMAIN transactions \cup {tx}
      /\ tx \notin DOMAIN transactions
      /\ transactions'[tx] = rec
      /\ \A t \in DOMAIN transactions : transactions'[t] = transactions[t]
  BY LenProperties DEF TypeOK
<1>2. consumptionsBySpendTx'[tx] = plan
  BY DEF Put
<1>3. \A t \in DOMAIN transactions : consumptionsBySpendTx'[t] = consumptionsBySpendTx[t]
  BY <1>1 DEF Put, TypeOK
<1> HIDE DEF tx
<1>4. ASSUME NEW l
      PROVE  /\ l \in DOMAIN plan => Spenders(l)' = Spenders(l) \cup {tx}
             /\ l \notin DOMAIN plan => Spenders(l)' = Spenders(l)
  BY <1>1, <1>2, <1>3 DEF Spenders
<1>5. QED
  BY <1>1, <1>2, <1>3, <1>4 DEF tx

\* Conservation, lot by lot.
LotSound(l) ==
    /\ IF lots[l].status = "CANCELLED"
       THEN Outstanding(l) = 0 /\ Swept(l) = 0
       ELSE lots[l].original = lots[l].remaining + Outstanding(l) + Swept(l)
    /\ lots[l].remaining > 0 <=> lots[l].status = "ACTIVE"
    /\ lots[l].remaining >= 0

\* What the invariant says of one lot.
LEMMA SoundLot ==
  ASSUME TypeOK, LotsOK, NEW l \in DOMAIN lots
  PROVE  /\ lots[l] \in Lot /\ lots[l].remaining \in Int /\ lots[l].original \in Int
         /\ LotSound(l) /\ lots[l].original > 0
         /\ Outstanding(l) \in Nat /\ Swept(l) \in Nat
         /\ l[1] \in DOMAIN transactions
<1>1. lots[l] \in Lot
  BY DEF TypeOK
<1>2. LotSound(l)
  BY DEF LotsOK, LotConservation, LotSound
<1>3. Outstanding(l) \in Nat /\ Swept(l) \in Nat
  BY OutstandingType, SweptType DEF LotsOK
<1>4. QED
  BY <1>1, <1>2, <1>3 DEF LotsOK, LotsGranted, Lot

\* A spend plans to take from candidate lots, and from each no more than it has.
LEMMA PlanTakes ==
  ASSUME TypeOK, NEW in \in PostInputs, InputVerdict(in) = "OK", NEW l \in DOMAIN PlanOf(in)
  PROVE  /\ in.txType = "SPEND"
         /\ l \in CandidateLots(in.tenant, in.spend.account)
         /\ PlanOf(in)[l] \in Int
         /\ 0 < PlanOf(in)[l] /\ PlanOf(in)[l] <= lots[l].remaining
<1> DEFINE set == CandidateLots(in.tenant, in.spend.account)
           amount == in.spend.amount
<1>1. in.txType = "SPEND"
  BY DEF PlanOf
<1>2. amount \in Int
  BY <1>1, InputAssumption DEF InputVerdict, SpendVerdict, PostInput
<1>3. PlanOf(in) = SpendPlan(set, amount)
  BY <1>1 DEF PlanOf
<1>4. \A k \in set : k \in DOMAIN lots /\ lots[k].remaining > 0
  BY DEF CandidateLots
<1>5. l \in set /\ Ahead(set, l) < amount
  <2> HIDE DEF set, amount
  <2> QED BY <1>3 DEF SpendPlan
<1>6. Ahead(set, l) \in Int
  BY <1>4, RemainingInt DEF Ahead
<1>7. lots[l].remaining \in Int
  BY <1>4, <1>5 DEF TypeOK, Lot
<1>8. PlanOf(in)[l] = IF lots[l].remaining <= amount - Ahead(set, l)
                      THEN lots[l].remaining ELSE amount - Ahead(set, l)
  <2> HIDE DEF set, amount
  <2> QED BY <1>3 DEF SpendPlan
<1>9. lots[l].remaining > 0
  BY <1>4, <1>5
<1>10. QED
  <2> HIDE DEF set, amount
  <2> QED BY <1>1, <1>2, <1>5, <1>6, <1>7, <1>8, <1>9 DEF set

\* A post never throws LOT_NEGATIVE, so that it records what it applies.
LEMMA PostRecords ==
  ASSUME TypeOK, NEW in \in PostInputs, InputVerdict(in) = "OK", PostAccepted(in)
  PROVE  LET tx == Len(transactions) + 1 IN
         /\ balances' = Applied(EntriesOf(in))
         /\ lots' = LotsAfterPost(in, tx)
         /\ transactions' = Append(transactions, Transaction(in.tenant, in.txType, in.actor,
                                                             TrimmedKey(in.key), Null))
         /\ entriesByTxId' = Append(entriesByTxId, EntriesOf(in))
         /\ consumptionsBySpendTx' = Put(consumptionsBySpendTx, tx, PlanOf(in))
         /\ auditLogs' = Append(auditLogs, Audit(in.tenant, in.actor, "TX_POST", tx, Null, 0))
         /\ idempotencyToTxId' = IF TrimmedKey(in.key) = Null THEN idempotencyToTxId
                                 ELSE Put(idempotencyToTxId, InputKey(in), tx)
         /\ UNCHANGED <<clock, accounts, reversalBySourceTxId, batch>>
         /\ reply' = Answer("post", AssertInvariants(in.tenant)', tx)
<1>1. \A l \in DOMAIN PlanOf(in) : ~ (lots[l].remaining < PlanOf(in)[l])
  <2>1. SUFFICES ASSUME NEW l \in DOMAIN PlanOf(in) PROVE ~ (lots[l].remaining < PlanOf(in)[l])
    OBVIOUS
  <2>2. /\ PlanOf(in)[l] \in Int /\ PlanOf(in)[l] <= lots[l].remaining
        /\ l \in DOMAIN lots
    BY PlanTakes DEF CandidateLots
  <2>3. lots[l].remaining \in Int
    BY <2>2 DEF TypeOK, Lot
  <2>4. QED
    BY <2>2, <2>3
<1>2. QED
  BY <1>1 DEF PostAccepted

\* The lots after a post.
LEMMA PostedLots ==
  ASSUME TypeOK, LotsGranted, NEW in \in PostInputs, InputVerdict(in) = "OK",
         NEW tx, tx = Len(transactions) + 1,
         lots' = LotsAfterPost(in, tx)
  PROVE  /\ DOMAIN lots' = DOMAIN lots \cup Granted(in, tx)
         /\ DOMAIN lots \cap Granted(in, tx) = {}
         /\ \A l \in DOMAIN lots :
               /\ l \in DOMAIN PlanOf(in) =>
                     lots'[l] = [lots[l] EXCEPT !.remaining = lots[l].remaining - PlanOf(in)[l],
                                                !.status = StatusFor(lots[l].remaining - PlanOf(in)[l])]
               /\ l \notin DOMAIN PlanOf(in) => lots'[l] = lots[l]
         /\ \A l \in Granted(in, tx) :
               /\ lots'[l] = NewLot(in, l[2])
               /\ l[1] = tx
               /\ in.txType # "SPEND"
               /\ l[2] \in DOMAIN in.entries
               /\ in.entries[l[2]].amount > 0
<1> DEFINE change == [l \in DOMAIN PlanOf(in) |-> - PlanOf(in)[l]]
<1>1. tx \in TxIds /\ tx \notin DOMAIN transactions
  BY LenProperties DEF TypeOK, TxIds
<1>2. \A l \in Granted(in, tx) : /\ l[1] = tx /\ in.txType # "SPEND"
                                 /\ l[2] \in DOMAIN in.entries /\ in.entries[l[2]].amount > 0
  <2>1. \A l \in Granted(in, tx) : in.txType # "SPEND"
    BY DEF Granted
  <2>2. QED
    BY <1>1, <2>1, GrantedType
<1>3. \A l \in DOMAIN lots : l \notin Granted(in, tx)
  BY <1>1, <1>2 DEF LotsGranted
<1>4. LotsAfterPost(in, tx) = [l \in DOMAIN lots \cup Granted(in, tx) |->
          IF l \in DOMAIN lots THEN LotsMovedBy(change)[l] ELSE NewLot(in, l[2])]
  BY DEF LotsAfterPost
<1>5. ASSUME NEW l \in DOMAIN lots
      PROVE  /\ l \in DOMAIN PlanOf(in) =>
                   lots'[l] = [lots[l] EXCEPT !.remaining = lots[l].remaining - PlanOf(in)[l],
                                              !.status = StatusFor(lots[l].remaining - PlanOf(in)[l])]
             /\ l \notin DOMAIN PlanOf(in) => lots'[l] = lots[l]
  <2>1. lots'[l] = LotsMovedBy(change)[l]
    <3> HIDE DEF change
    <3> QED BY <1>4
  <2>2. CASE l \in DOMAIN PlanOf(in)
    <3>1. change[l] = - PlanOf(in)[l] /\ l \in DOMAIN change
      BY <2>2
    <3>2. lots[l].remaining \in Int /\ PlanOf(in)[l] \in Int
      BY <2>2, PlanType DEF TypeOK, Lot
    <3>3. lots[l].remaining + change[l] = lots[l].remaining - PlanOf(in)[l]
      BY <3>1, <3>2
    <3> HIDE DEF change
    <3>4. QED
      BY <2>1, <2>2, <3>1, <3>3 DEF LotsMovedBy
  <2>3. CASE l \notin DOMAIN PlanOf(in)
    <3>1. l \notin DOMAIN change
      BY <2>3
    <3> HIDE DEF change
    <3>2. QED
      BY <2>1, <2>3, <3>1 DEF LotsMovedBy
  <2>4. QED
    BY <2>2, <2>3
<1>6. \A l \in Granted(in, tx) : lots'[l] = NewLot(in, l[2])
  <2> HIDE DEF change
  <2> QED BY <1>3, <1>4
<1>7. QED
  <2>1. DOMAIN lots' = DOMAIN lots \cup Granted(in, tx)
    <3> HIDE DEF change
    <3> QED BY <1>4
  <2>2. QED BY <1>2, <1>3, <1>5, <1>6, <2>1

-----------------------------------------------------------------------------
(* The handlers keep the invariant of the lots.                            *)

\* A lot that a step leaves alone stays sound.
LEMMA UntouchedLot ==
  ASSUME NEW l, LotSound(l), lots'[l] = lots[l],
         Outstanding(l)' = Outstanding(l), Swept(l)' = Swept(l)
  PROVE  LotSound(l)'
BY DEF LotSound

\* An accepted post keeps every lot sound and grants sound ones.
LEMMA PostKeepsLots ==
  ASSUME TypeOK, LotsOK, NEW in \in PostInputs, PostVerdict(in) = "OK", batch = Null,
         PostAccepted(in)
  PROVE  LotsOK'
<1> DEFINE tx == Len(transactions) + 1
           plan == PlanOf(in)
           rec == Transaction(in.tenant, in.txType, in.actor, TrimmedKey(in.key), Null)
           log == Audit(in.tenant, in.actor, "TX_POST", tx, Null, 0)
<1>1. InputVerdict(in) = "OK"
  BY DEF PostVerdict
<1>2. /\ lots' = LotsAfterPost(in, tx)
      /\ transactions' = Append(transactions, rec)
      /\ consumptionsBySpendTx' = Put(consumptionsBySpendTx, tx, plan)
      /\ auditLogs' = Append(auditLogs, log)
      /\ batch' = batch
  BY <1>1, PostRecords
<1>3. rec.status = "POSTED" /\ rec.txType = in.txType /\ log.lot = Null
  BY DEF Transaction, Audit
<1>4. \A l \in DOMAIN plan : /\ in.txType = "SPEND" /\ l \in DOMAIN lots
                             /\ plan[l] \in Int /\ 0 < plan[l] /\ plan[l] <= lots[l].remaining
  BY <1>1, PlanTakes DEF CandidateLots
<1> HIDE DEF rec, log, plan
<1>5. /\ DOMAIN transactions' = DOMAIN transactions \cup {tx}
      /\ tx \notin DOMAIN transactions
      /\ transactions'[tx] = rec
      /\ consumptionsBySpendTx'[tx] = plan
      /\ \A t \in DOMAIN transactions :
            /\ transactions'[t] = transactions[t]
            /\ consumptionsBySpendTx'[t] = consumptionsBySpendTx[t]
      /\ \A l : /\ l \in DOMAIN plan => Spenders(l)' = Spenders(l) \cup {tx}
                /\ l \notin DOMAIN plan => Spenders(l)' = Spenders(l)
  BY <1>2, <1>3, RecordedSpends
<1>6. /\ DOMAIN lots' = DOMAIN lots \cup Granted(in, tx)
      /\ DOMAIN lots \cap Granted(in, tx) = {}
      /\ \A l \in DOMAIN lots :
            /\ l \in DOMAIN plan =>
                  lots'[l] = [lots[l] EXCEPT !.remaining = lots[l].remaining - plan[l],
                                             !.status = StatusFor(lots[l].remaining - plan[l])]
            /\ l \notin DOMAIN plan => lots'[l] = lots[l]
      /\ \A l \in Granted(in, tx) : /\ lots'[l] = NewLot(in, l[2])
                                    /\ l[1] = tx
                                    /\ in.txType # "SPEND"
                                    /\ l[2] \in DOMAIN in.entries
                                    /\ in.entries[l[2]].amount > 0
  BY <1>1, <1>2, PostedLots DEF LotsOK, plan
<1> HIDE DEF tx
<1>7. \A l : \A t \in Spenders(l) : consumptionsBySpendTx'[t][l] = consumptionsBySpendTx[t][l]
  BY <1>5 DEF Spenders
<1>8. \A l \in LotIds : Swept(l)' = Swept(l)
  <2>1. \A l \in LotIds : l # Null
    BY NullAssumption
  <2>2. QED
    BY <1>2, <1>3, <2>1, SweptSame
<1>9. ASSUME NEW l \in DOMAIN lots, l \in DOMAIN plan
      PROVE  LotSound(l)' /\ lots'[l].original = lots[l].original
  <2>1. /\ lots[l] \in Lot /\ lots[l].remaining \in Int /\ lots[l].original \in Int
        /\ LotSound(l) /\ Outstanding(l) \in Nat /\ Swept(l) \in Nat
    BY SoundLot
  <2>2. plan[l] \in Int /\ 0 < plan[l] /\ plan[l] <= lots[l].remaining
    BY <1>4, <1>9
  <2>3. Outstanding(l)' = Outstanding(l) + plan[l]
    <3>1. tx \notin Spenders(l) /\ Spenders(l)' = Spenders(l) \cup {tx}
      BY <1>5, <1>9 DEF Spenders
    <3>2. consumptionsBySpendTx'[tx][l] = plan[l]
      BY <1>5
    <3>3. QED
      BY <1>7, <2>2, <3>1, <3>2, OutstandingMore DEF LotsOK
  <2>4. Swept(l)' = Swept(l)
    BY <1>8 DEF TypeOK
  <2>5. lots[l].status = "ACTIVE"
    BY <2>1, <2>2 DEF LotSound
  <2>6. /\ lots'[l].remaining = lots[l].remaining - plan[l]
        /\ lots'[l].status = StatusFor(lots[l].remaining - plan[l])
        /\ lots'[l].original = lots[l].original
    BY <1>6, <1>9, <2>1 DEF Lot
  <2>7. QED
    BY <2>1, <2>2, <2>3, <2>4, <2>5, <2>6 DEF LotSound, StatusFor
<1>10. ASSUME NEW l \in DOMAIN lots, l \notin DOMAIN plan
       PROVE  LotSound(l)' /\ lots'[l] = lots[l]
  <2>1. Outstanding(l)' = Outstanding(l)
    BY <1>5, <1>7, <1>10, OutstandingSame
  <2>2. Swept(l)' = Swept(l)
    BY <1>8 DEF TypeOK
  <2>3. QED
    BY <1>6, <1>10, <2>1, <2>2, SoundLot, UntouchedLot
<1>11. ASSUME NEW l \in Granted(in, tx)
       PROVE  LotSound(l)' /\ lots'[l].original > 0
  <2>1. l \in LotIds /\ l \notin DOMAIN lots /\ l \notin DOMAIN plan
    <3>1. tx \in TxIds
      BY LenProperties DEF tx, TypeOK, TxIds
    <3>2. QED
      BY <1>4, <1>6, <3>1, GrantedType
  <2>2. Outstanding(l)' = 0
    <3>1. Spenders(l) = {}
      BY <2>1 DEF Spenders, TypeOK
    <3>2. Outstanding(l) = 0
      <4> DEFINE f == [t \in Spenders(l) |-> consumptionsBySpendTx[t][l]]
      <4>1. Outstanding(l) = SumFunctionOnSet(f, Spenders(l))
        BY SumOfFunction DEF Outstanding, Spenders
      <4> HIDE DEF f
      <4>2. QED
        BY <3>1, <4>1, SumEmpty
    <3>3. QED
      BY <1>5, <1>7, <2>1, <3>2, OutstandingSame
  <2>3. Swept(l)' = 0
    <3>1. Sweeps(l) = {}
      BY <2>1, NullAssumption DEF Sweeps, LotsOK, SweepsOK
    <3>2. Swept(l) = 0
      <4> DEFINE f == [i \in Sweeps(l) |-> auditLogs[i].amount]
      <4>1. Swept(l) = SumFunctionOnSet(f, Sweeps(l))
        BY SumOfFunction DEF Swept, Sweeps
      <4> HIDE DEF f
      <4>2. QED
        BY <3>1, <4>1, SumEmpty
    <3>3. QED
      BY <1>8, <2>1, <3>2
  <2>4. /\ lots'[l].original = in.entries[l[2]].amount
        /\ lots'[l].remaining = in.entries[l[2]].amount
        /\ lots'[l].status = "ACTIVE"
    <3>1. lots'[l] = NewLot(in, l[2])
      BY <1>6
    <3>2. QED
      BY <3>1 DEF NewLot
  <2>5. in.entries[l[2]].amount \in Int /\ in.entries[l[2]].amount > 0
    <3>1. in.entries \in Seq(EntryInput)
      BY InputAssumption DEF PostInput
    <3>2. l[2] \in DOMAIN in.entries /\ in.entries[l[2]].amount > 0
      BY <1>6
    <3>3. in.entries[l[2]] \in EntryInput
      BY <3>1, <3>2, LenProperties, ElementOfSeq
    <3>4. QED
      BY <3>2, <3>3 DEF EntryInput
  <2>6. QED
    BY <2>2, <2>3, <2>4, <2>5 DEF LotSound
<1>12. LotConservation'
  <2>1. \A l \in DOMAIN lots' : LotSound(l)'
    BY <1>6, <1>9, <1>10, <1>11
  <2>2. QED
    BY <2>1 DEF LotConservation, LotSound
<1>13. LotsGranted'
  <2>1. \A l \in DOMAIN lots : l[1] \in DOMAIN transactions' /\ lots'[l].original > 0
    BY <1>5, <1>9, <1>10 DEF LotsOK, LotsGranted
  <2>2. \A l \in Granted(in, tx) : l[1] \in DOMAIN transactions' /\ lots'[l].original > 0
    BY <1>5, <1>6, <1>11
  <2>3. QED
    BY <1>6, <2>1, <2>2 DEF LotsGranted
<1>14. ConsumptionsOK'
  <2>1. ASSUME NEW t \in DOMAIN transactions', NEW l \in DOMAIN consumptionsBySpendTx'[t]
        PROVE  transactions'[t].txType = "SPEND" /\ consumptionsBySpendTx'[t][l] > 0
    <3>1. CASE t = tx
      BY <1>3, <1>4, <1>5, <2>1, <3>1
    <3>2. CASE t # tx
      BY <1>5, <2>1, <3>2 DEF LotsOK, ConsumptionsOK
    <3>3. QED BY <3>1, <3>2
  <2>2. QED
    BY <2>1 DEF ConsumptionsOK
<1>15. SweepsOK'
  <2>1. /\ DOMAIN auditLogs' = DOMAIN auditLogs \cup {Len(auditLogs) + 1}
        /\ \A i \in DOMAIN auditLogs : auditLogs'[i] = auditLogs[i]
        /\ auditLogs'[Len(auditLogs) + 1] = log
    BY <1>2, LenProperties DEF TypeOK
  <2>2. QED
    BY <1>3, <1>6, <2>1 DEF LotsOK, SweepsOK
<1>16. SweepInFlight'
  BY <1>2 DEF SweepInFlight
<1>17. QED
  BY <1>12, <1>13, <1>14, <1>15, <1>16 DEF LotsOK

\* What an unreversed spend took from a lot fits back into it: a reversal never
\* throws LOT_OVERFLOW.
LEMMA RestoredFits ==
  ASSUME TypeOK, LotsOK, ReversalIntegrity, NEW src \in DOMAIN transactions,
         src \notin DOMAIN reversalBySourceTxId, NEW l \in DOMAIN consumptionsBySpendTx[src]
  PROVE  /\ l \in DOMAIN lots
         /\ src \in Spenders(l)
         /\ consumptionsBySpendTx[src][l] \in Int
         /\ consumptionsBySpendTx[src][l] > 0
         /\ lots[l].status # "CANCELLED"
         /\ lots[l].remaining + consumptionsBySpendTx[src][l] <= lots[l].original
<1>1. l \in DOMAIN lots /\ consumptionsBySpendTx[src][l] \in Int
  BY DEF TypeOK
<1>2. transactions[src].status = "POSTED"
  <2>1. transactions[src] \in TransactionRecord
    BY LenProperties, ElementOfSeq DEF TypeOK
  <2>2. QED
    BY <2>1 DEF ReversalIntegrity, TransactionRecord
<1>3. src \in Spenders(l)
  BY <1>2 DEF Spenders
<1>4. consumptionsBySpendTx[src][l] > 0
  BY DEF LotsOK, ConsumptionsOK
<1>5. consumptionsBySpendTx[src][l] <= Outstanding(l)
  BY <1>3, OutstandingType DEF LotsOK
<1>6. /\ lots[l].remaining \in Int /\ lots[l].original \in Int
      /\ LotSound(l) /\ Outstanding(l) \in Nat /\ Swept(l) \in Nat
  BY <1>1, SoundLot
<1>7. lots[l].status # "CANCELLED"
  BY <1>1, <1>4, <1>5, <1>6 DEF LotSound
<1>8. lots[l].original = lots[l].remaining + Outstanding(l) + Swept(l)
  BY <1>6, <1>7 DEF LotSound
<1>9. lots[l].remaining + consumptionsBySpendTx[src][l] <= lots[l].original
  BY <1>1, <1>5, <1>6, <1>8
<1>10. QED
  BY <1>1, <1>3, <1>4, <1>7, <1>9

\* A reversal never throws LOT_OVERFLOW, so that it records what it applies.
LEMMA ReversalRecords ==
  ASSUME TypeOK, LotsOK, ReversalIntegrity, NEW tenant, NEW src \in DOMAIN transactions, NEW actor,
         src \notin DOMAIN reversalBySourceTxId, ReversalAccepted(tenant, src, actor)
  PROVE  LET tx == Len(transactions) + 1 IN
         /\ balances' = Applied(Mirror(entriesByTxId[src]))
         /\ lots' = LotsAfterReversal(tenant, src)
         /\ transactions' = Append([transactions EXCEPT ![src].status = "REVERSED"],
                                   Transaction(tenant, "REVERSAL", actor, Null, src))
         /\ entriesByTxId' = Append(entriesByTxId, Mirror(entriesByTxId[src]))
         /\ consumptionsBySpendTx' = Put(consumptionsBySpendTx, tx, <<>>)
         /\ auditLogs' = Append(auditLogs, Audit(tenant, actor, "TX_REVERSE", tx, Null, 0))
         /\ reversalBySourceTxId' = Put(reversalBySourceTxId, src, tx)
         /\ UNCHANGED <<clock, accounts, idempotencyToTxId, batch>>
         /\ reply' = Answer("reverse", AssertInvariants(tenant)', tx)
<1> DEFINE restored == IF transactions[src].txType = "SPEND" THEN consumptionsBySpendTx[src] ELSE <<>>
<1>1. \A l \in DOMAIN restored : ~ (lots[l].remaining + restored[l] > lots[l].original)
  <2>1. SUFFICES ASSUME NEW l \in DOMAIN restored
                 PROVE  ~ (lots[l].remaining + restored[l] > lots[l].original)
    OBVIOUS
  <2>2. restored = consumptionsBySpendTx[src]
    OBVIOUS
  <2> HIDE DEF restored
  <2>3. /\ l \in DOMAIN lots /\ restored[l] \in Int
        /\ lots[l].remaining + restored[l] <= lots[l].original
    BY <2>1, <2>2, RestoredFits
  <2>4. lots[l].remaining \in Int /\ lots[l].original \in Int
    BY <2>3, SoundLot
  <2>5. QED
    BY <2>3, <2>4
<1>2. QED
  BY <1>1 DEF ReversalAccepted

\* What recording a reversal does to the spends of a lot.
LEMMA ReversedSpends ==
  ASSUME TypeOK, NEW rec, rec.status = "POSTED", NEW src \in DOMAIN transactions,
         transactions' = Append([transactions EXCEPT ![src].status = "REVERSED"], rec),
         consumptionsBySpendTx' = Put(consumptionsBySpendTx, Len(transactions) + 1, <<>>)
  PROVE  /\ \A t \in DOMAIN transactions : consumptionsBySpendTx'[t] = consumptionsBySpendTx[t]
         /\ consumptionsBySpendTx'[Len(transactions) + 1] = <<>>
         /\ \A l : Spenders(l)' = Spenders(l) \ {src}
<1> DEFINE tx == Len(transactions) + 1
<1>1. /\ DOMAIN transactions' = DOMAIN transactions \cup {tx}
      /\ tx \notin DOMAIN transactions
      /\ transactions'[src].status = "REVERSED"
      /\ \A t \in DOMAIN transactions : t # src => transactions'[t].status = transactions[t].status
  BY RecordedFields
<1>2. consumptionsBySpendTx'[tx] = <<>>
  BY DEF Put
<1>3. \A t \in DOMAIN transactions : consumptionsBySpendTx'[t] = consumptionsBySpendTx[t]
  BY <1>1 DEF Put, TypeOK
<1> HIDE DEF tx
<1>4. ASSUME NEW l PROVE Spenders(l)' = Spenders(l) \ {src}
  <2>1. \A s : s \in Spenders(l)' <=> s \in Spenders(l) /\ s # src
    BY <1>1, <1>2, <1>3 DEF Spenders
  <2>2. QED
    BY <2>1
<1>5. QED
  BY <1>2, <1>3, <1>4 DEF tx

\* The lots after a reversal.
LEMMA ReversedLots ==
  ASSUME TypeOK, LotsOK, ReversalIntegrity, NEW tenant, NEW src \in DOMAIN transactions,
         src \notin DOMAIN reversalBySourceTxId, ReversalVerdict(tenant, src) = "OK",
         lots' = LotsAfterReversal(tenant, src)
  PROVE  /\ DOMAIN lots' = DOMAIN lots
         /\ \A l \in DOMAIN lots :
              \/ /\ l \in DOMAIN consumptionsBySpendTx[src]
                 /\ lots'[l].remaining = lots[l].remaining + consumptionsBySpendTx[src][l]
                 /\ lots'[l].status = "ACTIVE"
                 /\ lots'[l].original = lots[l].original
              \/ /\ l \notin DOMAIN consumptionsBySpendTx[src]
                 /\ Untouched(l)
                 /\ lots'[l].remaining = 0
                 /\ lots'[l].status = "CANCELLED"
                 /\ lots'[l].original = lots[l].original
              \/ /\ l \notin DOMAIN consumptionsBySpendTx[src]
                 /\ lots'[l] = lots[l]
<1>1. \A l \in DOMAIN lots : lots[l] \in Lot
  BY DEF TypeOK
<1>2. CASE transactions[src].txType = "EARN"
  <2>1. lots' = [l \in DOMAIN lots |-> IF l \in LotsGrantedBy(tenant, src)
                                       THEN [lots[l] EXCEPT !.remaining = 0, !.status = "CANCELLED"]
                                       ELSE lots[l]]
    BY <1>2 DEF LotsAfterReversal
  <2>2. \A l \in LotsGrantedBy(tenant, src) : Untouched(l)
    BY <1>2 DEF ReversalVerdict
  <2>3. DOMAIN consumptionsBySpendTx[src] = {}
    BY <1>2 DEF LotsOK, ConsumptionsOK
  <2>4. QED
    BY <1>1, <2>1, <2>2, <2>3 DEF Lot
<1>3. CASE transactions[src].txType = "SPEND"
  <2> DEFINE c == consumptionsBySpendTx[src]
  <2>1. lots' = LotsMovedBy(c)
    BY <1>3 DEF LotsAfterReversal
  <2>2. ASSUME NEW l \in DOMAIN lots, l \in DOMAIN c
        PROVE  /\ lots'[l].remaining = lots[l].remaining + c[l]
               /\ lots'[l].status = "ACTIVE"
               /\ lots'[l].original = lots[l].original
    <3>1. c[l] \in Int /\ c[l] > 0
      BY <2>2, RestoredFits
    <3>2. lots[l].remaining \in Int /\ lots[l].remaining >= 0
      BY SoundLot DEF LotSound
    <3> HIDE DEF c
    <3>3. lots'[l] = [lots[l] EXCEPT !.remaining = lots[l].remaining + c[l],
                                     !.status = StatusFor(lots[l].remaining + c[l])]
      BY <2>1, <2>2 DEF LotsMovedBy
    <3>4. StatusFor(lots[l].remaining + c[l]) = "ACTIVE"
      BY <3>1, <3>2 DEF StatusFor
    <3>5. QED
      BY <1>1, <3>3, <3>4 DEF Lot
  <2>3. \A l \in DOMAIN lots : l \notin DOMAIN c => lots'[l] = lots[l]
    <3> HIDE DEF c
    <3> QED BY <2>1 DEF LotsMovedBy
  <2>4. DOMAIN lots' = DOMAIN lots
    <3> HIDE DEF c
    <3> QED BY <2>1 DEF LotsMovedBy
  <2>5. QED
    BY <2>2, <2>3, <2>4
<1>4. CASE transactions[src].txType \notin {"EARN", "SPEND"}
  <2>1. lots' = lots
    BY <1>4 DEF LotsAfterReversal
  <2>2. DOMAIN consumptionsBySpendTx[src] = {}
    BY <1>4 DEF LotsOK, ConsumptionsOK
  <2>3. QED
    BY <2>1, <2>2
<1>5. QED
  BY <1>2, <1>3, <1>4

\* An accepted reversal keeps every lot sound: a cancelled lot had given
\* nothing, and a restored one gets back what was outstanding.
LEMMA ReversalKeepsLots ==
  ASSUME TypeOK, LotsOK, ReversalIntegrity, NEW tenant, NEW src \in DOMAIN transactions, NEW actor,
         src \notin DOMAIN reversalBySourceTxId, ReversalVerdict(tenant, src) = "OK", batch = Null,
         ReversalAccepted(tenant, src, actor)
  PROVE  LotsOK'
<1> DEFINE tx == Len(transactions) + 1
           c == consumptionsBySpendTx[src]
           rec == Transaction(tenant, "REVERSAL", actor, Null, src)
           log == Audit(tenant, actor, "TX_REVERSE", tx, Null, 0)
<1>1. /\ lots' = LotsAfterReversal(tenant, src)
      /\ transactions' = Append([transactions EXCEPT ![src].status = "REVERSED"], rec)
      /\ consumptionsBySpendTx' = Put(consumptionsBySpendTx, tx, <<>>)
      /\ auditLogs' = Append(auditLogs, log)
      /\ batch' = batch
  BY ReversalRecords
<1>2. rec.status = "POSTED" /\ rec.txType = "REVERSAL" /\ log.lot = Null
  BY DEF Transaction, Audit
<1> HIDE DEF rec, log
<1>3. /\ DOMAIN transactions' = DOMAIN transactions \cup {tx}
      /\ \A t \in DOMAIN transactions : transactions'[t].txType = transactions[t].txType
  BY <1>1, RecordedFields
<1>4. /\ \A t \in DOMAIN transactions : consumptionsBySpendTx'[t] = consumptionsBySpendTx[t]
      /\ consumptionsBySpendTx'[tx] = <<>>
      /\ \A l : Spenders(l)' = Spenders(l) \ {src}
  BY <1>1, <1>2, ReversedSpends
<1>5. /\ DOMAIN lots' = DOMAIN lots
      /\ \A l \in DOMAIN lots :
           \/ /\ l \in DOMAIN c
              /\ lots'[l].remaining = lots[l].remaining + c[l]
              /\ lots'[l].status = "ACTIVE"
              /\ lots'[l].original = lots[l].original
           \/ /\ l \notin DOMAIN c
              /\ Untouched(l)
              /\ lots'[l].remaining = 0
              /\ lots'[l].status = "CANCELLED"
              /\ lots'[l].original = lots[l].original
           \/ /\ l \notin DOMAIN c
              /\ lots'[l] = lots[l]
  BY <1>1, ReversedLots
<1> HIDE DEF tx
<1>6. \A l : \A t \in Spenders(l) : consumptionsBySpendTx'[t][l] = consumptionsBySpendTx[t][l]
  BY <1>4 DEF Spenders
<1>7. \A l \in DOMAIN lots : Swept(l)' = Swept(l)
  <2>1. \A l \in DOMAIN lots : l # Null
    BY NullAssumption DEF TypeOK
  <2>2. QED
    BY <1>1, <1>2, <2>1, SweptSame
<1>8. \A l : l \notin DOMAIN c => Outstanding(l)' = Outstanding(l)
  <2>1. \A l : l \notin DOMAIN c => Spenders(l)' = Spenders(l)
    BY <1>4 DEF Spenders
  <2>2. QED
    BY <1>6, <2>1, OutstandingSame
<1>9. ASSUME NEW l \in DOMAIN lots
      PROVE  LotSound(l)' /\ lots'[l].original = lots[l].original
  <2>1. /\ lots[l].remaining \in Int /\ lots[l].original \in Int
        /\ LotSound(l) /\ Outstanding(l) \in Nat /\ Swept(l) \in Nat
    BY SoundLot
  <2>2. Swept(l)' = Swept(l)
    BY <1>7
  <2>3. CASE /\ l \in DOMAIN c
             /\ lots'[l].remaining = lots[l].remaining + c[l]
             /\ lots'[l].status = "ACTIVE"
             /\ lots'[l].original = lots[l].original
    <3>1. /\ src \in Spenders(l) /\ c[l] \in Int /\ c[l] > 0
          /\ lots[l].status # "CANCELLED"
      BY <2>3, RestoredFits
    <3>2. Outstanding(l)' = Outstanding(l) - c[l]
      BY <1>4, <1>6, <3>1, OutstandingLess DEF LotsOK
    <3> HIDE DEF c
    <3>3. QED
      BY <2>1, <2>2, <2>3, <3>1, <3>2 DEF LotSound
  <2>4. CASE /\ l \notin DOMAIN c
             /\ Untouched(l)
             /\ lots'[l].remaining = 0
             /\ lots'[l].status = "CANCELLED"
             /\ lots'[l].original = lots[l].original
    <3>1. Outstanding(l)' = Outstanding(l)
      BY <1>8, <2>4
    <3>2. lots[l].remaining = lots[l].original /\ lots[l].status = "ACTIVE"
      BY <2>4 DEF Untouched
    <3>3. Outstanding(l) = 0 /\ Swept(l) = 0
      BY <2>1, <3>2 DEF LotSound
    <3>4. QED
      BY <2>1, <2>2, <2>4, <3>1, <3>3 DEF LotSound
  <2>5. CASE l \notin DOMAIN c /\ lots'[l] = lots[l]
    BY <1>8, <2>1, <2>2, <2>5, UntouchedLot
  <2>6. QED
    <3> HIDE DEF c
    <3> QED BY <1>5, <2>3, <2>4, <2>5
<1>10. LotConservation'
  BY <1>5, <1>9 DEF LotConservation, LotSound
<1>11. LotsGranted'
  BY <1>3, <1>5, <1>9 DEF LotsOK, LotsGranted
<1>12. ConsumptionsOK'
  <2>1. ASSUME NEW t \in DOMAIN transactions', NEW l \in DOMAIN consumptionsBySpendTx'[t]
        PROVE  transactions'[t].txType = "SPEND" /\ consumptionsBySpendTx'[t][l] > 0
    <3>1. t \in DOMAIN transactions
      BY <1>3, <1>4, <2>1
    <3>2. QED
      BY <1>3, <1>4, <2>1, <3>1 DEF LotsOK, ConsumptionsOK
  <2>2. QED
    BY <2>1 DEF ConsumptionsOK
<1>13. SweepsOK'
  <2>1. /\ DOMAIN auditLogs' = DOMAIN auditLogs \cup {Len(auditLogs) + 1}
        /\ \A i \in DOMAIN auditLogs : auditLogs'[i] = auditLogs[i]
        /\ auditLogs'[Len(auditLogs) + 1] = log
    BY <1>1, LenProperties DEF TypeOK
  <2>2. QED
    BY <1>2, <1>5, <2>1 DEF LotsOK, SweepsOK
<1>14. SweepInFlight'
  BY <1>1 DEF SweepInFlight
<1>15. QED
  BY <1>10, <1>11, <1>12, <1>13, <1>14 DEF LotsOK

\* Posting a sweep touches no lot yet: what is in flight is what the lot has.
LEMMA ExpirePostKeepsLots ==
  ASSUME Typed, LotsOK, ExpirePost
  PROVE  LotsOK'
<1> DEFINE tx == Len(transactions) + 1
           rec == Transaction(batch.tenant, "EXPIRE", Null, Null, Null)
           log == Audit(batch.tenant, Null, "TX_POST", tx, Null, 0)
<1>1. TypeOK
  BY DEF Typed
<1>2. /\ transactions' = Append(transactions, rec)
      /\ consumptionsBySpendTx' = Put(consumptionsBySpendTx, tx, <<>>)
      /\ auditLogs' = Append(auditLogs, log)
      /\ batch' = [batch EXCEPT !.posted = [tx |-> tx, lot |-> NextDue, amount |-> lots[NextDue].remaining]]
      /\ lots' = lots
      /\ batch # Null
  BY DEF ExpirePost
<1>3. rec.status = "POSTED" /\ log.lot = Null
  BY DEF Transaction, Audit
<1>4. batch \in Batch
  BY <1>1, <1>2 DEF TypeOK
<1>5. NextDue \in Pending /\ NextDue \in DOMAIN lots
  BY <1>1, NextDueType DEF ExpirePost, Typed, BatchOK
<1>6. batch'.posted = [tx |-> tx, lot |-> NextDue, amount |-> lots[NextDue].remaining]
  BY <1>2, <1>4 DEF Batch
<1> HIDE DEF rec, log
<1>7. /\ DOMAIN transactions' = DOMAIN transactions \cup {tx}
      /\ \A t \in DOMAIN transactions :
            /\ transactions'[t] = transactions[t]
            /\ consumptionsBySpendTx'[t] = consumptionsBySpendTx[t]
      /\ consumptionsBySpendTx'[tx] = <<>>
      /\ \A l : Spenders(l)' = Spenders(l)
  BY <1>1, <1>2, <1>3, RecordedSpends
<1> HIDE DEF tx
<1>8. \A l : Outstanding(l)' = Outstanding(l)
  <2>1. \A l : \A t \in Spenders(l) : consumptionsBySpendTx'[t][l] = consumptionsBySpendTx[t][l]
    BY <1>7 DEF Spenders
  <2>2. QED
    BY <1>7, <2>1, OutstandingSame
<1>9. \A l \in DOMAIN lots : Swept(l)' = Swept(l)
  <2>1. \A l \in DOMAIN lots : l # Null
    BY <1>1, NullAssumption DEF TypeOK
  <2>2. QED
    BY <1>1, <1>2, <1>3, <2>1, SweptSame
<1>10. LotConservation'
  <2>1. \A l \in DOMAIN lots : LotSound(l)'
    BY <1>1, <1>2, <1>8, <1>9, SoundLot, UntouchedLot
  <2>2. QED
    BY <1>2, <2>1 DEF LotConservation, LotSound
<1>11. LotsGranted'
  BY <1>2, <1>7 DEF LotsOK, LotsGranted
<1>12. ConsumptionsOK'
  <2>1. ASSUME NEW t \in DOMAIN transactions', NEW l \in DOMAIN consumptionsBySpendTx'[t]
        PROVE  transactions'[t].txType = "SPEND" /\ consumptionsBySpendTx'[t][l] > 0
    <3>1. t \in DOMAIN transactions
      BY <1>7, <2>1
    <3>2. QED
      BY <1>7, <2>1, <3>1 DEF LotsOK, ConsumptionsOK
  <2>2. QED
    BY <2>1 DEF ConsumptionsOK
<1>13. SweepsOK'
  <2>1. /\ DOMAIN auditLogs' = DOMAIN auditLogs \cup {Len(auditLogs) + 1}
        /\ \A i \in DOMAIN auditLogs : auditLogs'[i] = auditLogs[i]
        /\ auditLogs'[Len(auditLogs) + 1] = log
    BY <1>1, <1>2, LenProperties DEF TypeOK
  <2>2. QED
    BY <1>2, <1>3, <2>1 DEF LotsOK, SweepsOK
<1>14. SweepInFlight'
  <2>1. lots[NextDue].remaining > 0
    BY <1>5 DEF Pending
  <2>2. QED
    BY <1>2, <1>6, <2>1 DEF SweepInFlight
<1>15. QED
  BY <1>10, <1>11, <1>12, <1>13, <1>14 DEF LotsOK

\* Emptying the swept lot and auditing the sweep go together.
LEMMA ExpireMarkKeepsLots ==
  ASSUME Typed, LotsOK, ExpireMark
  PROVE  LotsOK'
<1>1. TypeOK
  BY DEF Typed
<1>2. batch \in Batch /\ batch # Null /\ batch.posted # Null
  BY <1>1 DEF ExpireMark, TypeOK
<1>3. PICK p : p = batch.posted
  OBVIOUS
<1>4. /\ p \in Posting /\ p.lot \in DOMAIN lots
      /\ lots[p.lot].remaining = p.amount /\ p.amount > 0 /\ p.amount \in Int
  BY <1>2, <1>3 DEF Batch, Posting, Typed, BatchOK, LotsOK, SweepInFlight
<1>5. PICK log : log = Audit(batch.tenant, Null, "LOT_EXPIRE", p.tx, p.lot, p.amount)
  OBVIOUS
<1>6. /\ lots' = [lots EXCEPT ![p.lot].remaining = 0, ![p.lot].status = "EXPIRED"]
      /\ auditLogs' = Append(auditLogs, log)
      /\ batch' = [batch EXCEPT !.posted = Null]
      /\ UNCHANGED <<transactions, consumptionsBySpendTx>>
  BY <1>3, <1>5 DEF ExpireMark
<1>7. log.lot = p.lot /\ log.amount = p.amount
  BY <1>5 DEF Audit
<1>8. /\ DOMAIN lots' = DOMAIN lots
      /\ lots'[p.lot].remaining = 0 /\ lots'[p.lot].status = "EXPIRED"
      /\ lots'[p.lot].original = lots[p.lot].original
      /\ \A l \in DOMAIN lots : l # p.lot => lots'[l] = lots[l]
  <2>1. lots[p.lot] \in Lot
    BY <1>1, <1>4 DEF TypeOK
  <2>2. QED
    BY <1>4, <1>6, <2>1 DEF Lot
<1>9. \A l : Outstanding(l)' = Outstanding(l)
  <2>1. \A l : Spenders(l)' = Spenders(l)
    BY <1>6 DEF Spenders
  <2>2. QED
    BY <1>6, <2>1, OutstandingSame
<1>10. \A l \in DOMAIN lots : l # p.lot => Swept(l)' = Swept(l)
  BY <1>1, <1>6, <1>7, SweptSame
<1>11. Swept(p.lot)' = Swept(p.lot) + p.amount
  BY <1>1, <1>4, <1>6, <1>7, SweptMore DEF LotsOK
<1>12. ASSUME NEW l \in DOMAIN lots
       PROVE  LotSound(l)' /\ lots'[l].original = lots[l].original
  <2>1. /\ lots[l].remaining \in Int /\ lots[l].original \in Int
        /\ LotSound(l) /\ Outstanding(l) \in Nat /\ Swept(l) \in Nat
    BY <1>1, SoundLot
  <2>2. CASE l = p.lot
    <3>1. lots[l].status = "ACTIVE"
      BY <1>4, <2>1, <2>2 DEF LotSound
    <3>2. lots[l].original = p.amount + Outstanding(l) + Swept(l)
      BY <1>4, <2>1, <2>2, <3>1 DEF LotSound
    <3>3. lots'[l].remaining = 0 /\ lots'[l].status = "EXPIRED" /\ lots'[l].original = lots[l].original
      BY <1>8, <2>2
    <3>4. Swept(l)' = Swept(l) + p.amount /\ Outstanding(l)' = Outstanding(l)
      BY <1>9, <1>11, <2>2
    <3>5. QED
      BY <1>4, <2>1, <3>2, <3>3, <3>4 DEF LotSound
  <2>3. CASE l # p.lot
    BY <1>8, <1>9, <1>10, <2>1, <2>3, UntouchedLot
  <2>4. QED
    BY <2>2, <2>3
<1>13. LotConservation'
  BY <1>8, <1>12 DEF LotConservation, LotSound
<1>14. LotsGranted' /\ ConsumptionsOK'
  BY <1>6, <1>8, <1>12 DEF LotsOK, LotsGranted, ConsumptionsOK
<1>15. SweepsOK'
  <2>1. /\ DOMAIN auditLogs' = DOMAIN auditLogs \cup {Len(auditLogs) + 1}
        /\ \A i \in DOMAIN auditLogs : auditLogs'[i] = auditLogs[i]
        /\ auditLogs'[Len(auditLogs) + 1] = log
    BY <1>1, <1>6, LenProperties DEF TypeOK
  <2>2. QED
    BY <1>4, <1>7, <1>8, <2>1 DEF LotsOK, SweepsOK
<1>16. SweepInFlight'
  <2>1. batch'.posted = Null
    BY <1>2, <1>6 DEF Batch
  <2>2. QED
    BY <2>1 DEF SweepInFlight
<1>17. QED
  BY <1>13, <1>14, <1>15, <1>16 DEF LotsOK

\* What a step may do to the ledger: nothing, open an account, post, reverse,
\* or one half of a sweep.
LEMMA StepCases ==
  ASSUME TypeOK, [Next]_vars
  PROVE  \/ UNCHANGED ledger
         \/ \E in \in AccountInputs :
               /\ accounts' = Append(accounts, NewAccount(in))
               /\ balances' = Put(balances, Len(accounts) + 1, 0)
               /\ UNCHANGED <<lots, journal, indexes, batch>>
         \/ \E in \in PostInputs :
               /\ batch = Null /\ ~ IsResend(in) /\ PostVerdict(in) = "OK" /\ PostAccepted(in)
         \/ \E tenant \in Tenants, src \in DOMAIN transactions, actor \in Actors \cup {Null} :
               /\ batch = Null
               /\ transactions[src].tenant = tenant
               /\ src \notin DOMAIN reversalBySourceTxId
               /\ ReversalVerdict(tenant, src) = "OK"
               /\ ReversalAccepted(tenant, src, actor)
         \/ ExpirePost
         \/ ExpireMark
<1>1. CASE Tick \/ ExpireAbort \/ ExpireEnd \/ UNCHANGED vars
  BY <1>1 DEF Tick, ExpireAbort, ExpireEnd, vars
<1>2. ASSUME NEW in \in AccountInputs, CreateAccount(in)
      PROVE  \/ UNCHANGED ledger
             \/ /\ accounts' = Append(accounts, NewAccount(in))
                /\ balances' = Put(balances, Len(accounts) + 1, 0)
                /\ UNCHANGED <<lots, journal, indexes, batch>>
  BY <1>2 DEF CreateAccount, Answered
<1>3. ASSUME NEW in \in PostInputs, PostTransaction(in)
      PROVE  \/ UNCHANGED ledger
             \/ batch = Null /\ ~ IsResend(in) /\ PostVerdict(in) = "OK" /\ PostAccepted(in)
  BY <1>3 DEF PostTransaction, Detail, Answered
<1>4. ASSUME NEW t \in Tenants, NEW src \in 1 .. Len(transactions) + 1,
             NEW actor \in Actors \cup {Null}, ReverseTransaction(t, src, actor)
      PROVE  \/ UNCHANGED ledger
             \/ /\ src \in DOMAIN transactions
                /\ batch = Null
                /\ transactions[src].tenant = t
                /\ src \notin DOMAIN reversalBySourceTxId
                /\ ReversalVerdict(t, src) = "OK"
                /\ ReversalAccepted(t, src, actor)
  BY <1>4 DEF ReverseTransaction, HasTransaction, Detail, Answered
<1>5. ASSUME NEW t \in Tenants, NEW now \in Times, ExpireBegin(t, now)
      PROVE  UNCHANGED ledger
  BY <1>5 DEF ExpireBegin, Answered
<1>6. QED
  BY <1>1, <1>2, <1>3, <1>4, <1>5 DEF Next, ExpireStep

\* A sweep is in flight only in a batch, and changes with it alone.
LEMMA InFlightStep ==
  ASSUME Typed, SweepInFlight, [Next]_vars, UNCHANGED ledger
  PROVE  SweepInFlight'
<1>1. CASE batch' = batch
  BY <1>1 DEF SweepInFlight, ledger
<1>2. CASE batch' = Null
  BY <1>2 DEF SweepInFlight
<1>3. ASSUME NEW t \in Tenants, NEW now \in Times, ExpireBegin(t, now)
      PROVE  batch' = Null \/ batch'.posted = Null
  BY <1>3 DEF ExpireBegin, Answered
<1>4. CASE ExpirePost
  <2>1. Len(transactions) \in Nat
    BY LenProperties DEF Typed, TypeOK
  <2>2. transactions' # transactions
    <3>1. Len(transactions') = Len(transactions) + 1
      BY <1>4, AppendProperties DEF ExpirePost, Typed, TypeOK
    <3>2. QED
      BY <2>1, <3>1
  <2>3. QED
    BY <2>2 DEF ledger, journal
<1>5. CASE ExpireMark
  <2>1. Len(auditLogs) \in Nat
    BY LenProperties DEF Typed, TypeOK
  <2>2. auditLogs' # auditLogs
    <3>1. Len(auditLogs') = Len(auditLogs) + 1
      <4>1. auditLogs \in Seq(AuditLog)
        BY DEF Typed, TypeOK
      <4>2. QED
        BY <1>5, <4>1 DEF ExpireMark
    <3>2. QED
      BY <2>1, <3>1
  <2>3. QED
    BY <2>2 DEF ledger, journal
<1>6. CASE Tick \/ ExpireAbort \/ ExpireEnd \/ UNCHANGED vars
  BY <1>1, <1>2, <1>6 DEF Tick, ExpireAbort, ExpireEnd, vars
<1>7. ASSUME NEW in \in AccountInputs, CreateAccount(in) PROVE SweepInFlight'
  BY <1>1, <1>7 DEF CreateAccount, Answered
<1>8. ASSUME NEW in \in PostInputs, PostTransaction(in) PROVE SweepInFlight'
  BY <1>1, <1>8 DEF PostTransaction, PostAccepted, Detail, Answered
<1>9. ASSUME NEW t \in Tenants, NEW src \in 1 .. Len(transactions) + 1,
             NEW actor \in Actors \cup {Null}, ReverseTransaction(t, src, actor)
      PROVE  SweepInFlight'
  BY <1>1, <1>9 DEF ReverseTransaction, ReversalAccepted, Detail, Answered
<1>10. QED
  BY <1>3, <1>4, <1>5, <1>6, <1>7, <1>8, <1>9 DEF Next, ExpireStep, SweepInFlight

\* Every step keeps the invariant of the lots.
LEMMA LotsStep ==
  ASSUME Typed, ReversalIntegrity, LotsOK, [Next]_vars
  PROVE  LotsOK'
<1>1. TypeOK
  BY DEF Typed
<1>2. ASSUME UNCHANGED <<lots, journal>>
      PROVE  LotConservation' /\ LotsGranted' /\ ConsumptionsOK' /\ SweepsOK'
  <2>1. \A l : Outstanding(l)' = Outstanding(l) /\ Swept(l)' = Swept(l)
    BY <1>2 DEF Outstanding, Swept, journal
  <2>2. QED
    BY <1>2, <2>1 DEF LotsOK, LotConservation, LotsGranted, ConsumptionsOK, SweepsOK, journal
<1>3. CASE UNCHANGED ledger
  BY <1>2, <1>3, InFlightStep DEF LotsOK, ledger
<1>4. CASE UNCHANGED <<lots, journal, batch>>
  BY <1>2, <1>4 DEF LotsOK, SweepInFlight
<1>5. QED
  BY <1>1, <1>3, <1>4, StepCases, PostKeepsLots, ReversalKeepsLots, ExpirePostKeepsLots,
     ExpireMarkKeepsLots

\* Points are conserved lot by lot: what a lot granted is what it still has,
\* what unreversed spends took and what batches swept, and a cancelled lot has
\* given nothing, through any sequence of posts, reversals and sweeps.
THEOREM LotsConserved == Spec => []LotConservation
<1>1. Init => LotsOK
  BY DEF Init, LotsOK, LotConservation, LotsGranted, ConsumptionsOK, SweepsOK, SweepInFlight
<1>2. Typed /\ ReversalIntegrity /\ LotsOK /\ [Next]_vars => LotsOK'
  BY LotsStep
<1>3. LotsOK => LotConservation
  BY DEF LotsOK
<1>4. QED
  BY <1>1, <1>2, <1>3, AlwaysTyped, ReversalsAreSound, PTL DEF Spec

-----------------------------------------------------------------------------
(* Movements: what a step does to the journal and the balances.            *)

\* The entries of tenant t that a step applies and records.
Moved(t, e) ==
    /\ Total(e) = 0
    /\ \A i \in DOMAIN e : Owns(t, e[i].account)
    /\ ~ Overdrawn(e)
    /\ balances' = Applied(e)
    /\ entriesByTxId' = Append(entriesByTxId, e)
    /\ UNCHANGED accounts

\* What passes the verdict may be moved.
LEMMA VerdictAllows ==
  ASSUME NEW t, NEW e, NEW err, MovementVerdict(t, e, err) = "OK", err # "OK"
  PROVE  /\ Total(e) = 0
         /\ \A i \in DOMAIN e : Owns(t, e[i].account)
         /\ ~ Overdrawn(e)
BY DEF MovementVerdict

\* A recorded transaction has typed entries.
LEMMA RecordedEntries ==
  ASSUME TypeOK
  PROVE  /\ \A tx \in DOMAIN entriesByTxId : entriesByTxId[tx] \in Seq(Entry)
         /\ DOMAIN entriesByTxId = DOMAIN transactions
         /\ IsFiniteSet(DOMAIN entriesByTxId)
<1>1. entriesByTxId \in Seq(Seq(Entry)) /\ transactions \in Seq(TransactionRecord)
  BY DEF TypeOK
<1>2. \A tx \in DOMAIN entriesByTxId : entriesByTxId[tx] \in Seq(Entry)
  BY <1>1, LenProperties, ElementOfSeq
<1>3. DOMAIN entriesByTxId = DOMAIN transactions
  BY <1>1, LenProperties DEF TypeOK
<1>4. IsFiniteSet(DOMAIN entriesByTxId)
  BY <1>1, FiniteIndexes
<1>5. QED
  BY <1>2, <1>3, <1>4

\* Whatever a step does, journal and balances see one movement of one tenant,
\* or an account opened empty, or nothing.
LEMMA StepMoves ==
  ASSUME Typed, ReversalIntegrity, LotsOK, [Next]_vars
  PROVE  \/ UNCHANGED <<accounts, balances, entriesByTxId>>
         \/ \E in \in AccountInputs :
               /\ accounts' = Append(accounts, NewAccount(in))
               /\ balances' = Put(balances, Len(accounts) + 1, 0)
               /\ UNCHANGED entriesByTxId
         \/ \E t \in Tenants, e \in Seq(Entry) : Moved(t, e)
<1>1. TypeOK
  BY DEF Typed
<1>2. CASE UNCHANGED ledger
  BY <1>2 DEF ledger, journal
<1>3. CASE \E in \in AccountInputs :
              /\ accounts' = Append(accounts, NewAccount(in))
              /\ balances' = Put(balances, Len(accounts) + 1, 0)
              /\ UNCHANGED <<lots, journal, indexes, batch>>
  BY <1>3 DEF journal
<1>4. ASSUME NEW in \in PostInputs, PostVerdict(in) = "OK", PostAccepted(in)
      PROVE  \E t \in Tenants, e \in Seq(Entry) : Moved(t, e)
  <2>1. /\ InputVerdict(in) = "OK"
        /\ MovementVerdict(in.tenant, EntriesOf(in), "TX_SUM_NOT_ZERO") = "OK"
    BY <1>4 DEF PostVerdict
  <2>2. EntriesOf(in) \in Seq(Entry) /\ in.tenant \in Tenants
    BY <2>1, EntriesType, InputAssumption DEF PostInput
  <2>3. /\ balances' = Applied(EntriesOf(in))
        /\ entriesByTxId' = Append(entriesByTxId, EntriesOf(in))
        /\ UNCHANGED accounts
    BY <1>1, <1>4, <2>1, PostRecords
  <2>4. Moved(in.tenant, EntriesOf(in))
    BY <2>1, <2>3, VerdictAllows DEF Moved
  <2>5. QED
    BY <2>2, <2>4
<1>5. ASSUME NEW tenant \in Tenants, NEW src \in DOMAIN transactions, NEW actor \in Actors \cup {Null},
             src \notin DOMAIN reversalBySourceTxId,
             ReversalVerdict(tenant, src) = "OK",
             ReversalAccepted(tenant, src, actor)
      PROVE  \E t \in Tenants, e \in Seq(Entry) : Moved(t, e)
  <2>1. MovementVerdict(tenant, Mirror(entriesByTxId[src]), "REVERSAL_SUM_INVALID") = "OK"
    BY <1>5 DEF ReversalVerdict
  <2>2. Mirror(entriesByTxId[src]) \in Seq(Entry)
    BY <1>1, RecordedEntries, MirrorType
  <2>3. /\ balances' = Applied(Mirror(entriesByTxId[src]))
        /\ entriesByTxId' = Append(entriesByTxId, Mirror(entriesByTxId[src]))
        /\ UNCHANGED accounts
    BY <1>1, <1>5, ReversalRecords
  <2>4. Moved(tenant, Mirror(entriesByTxId[src]))
    BY <2>1, <2>3, VerdictAllows DEF Moved
  <2>5. QED
    BY <2>2, <2>4
<1>6. ASSUME ExpirePost
      PROVE  \E t \in Tenants, e \in Seq(Entry) : Moved(t, e)
  <2>1. NextDue \in DOMAIN lots
    BY <1>1, <1>6, NextDueType DEF ExpirePost, Typed, BatchOK
  <2>2. ExpireEntries(NextDue) \in Seq(Entry)
    BY <1>6, <2>1, ExpireEntriesType DEF ExpirePost
  <2>3. batch.tenant \in Tenants
    BY <1>1, <1>6 DEF ExpirePost, TypeOK, Batch
  <2>4. Moved(batch.tenant, ExpireEntries(NextDue))
    BY <1>6, VerdictAllows DEF ExpirePost, ExpireVerdict, Moved
  <2>5. QED
    BY <2>2, <2>3, <2>4
<1>7. CASE ExpireMark
  BY <1>7 DEF ExpireMark
<1>8. QED
  BY <1>1, <1>2, <1>3, <1>4, <1>5, <1>6, <1>7, StepCases

-----------------------------------------------------------------------------
(* The internal assertions never throw.                                    *)

\* Every recorded transaction balances and names accounts that exist.
MovementsOK ==
    \A tx \in DOMAIN entriesByTxId :
        /\ Total(entriesByTxId[tx]) = 0
        /\ \A i \in DOMAIN entriesByTxId[tx] : entriesByTxId[tx][i].account \in DOMAIN accounts

\* No assertion of assertInvariantsForTenant fails, for any tenant.
AssertionsOK == \A t \in Tenants : AssertInvariants(t) = "OK"

\* Every step keeps transactions balanced.
LEMMA MovementsStep ==
  ASSUME Typed, ReversalIntegrity, LotsOK, MovementsOK, [Next]_vars
  PROVE  MovementsOK'
<1>1. TypeOK
  BY DEF Typed
<1>2. CASE UNCHANGED <<accounts, balances, entriesByTxId>>
  BY <1>2 DEF MovementsOK
<1>3. ASSUME NEW in \in AccountInputs, accounts' = Append(accounts, NewAccount(in)),
             UNCHANGED entriesByTxId
      PROVE  MovementsOK'
  <2>1. DOMAIN accounts \subseteq DOMAIN accounts'
    BY <1>1, <1>3, LenProperties DEF TypeOK
  <2>2. QED
    BY <1>3, <2>1 DEF MovementsOK
<1>4. ASSUME NEW t \in Tenants, NEW e \in Seq(Entry), Moved(t, e)
      PROVE  MovementsOK'
  <2>1. /\ DOMAIN entriesByTxId' = DOMAIN entriesByTxId \cup {Len(entriesByTxId) + 1}
        /\ entriesByTxId'[Len(entriesByTxId) + 1] = e
        /\ \A tx \in DOMAIN entriesByTxId : entriesByTxId'[tx] = entriesByTxId[tx]
    BY <1>1, <1>4, LenProperties DEF TypeOK, Moved
  <2>2. Total(e) = 0 /\ \A i \in DOMAIN e : e[i].account \in DOMAIN accounts
    BY <1>4 DEF Moved, Owns
  <2>3. QED
    BY <1>4, <2>1, <2>2 DEF MovementsOK, Moved, Total, Amounts
<1>5. QED
  BY <1>2, <1>3, <1>4, StepMoves

\* The mirror of balanced entries is balanced.
LEMMA MirrorTotal ==
  ASSUME NEW e \in Seq(Entry)
  PROVE  Total(e) = 0 => Total(Mirror(e)) = 0
<1> DEFINE f == Amounts(e)
           g == Amounts(Mirror(e))
<1>1. DOMAIN f = DOMAIN e /\ DOMAIN g = DOMAIN e
  BY DEF Amounts, Mirror
<1>2. \A i \in DOMAIN e : e[i].amount \in Int
  <2>1. \A i \in DOMAIN e : e[i] \in Entry
    BY LenProperties, ElementOfSeq
  <2>2. QED
    BY <2>1 DEF Entry
<1>3. \A i \in DOMAIN e : f[i] \in Int /\ g[i] = - f[i]
  BY <1>2 DEF Amounts, Mirror
<1>4. IsFiniteSet(DOMAIN e)
  BY FiniteIndexes
<1>5. SumFunctionOnSet(g, DOMAIN e) = - SumFunctionOnSet(f, DOMAIN e)
  <2> HIDE DEF f, g
  <2> QED BY <1>3, <1>4, SumNegated
<1>6. Total(e) = SumFunctionOnSet(f, DOMAIN f) /\ Total(Mirror(e)) = SumFunctionOnSet(g, DOMAIN g)
  BY SumOfFunction DEF Total
<1>7. QED
  BY <1>1, <1>5, <1>6, SMT

\* In a ledger that keeps the invariants, every assertion holds.
LEMMA AssertionsHold ==
  ASSUME TypeOK, NoNegativeBalance, ReversalIntegrity, LotsOK, MovementsOK
  PROVE  AssertionsOK
<1>1. SUFFICES ASSUME NEW t \in Tenants PROVE AssertInvariants(t) = "OK"
  BY DEF AssertionsOK
<1>2. \A tx \in DOMAIN transactions : Total(entriesByTxId[tx]) = 0
  BY RecordedEntries DEF MovementsOK
<1>3. \A a \in DOMAIN accounts : ~ (~ accounts[a].allowNegative /\ balances[a] < 0)
  <2>1. \A a \in DOMAIN accounts : balances[a] \in Int
    BY DEF TypeOK
  <2>2. QED
    BY <2>1 DEF NoNegativeBalance
<1>4. ASSUME NEW l \in DOMAIN lots PROVE lots[l].remaining \in 0 .. lots[l].original
  <2>1. /\ lots[l].remaining \in Int /\ lots[l].original \in Int /\ lots[l].original > 0
        /\ LotSound(l) /\ Outstanding(l) \in Nat /\ Swept(l) \in Nat
    BY SoundLot
  <2>2. CASE lots[l].status = "CANCELLED"
    BY <2>1, <2>2 DEF LotSound
  <2>3. CASE lots[l].status # "CANCELLED"
    BY <2>1, <2>3 DEF LotSound
  <2>4. QED
    BY <2>2, <2>3
<1>5. \A s \in DOMAIN reversalBySourceTxId :
         entriesByTxId[reversalBySourceTxId[s]] = Mirror(entriesByTxId[s])
  BY DEF ReversalIntegrity
<1>6. QED
  BY <1>2, <1>3, <1>4, <1>5 DEF AssertInvariants

\* No answer of a step names an internal error.
LEMMA AnswersStep ==
  ASSUME Typed, ReversalIntegrity, LotsOK, MovementsOK, AssertionsOK, AssertionsOK',
         NoInternalError, [Next]_vars
  PROVE  NoInternalError'
<1>1. TypeOK
  BY DEF Typed
<1>2. CASE reply' = reply
  BY <1>2 DEF NoInternalError
<1>3. ASSUME NEW op, NEW code, NEW tx, reply' = Answer(op, code, tx), code \notin InternalErrors
      PROVE  NoInternalError'
  BY <1>3 DEF NoInternalError, Answer
<1>4. "OK" \notin InternalErrors /\ "NOT_FOUND" \notin InternalErrors
      /\ "SYSTEM_ACCOUNT_EXISTS" \notin InternalErrors
  BY DEF InternalErrors
<1>5. \A t, e : MovementVerdict(t, e, "TX_SUM_NOT_ZERO") \notin InternalErrors
  BY DEF MovementVerdict, InternalErrors
<1>6. ASSUME NEW in \in AccountInputs, CreateAccount(in) PROVE NoInternalError'
  BY <1>3, <1>4, <1>6 DEF CreateAccount, Answered
<1>7. ASSUME NEW in \in PostInputs, PostTransaction(in) PROVE NoInternalError'
  <2>1. PostVerdict(in) \notin InternalErrors
    <3>1. InputVerdict(in) \notin InternalErrors
      BY DEF InputVerdict, SpendVerdict, InternalErrors
    <3>2. QED
      BY <1>5, <3>1 DEF PostVerdict
  <2>2. CASE IsResend(in) /\ Detail("resend", in.tenant, idempotencyToTxId[InputKey(in)])
    BY <1>3, <1>4, <2>2 DEF Detail, Answered
  <2>3. CASE Answered("post", PostVerdict(in), Null)
    BY <1>3, <2>1, <2>3 DEF Answered
  <2>4. CASE PostVerdict(in) = "OK" /\ PostAccepted(in)
    <3>1. InputVerdict(in) = "OK"
      BY <2>4 DEF PostVerdict
    <3>2. reply' = Answer("post", AssertInvariants(in.tenant)', Len(transactions) + 1)
      BY <1>1, <2>4, <3>1, PostRecords
    <3>3. AssertInvariants(in.tenant)' = "OK"
      BY InputAssumption DEF PostInput, AssertionsOK
    <3>4. QED
      BY <1>3, <1>4, <3>2, <3>3
  <2>5. QED
    BY <1>7, <2>2, <2>3, <2>4 DEF PostTransaction
<1>8. ASSUME NEW t \in Tenants, NEW src \in 1 .. Len(transactions) + 1,
             NEW actor \in Actors \cup {Null}, ReverseTransaction(t, src, actor)
      PROVE  NoInternalError'
  <2>1. CASE Answered("reverse", "NOT_FOUND", Null) \/ Detail("reverse", t, reversalBySourceTxId[src])
    BY <1>3, <1>4, <2>1 DEF Detail, Answered
  <2>2. CASE HasTransaction(t, src) /\ Answered("reverse", ReversalVerdict(t, src), Null)
    <3>1. Total(Mirror(entriesByTxId[src])) = 0
      <4>1. src \in DOMAIN entriesByTxId /\ entriesByTxId[src] \in Seq(Entry)
        BY <1>1, <2>2, RecordedEntries DEF HasTransaction
      <4>2. Total(entriesByTxId[src]) = 0
        BY <4>1 DEF MovementsOK
      <4>3. QED
        BY <4>1, <4>2, MirrorTotal
    <3>2. ReversalVerdict(t, src) \notin InternalErrors
      BY <3>1 DEF ReversalVerdict, MovementVerdict, InternalErrors
    <3>3. QED
      BY <1>3, <2>2, <3>2 DEF Answered
  <2>3. CASE /\ HasTransaction(t, src) /\ src \notin DOMAIN reversalBySourceTxId
             /\ ReversalAccepted(t, src, actor)
    <3>1. reply' = Answer("reverse", AssertInvariants(t)', Len(transactions) + 1)
      BY <1>1, <2>3, ReversalRecords DEF HasTransaction
    <3>2. AssertInvariants(t)' = "OK"
      BY DEF AssertionsOK
    <3>3. QED
      BY <1>3, <1>4, <3>1, <3>2
  <2>4. QED
    BY <1>8, <2>1, <2>2, <2>3 DEF ReverseTransaction
<1>9. ASSUME NEW t \in Tenants, NEW now \in Times, ExpireBegin(t, now) PROVE NoInternalError'
  BY <1>2, <1>3, <1>4, <1>9 DEF ExpireBegin, Answered
<1>10. CASE ExpireAbort
  <2>1. ExpireVerdict \notin InternalErrors
    BY <1>5 DEF ExpireVerdict
  <2>2. QED
    BY <1>3, <1>10, <2>1 DEF ExpireAbort
<1>11. CASE ExpireEnd
  <2>1. batch.tenant \in Tenants
    BY <1>1, <1>11 DEF ExpireEnd, TypeOK, Batch
  <2>2. AssertInvariants(batch.tenant) = "OK"
    BY <2>1 DEF AssertionsOK
  <2>3. QED
    BY <1>3, <1>4, <1>11, <2>2 DEF ExpireEnd
<1>12. CASE Tick \/ ExpirePost \/ ExpireMark \/ UNCHANGED vars
  BY <1>2, <1>12 DEF Tick, ExpirePost, ExpireMark, vars
<1>13. QED
  BY <1>6, <1>7, <1>8, <1>9, <1>10, <1>11, <1>12 DEF Next, ExpireStep

\* The ledger keeps what its assertions check, whatever the tenants.
THEOREM AssertionsNeverFail == Spec => [](MovementsOK /\ LotsOK /\ AssertionsOK)
<1>1. Init => LotsOK /\ MovementsOK
  BY DEF Init, LotsOK, LotConservation, LotsGranted, ConsumptionsOK, SweepsOK, SweepInFlight,
         MovementsOK
<1>2. Typed /\ ReversalIntegrity /\ LotsOK /\ MovementsOK /\ [Next]_vars => LotsOK' /\ MovementsOK'
  BY LotsStep, MovementsStep
<1>3. Typed /\ NoNegativeBalance /\ ReversalIntegrity /\ LotsOK /\ MovementsOK => AssertionsOK
  BY AssertionsHold DEF Typed
<1>4. QED
  BY <1>1, <1>2, <1>3, AlwaysTyped, NeverNegative, ReversalsAreSound, PTL DEF Spec

\* No sequence of calls makes an internal check throw, so that no handler ever
\* stops between its change of the balances and the record of it.
THEOREM NoInternalErrors == Spec => []NoInternalError
<1>1. Init => NoInternalError
  BY DEF Init, NoInternalError, Answer, InternalErrors
<1>2. /\ Typed /\ ReversalIntegrity /\ LotsOK /\ MovementsOK /\ AssertionsOK /\ AssertionsOK'
      /\ NoInternalError /\ [Next]_vars
      => NoInternalError'
  BY AnswersStep
<1>3. QED
  BY <1>1, <1>2, AlwaysTyped, ReversalsAreSound, AssertionsNeverFail, PTL DEF Spec
-----------------------------------------------------------------------------
(* Spends are first-expiring-first-out.                                    *)

\* No lot comes before itself or before one that comes before it.
LEMMA PrecedesStrict ==
  ASSUME TypeOK, NEW l \in DOMAIN lots, NEW m \in DOMAIN lots, Precedes(l, m)
  PROVE  ~ Precedes(m, l) /\ l # m
<1>1. ASSUME NEW k \in DOMAIN lots PROVE ~ Precedes(k, k)
  <2>1. lots[k].createdAt \in Int /\ (lots[k].expiresAt = Null \/ lots[k].expiresAt \in Int)
    BY BoundAssumption DEF TypeOK, Lot, Times
  <2>2. k[1] \in Int /\ k[2] \in Int
    BY DEF TypeOK, LotIds, TxIds
  <2>3. QED
    BY <2>1, <2>2 DEF Precedes, ExpiresBefore, InsertedBefore
<1>2. QED
  BY <1>1, PrecedesTotal

\* What lots have left, summed over a set of them and one more.
LEMMA RemainingWith ==
  ASSUME TypeOK, NEW A \in SUBSET DOMAIN lots, NEW z \in DOMAIN lots, z \notin A
  PROVE  Remaining(A \cup {z}) = lots[z].remaining + Remaining(A)
<1> DEFINE f == [l \in DOMAIN lots |-> lots[l].remaining]
<1>1. IsFiniteSet(A)
  BY FS_Subset DEF TypeOK
<1>2. \A l \in A \cup {z} : f[l] \in Int
  BY DEF TypeOK, Lot
<1>3. SumFunctionOnSet(f, A \cup {z}) = f[z] + SumFunctionOnSet(f, A)
  <2> HIDE DEF f
  <2> QED BY <1>1, <1>2, SumAdd
<1>4. QED
  BY <1>3 DEF Remaining

\* More lots have no less left.
LEMMA RemainingMonotone ==
  ASSUME TypeOK, NEW B \in SUBSET DOMAIN lots, NEW A \in SUBSET B,
         \A l \in B : lots[l].remaining >= 0
  PROVE  Remaining(A) <= Remaining(B)
<1> DEFINE f == [l \in DOMAIN lots |-> lots[l].remaining]
           C == B \ A
<1>1. IsFiniteSet(A) /\ IsFiniteSet(C) /\ A \cap C = {} /\ A \cup C = B
  BY FS_Subset DEF TypeOK
<1>2. \A l \in A \cup C : f[l] \in Nat
  BY DEF TypeOK, Lot
<1>3. SumFunctionOnSet(f, A \cup C) = SumFunctionOnSet(f, A) + SumFunctionOnSet(f, C)
  <2> HIDE DEF f, C
  <2> QED BY <1>1, <1>2, SumUnion
<1>4. SumFunctionOnSet(f, C) \in Nat /\ SumFunctionOnSet(f, A) \in Nat
  <2> HIDE DEF f, C
  <2> QED BY <1>1, <1>2, SumNat
<1>5. Remaining(A) = SumFunctionOnSet(f, A) /\ Remaining(B) = SumFunctionOnSet(f, A \cup C)
  BY <1>1 DEF Remaining
<1>6. QED
  <2> HIDE DEF f, C
  <2> QED BY <1>3, <1>4, <1>5

\* Among finitely many lots there is one that FEFO puts last.
LEMMA LastLot ==
  ASSUME TypeOK, NEW v \in SUBSET DOMAIN lots, v # {}
  PROVE  \E z \in v : \A k \in v \ {z} : Precedes(k, z)
<1> DEFINE R == {p \in (DOMAIN lots) \X (DOMAIN lots) : Precedes(p[2], p[1])}
<1>1. IsFiniteSet(v)
  BY FS_Subset DEF TypeOK
<1>2. \A l, m \in DOMAIN lots : <<l, m>> \in R <=> Precedes(m, l)
  OBVIOUS
<1>3. \A l, m \in v : l # m => <<l, m>> \in R \/ <<m, l>> \in R
  BY <1>2, PrecedesTotal
<1>4. \A l, m, k \in v : <<l, m>> \in R /\ <<m, k>> \in R /\ l # k => <<l, k>> \in R
  BY <1>2, PrecedesTotal
<1>5. \E z \in v : \A k \in v \ {z} : <<z, k>> \in R
  <2> HIDE DEF R
  <2> QED BY <1>1, <1>3, <1>4, FirstElement
<1>6. QED
  BY <1>2, <1>5

\* One lot more, behind all others, leaves what the plan takes from these and
\* adds what they do not cover.
LEMMA PlanWithLast ==
  ASSUME TypeOK, NEW w \in SUBSET DOMAIN lots, NEW z \in DOMAIN lots, z \notin w,
         \A k \in w : Precedes(k, z),
         NEW amount \in Int
  PROVE  LET P == SpendPlan(w \cup {z}, amount)
             Q == SpendPlan(w, amount)
         IN  IF Remaining(w) < amount
             THEN /\ DOMAIN P = DOMAIN Q \cup {z} /\ z \notin DOMAIN Q
                  /\ \A k \in DOMAIN Q : P[k] = Q[k]
                  /\ P[z] = IF lots[z].remaining <= amount - Remaining(w)
                            THEN lots[z].remaining ELSE amount - Remaining(w)
             ELSE P = Q
<1> DEFINE v == w \cup {z}
<1>1. \A k \in w : {m \in v : Precedes(m, k)} = {m \in w : Precedes(m, k)}
  BY PrecedesStrict
<1>2. {m \in v : Precedes(m, z)} = w
  BY PrecedesStrict
<1>3. \A k \in w : Ahead(v, k) = Ahead(w, k)
  BY <1>1 DEF Ahead
<1>4. Ahead(v, z) = Remaining(w)
  BY <1>2 DEF Ahead
<1> HIDE DEF v
<1>5. v = w \cup {z}
  BY DEF v
<1>6. CASE Remaining(w) < amount
  <2>1. {k \in v : Ahead(v, k) < amount} = {k \in w : Ahead(w, k) < amount} \cup {z}
    BY <1>3, <1>4, <1>5, <1>6
  <2>2. QED
    BY <1>3, <1>4, <1>5, <1>6, <2>1 DEF SpendPlan
<1>7. CASE ~ (Remaining(w) < amount)
  <2>1. {k \in v : Ahead(v, k) < amount} = {k \in w : Ahead(w, k) < amount}
    BY <1>3, <1>4, <1>5, <1>7
  <2>2. SpendPlan(v, amount) = SpendPlan(w, amount)
    BY <1>3, <2>1 DEF SpendPlan
  <2>3. QED
    BY <1>5, <1>7, <2>2
<1>8. QED
  BY <1>6, <1>7

\* A plan is made of finitely many integers.
LEMMA SpendPlanType ==
  ASSUME TypeOK, NEW w \in SUBSET DOMAIN lots, NEW amount \in Int
  PROVE  LET Q == SpendPlan(w, amount)
         IN  DOMAIN Q \subseteq w /\ IsFiniteSet(DOMAIN Q) /\ \A k \in DOMAIN Q : Q[k] \in Int
<1>1. \A k \in w : Ahead(w, k) \in Int /\ lots[k].remaining \in Int
  BY RemainingInt DEF Ahead, TypeOK, Lot
<1>2. DOMAIN SpendPlan(w, amount) \subseteq w
  BY DEF SpendPlan
<1>3. IsFiniteSet(DOMAIN SpendPlan(w, amount))
  BY <1>2, FS_Subset DEF TypeOK
<1>4. \A k \in DOMAIN SpendPlan(w, amount) : SpendPlan(w, amount)[k] \in Int
  BY <1>1 DEF SpendPlan
<1>5. QED
  BY <1>2, <1>3, <1>4

\* The planning loop takes all that is asked for, or all there is.
LEMMA PlanSum ==
  ASSUME TypeOK, NEW C \in SUBSET DOMAIN lots, \A l \in C : lots[l].remaining > 0,
         NEW amount \in Int, amount > 0
  PROVE  SumFunction(SpendPlan(C, amount)) = IF Remaining(C) <= amount THEN Remaining(C) ELSE amount
<1> DEFINE Good(u) == SumFunction(SpendPlan(u, amount))
                         = IF Remaining(u) <= amount THEN Remaining(u) ELSE amount
           Bad == {u \in SUBSET C : ~ Good(u)}
<1>1. SUFFICES ASSUME Bad # {} PROVE FALSE
  OBVIOUS
<1>2. Bad \subseteq FiniteSubsetsOf(C)
  <2>1. IsFiniteSet(C)
    BY FS_Subset DEF TypeOK
  <2>2. QED
    BY <2>1, FS_Subset DEF FiniteSubsetsOf
<1>3. PICK v \in Bad : \A y \in Bad : ~ (y \subseteq v /\ y # v)
  <2> HIDE DEF Bad
  <2> QED BY <1>1, <1>2, MinimalFiniteSet
<1>4. v \subseteq C /\ ~ Good(v)
  BY <1>3
<1>5. v # {}
  <2>1. DOMAIN SpendPlan({}, amount) = {}
    BY DEF SpendPlan
  <2>2. SumFunction(SpendPlan({}, amount)) = 0
    BY <2>1, SumOfFunction, SumEmpty
  <2>3. Remaining({}) = 0
    BY SumEmpty DEF Remaining
  <2>4. QED
    BY <1>4, <2>2, <2>3
<1>6. PICK z \in v : \A k \in v \ {z} : Precedes(k, z)
  BY <1>4, <1>5, LastLot
<1> DEFINE w == v \ {z}
           P == SpendPlan(v, amount)
           Q == SpendPlan(w, amount)
<1>7. Good(w)
  <2>1. w \in SUBSET C /\ w \subseteq v /\ w # v
    BY <1>4, <1>6
  <2>2. w \notin Bad
    <3> HIDE DEF Bad, w
    <3> QED BY <1>3, <2>1
  <2>3. QED
    <3> HIDE DEF Good
    <3> QED BY <2>1, <2>2
<1>8. /\ w \subseteq DOMAIN lots /\ z \in DOMAIN lots /\ z \notin w /\ v = w \cup {z}
      /\ \A k \in w : Precedes(k, z)
  BY <1>4, <1>6
<1>9. Remaining(v) = lots[z].remaining + Remaining(w)
  <2> HIDE DEF w
  <2> QED BY <1>8, RemainingWith
<1>10. /\ Remaining(w) \in Int /\ lots[z].remaining \in Int /\ lots[z].remaining > 0
  <2>1. lots[z].remaining > 0
    BY <1>4, <1>6
  <2> HIDE DEF w
  <2>2. QED
    BY <1>8, <2>1, RemainingInt DEF TypeOK, Lot
<1> HIDE DEF w
<1>11. IF Remaining(w) < amount
       THEN /\ DOMAIN P = DOMAIN Q \cup {z} /\ z \notin DOMAIN Q
            /\ \A k \in DOMAIN Q : P[k] = Q[k]
            /\ P[z] = IF lots[z].remaining <= amount - Remaining(w)
                      THEN lots[z].remaining ELSE amount - Remaining(w)
       ELSE P = Q
  BY <1>8, PlanWithLast
<1>12. IsFiniteSet(DOMAIN Q) /\ \A k \in DOMAIN Q : Q[k] \in Int
  BY <1>8, SpendPlanType
<1>13. SumFunction(Q) = IF Remaining(w) <= amount THEN Remaining(w) ELSE amount
  BY <1>7
<1> HIDE DEF P, Q
<1>14. CASE Remaining(w) < amount
  <2>1. P[z] \in Int
    BY <1>10, <1>11, <1>14
  <2>2. SumFunction(P) = P[z] + SumFunction(Q)
    BY <1>11, <1>12, <1>14, <2>1, SumExtended
  <2>3. SumFunction(P) = IF Remaining(v) <= amount THEN Remaining(v) ELSE amount
    BY <1>9, <1>10, <1>11, <1>13, <1>14, <2>1, <2>2
  <2>4. QED
    BY <1>4, <2>3 DEF P
<1>15. CASE ~ (Remaining(w) < amount)
  <2>1. SumFunction(P) = IF Remaining(v) <= amount THEN Remaining(v) ELSE amount
    BY <1>9, <1>10, <1>11, <1>13, <1>15
  <2>2. QED
    BY <1>4, <2>1 DEF P
<1>16. QED
  BY <1>14, <1>15
\* What identifies a lot to spends and sweeps: it never changes.
Terms(lot) == [tenant |-> lot.tenant, account |-> lot.account, expiresAt |-> lot.expiresAt,
               createdAt |-> lot.createdAt, original |-> lot.original]

\* A lot belongs to the tenant of its account.
LotsOwned == \A l \in DOMAIN lots : Owns(lots[l].tenant, lots[l].account)

\* No step takes a lot away or changes its terms, and a new lot is owned.
LEMMA LotsKeepTerms ==
  ASSUME Typed, ReversalIntegrity, LotsOK, [Next]_vars
  PROVE  /\ \A l \in DOMAIN lots : l \in DOMAIN lots' /\ Terms(lots'[l]) = Terms(lots[l])
         /\ \A l \in DOMAIN lots' \ DOMAIN lots : Owns(lots'[l].tenant, lots'[l].account)
<1>1. TypeOK
  BY DEF Typed
<1>2. \A l \in DOMAIN lots : lots[l] \in Lot
  BY <1>1 DEF TypeOK
<1>3. CASE UNCHANGED lots
  BY <1>3
<1>4. ASSUME NEW in \in PostInputs, PostVerdict(in) = "OK", PostAccepted(in)
      PROVE  /\ \A l \in DOMAIN lots : l \in DOMAIN lots' /\ Terms(lots'[l]) = Terms(lots[l])
             /\ \A l \in DOMAIN lots' \ DOMAIN lots : Owns(lots'[l].tenant, lots'[l].account)
  <2> DEFINE tx == Len(transactions) + 1
  <2>1. /\ InputVerdict(in) = "OK"
        /\ MovementVerdict(in.tenant, EntriesOf(in), "TX_SUM_NOT_ZERO") = "OK"
    BY <1>4 DEF PostVerdict
  <2>2. lots' = LotsAfterPost(in, tx)
    BY <1>1, <1>4, <2>1, PostRecords
  <2>3. \A i \in DOMAIN EntriesOf(in) : Owns(in.tenant, EntriesOf(in)[i].account)
    BY <2>1, VerdictAllows
  <2>4. LotsGranted
    BY DEF LotsOK
  <2>5. /\ DOMAIN lots' = DOMAIN lots \cup Granted(in, tx)
        /\ \A l \in DOMAIN lots :
              /\ l \in DOMAIN PlanOf(in) =>
                    lots'[l] = [lots[l] EXCEPT !.remaining = lots[l].remaining - PlanOf(in)[l],
                                               !.status = StatusFor(lots[l].remaining - PlanOf(in)[l])]
              /\ l \notin DOMAIN PlanOf(in) => lots'[l] = lots[l]
        /\ \A l \in Granted(in, tx) :
              lots'[l] = NewLot(in, l[2]) /\ in.txType # "SPEND" /\ l[2] \in DOMAIN in.entries
    <3> HIDE DEF tx
    <3> QED BY <1>1, <2>1, <2>2, <2>4, PostedLots DEF tx
  <2>6. \A l \in Granted(in, tx) : Owns(lots'[l].tenant, lots'[l].account)
    <3> SUFFICES ASSUME NEW l \in Granted(in, tx) PROVE Owns(lots'[l].tenant, lots'[l].account)
      OBVIOUS
    <3>1. lots'[l].tenant = in.tenant /\ lots'[l].account = in.entries[l[2]].account
      <4>1. lots'[l] = NewLot(in, l[2])
        BY <2>5
      <4>2. QED
        BY <4>1 DEF NewLot
    <3>2. l[2] \in DOMAIN EntriesOf(in) /\ EntriesOf(in)[l[2]].account = in.entries[l[2]].account
      BY <2>5 DEF EntriesOf
    <3>3. QED
      BY <2>3, <3>1, <3>2
  <2>7. \A l \in DOMAIN lots : Terms(lots'[l]) = Terms(lots[l])
    <3> SUFFICES ASSUME NEW l \in DOMAIN lots PROVE Terms(lots'[l]) = Terms(lots[l])
      OBVIOUS
    <3>1. CASE l \in DOMAIN PlanOf(in)
      <4> DEFINE left == lots[l].remaining - PlanOf(in)[l]
      <4>1. lots'[l] = [lots[l] EXCEPT !.remaining = left, !.status = StatusFor(left)]
        BY <2>5, <3>1
      <4>2. QED
        <5> HIDE DEF left
        <5> QED BY <1>2, <4>1 DEF Lot, Terms
    <3>2. CASE l \notin DOMAIN PlanOf(in)
      BY <2>5, <3>2
    <3>3. QED
      BY <3>1, <3>2
  <2>8. QED
    <3> HIDE DEF tx
    <3> QED BY <2>5, <2>6, <2>7
<1>5. ASSUME NEW tenant \in Tenants, NEW src \in DOMAIN transactions, NEW actor,
             src \notin DOMAIN reversalBySourceTxId, ReversalVerdict(tenant, src) = "OK",
             ReversalAccepted(tenant, src, actor)
      PROVE  DOMAIN lots' = DOMAIN lots /\ \A l \in DOMAIN lots : Terms(lots'[l]) = Terms(lots[l])
  <2>1. lots' = LotsAfterReversal(tenant, src)
    BY <1>1, <1>5, ReversalRecords
  <2>2. CASE transactions[src].txType = "EARN"
    <3>1. lots' = [l \in DOMAIN lots |-> IF l \in LotsGrantedBy(tenant, src)
                                         THEN [lots[l] EXCEPT !.remaining = 0, !.status = "CANCELLED"]
                                         ELSE lots[l]]
      BY <2>1, <2>2 DEF LotsAfterReversal
    <3>2. QED
      BY <1>2, <3>1 DEF Lot, Terms
  <2>3. CASE transactions[src].txType = "SPEND"
    <3> DEFINE c == consumptionsBySpendTx[src]
    <3>1. lots' = LotsMovedBy(c)
      BY <2>1, <2>3 DEF LotsAfterReversal
    <3> HIDE DEF c
    <3>2. DOMAIN lots' = DOMAIN lots
      BY <3>1 DEF LotsMovedBy
    <3>3. ASSUME NEW l \in DOMAIN lots PROVE Terms(lots'[l]) = Terms(lots[l])
      <4> DEFINE left == lots[l].remaining + c[l]
      <4>1. lots'[l] = lots[l] \/ lots'[l] = [lots[l] EXCEPT !.remaining = left, !.status = StatusFor(left)]
        BY <3>1 DEF LotsMovedBy
      <4>2. QED
        <5> HIDE DEF left
        <5> QED BY <1>2, <4>1 DEF Lot, Terms
    <3>4. QED
      BY <3>2, <3>3
  <2>4. CASE transactions[src].txType \notin {"EARN", "SPEND"}
    BY <2>1, <2>4 DEF LotsAfterReversal
  <2>5. QED
    BY <2>2, <2>3, <2>4
<1>6. ASSUME ExpireMark
      PROVE  DOMAIN lots' = DOMAIN lots /\ \A l \in DOMAIN lots : Terms(lots'[l]) = Terms(lots[l])
  <2> DEFINE p == batch.posted.lot
  <2>1. lots' = [lots EXCEPT ![p].remaining = 0, ![p].status = "EXPIRED"]
    BY <1>6 DEF ExpireMark
  <2>2. QED
    <3> HIDE DEF p
    <3> QED BY <1>2, <2>1 DEF Lot, Terms
<1>7. CASE ExpirePost
  BY <1>3, <1>7 DEF ExpirePost
<1>8. QED
  BY <1>1, <1>3, <1>4, <1>5, <1>6, <1>7, StepCases DEF ledger

\* Every step keeps lots with the tenant of their account.
LEMMA OwnedStep ==
  ASSUME Typed, ReversalIntegrity, LotsOK, LotsOwned, [Next]_vars
  PROVE  LotsOwned'
<1>1. TypeOK
  BY DEF Typed
<1>2. \A a \in DOMAIN accounts : a \in DOMAIN accounts' /\ accounts'[a] = accounts[a]
  <2>1. CASE UNCHANGED accounts
    BY <2>1
  <2>2. ASSUME NEW in, accounts' = Append(accounts, NewAccount(in))
        PROVE  \A a \in DOMAIN accounts : a \in DOMAIN accounts' /\ accounts'[a] = accounts[a]
    BY <1>1, <2>2, LenProperties DEF TypeOK
  <2>3. QED
    BY <2>1, <2>2, StepMoves DEF Moved
<1>3. ASSUME NEW l \in DOMAIN lots'
      PROVE  /\ lots'[l].account \in DOMAIN accounts'
             /\ accounts'[lots'[l].account].tenant = lots'[l].tenant
  <2>1. Owns(lots'[l].tenant, lots'[l].account)
    <3>1. CASE l \in DOMAIN lots
      <4>1. lots'[l].tenant = lots[l].tenant /\ lots'[l].account = lots[l].account
        BY <3>1, LotsKeepTerms DEF Terms
      <4>2. QED
        BY <3>1, <4>1 DEF LotsOwned
    <3>2. CASE l \notin DOMAIN lots
      BY <3>2, LotsKeepTerms
    <3>3. QED
      BY <3>1, <3>2
  <2>2. QED
    BY <1>2, <2>1 DEF Owns
<1>4. QED
  BY <1>3 DEF LotsOwned, Owns

\* What a step that records a SPEND does.
LEMMA FefoStep ==
  ASSUME Typed, ReversalIntegrity, LotsOK, LotsOwned, [Next]_vars,
         NEW tx, tx = Len(transactions'),
         tx > Len(transactions), transactions'[tx].txType = "SPEND"
  PROVE  /\ SumFunction(consumptionsBySpendTx'[tx]) = entriesByTxId'[tx][2].amount
         /\ \A l \in DOMAIN consumptionsBySpendTx'[tx] :
              /\ lots[l].account = entriesByTxId'[tx][1].account
              /\ lots[l].expiresAt = Null \/ lots[l].expiresAt > clock
              /\ \A m \in DOMAIN lots :
                    /\ lots[m].account = lots[l].account
                    /\ lots[m].expiresAt # Null
                    /\ lots[m].expiresAt > clock
                    /\ lots[l].expiresAt # Null => lots[m].expiresAt < lots[l].expiresAt
                    => lots'[m].remaining = 0
<1>1. TypeOK
  BY DEF Typed
<1>2. Len(transactions) \in Nat /\ transactions \in Seq(TransactionRecord)
  BY <1>1, LenProperties DEF TypeOK
<1>3. ~ UNCHANGED transactions
  BY <1>2
<1>4. ASSUME NEW tenant \in Tenants, NEW src \in DOMAIN transactions, NEW actor,
             src \notin DOMAIN reversalBySourceTxId, ReversalAccepted(tenant, src, actor)
      PROVE  FALSE
  <2> DEFINE rec == Transaction(tenant, "REVERSAL", actor, Null, src)
  <2>1. transactions' = Append([transactions EXCEPT ![src].status = "REVERSED"], rec)
    BY <1>1, <1>4, ReversalRecords
  <2>2. /\ DOMAIN transactions' = DOMAIN transactions \cup {Len(transactions) + 1}
        /\ transactions'[Len(transactions) + 1] = rec
    <3> HIDE DEF rec
    <3> QED BY <1>1, <1>4, <2>1, RecordedFields
  <2>3. transactions' \in Seq(TransactionRecord)
    BY TypeStep DEF TypeOK
  <2>4. tx = Len(transactions) + 1
    <3>1. /\ DOMAIN transactions' = 1 .. tx /\ tx \in Nat
          /\ DOMAIN transactions = 1 .. Len(transactions)
      BY <1>2, <2>3, LenProperties
    <3>2. tx \in DOMAIN transactions'
      BY <1>2, <3>1
    <3>3. QED
      BY <1>2, <2>2, <3>1, <3>2
  <2>5. QED
    BY <2>2, <2>4 DEF Transaction
<1>5. ~ ExpirePost
  <2> SUFFICES ASSUME ExpirePost PROVE FALSE
    OBVIOUS
  <2> DEFINE rec == Transaction(batch.tenant, "EXPIRE", Null, Null, Null)
  <2>1. transactions' = Append(transactions, rec)
    BY DEF ExpirePost
  <2>2. tx = Len(transactions) + 1 /\ transactions'[tx] = rec
    <3> HIDE DEF rec
    <3> QED BY <1>2, <2>1
  <2>3. QED
    BY <2>2 DEF Transaction
<1>6. PICK in \in PostInputs : PostVerdict(in) = "OK" /\ PostAccepted(in)
  BY <1>1, <1>3, <1>4, <1>5, StepCases DEF ledger, journal, ExpireMark
<1> DEFINE a == in.spend.account
           amount == in.spend.amount
           C == CandidateLots(in.tenant, a)
<1>7. InputVerdict(in) = "OK"
  BY <1>6 DEF PostVerdict
<1>8. tx = Len(transactions) + 1 /\ in.txType = "SPEND"
  <2> DEFINE rec == Transaction(in.tenant, in.txType, in.actor, TrimmedKey(in.key), Null)
  <2>1. transactions' = Append(transactions, rec)
    BY <1>1, <1>6, <1>7, PostRecords
  <2>2. tx = Len(transactions) + 1 /\ transactions'[tx] = rec
    <3> HIDE DEF rec
    <3> QED BY <1>2, <2>1
  <2>3. QED
    BY <2>2 DEF Transaction
<1>9. /\ lots' = LotsAfterPost(in, tx)
      /\ consumptionsBySpendTx'[tx] = PlanOf(in)
      /\ entriesByTxId' = Append(entriesByTxId, EntriesOf(in))
  BY <1>1, <1>6, <1>7, <1>8, PostRecords DEF Put
<1>10. entriesByTxId'[tx] = EntriesOf(in)
  BY <1>1, <1>8, <1>9, LenProperties DEF TypeOK
<1>11. /\ entriesByTxId'[tx][1].account = a
       /\ entriesByTxId'[tx][2].amount = amount
  BY <1>8, <1>10 DEF EntriesOf
<1>12. /\ amount \in Int /\ amount > 0 /\ Owns(in.tenant, a)
       /\ ~ (Remaining(C) < amount)
  BY <1>7, <1>8, InputAssumption DEF InputVerdict, SpendVerdict, PostInput
<1>13. C \subseteq DOMAIN lots /\ \A l \in C : lots[l].remaining > 0
  BY DEF CandidateLots
<1>14. PlanOf(in) = SpendPlan(C, amount)
  BY <1>8 DEF PlanOf
<1>15. Remaining(C) \in Int /\ \A l \in C : Ahead(C, l) \in Int
  <2> HIDE DEF C
  <2> QED BY <1>1, <1>13, RemainingInt DEF Ahead
<1>16. SumFunction(PlanOf(in)) = amount
  <2> HIDE DEF C, amount
  <2>1. SumFunction(SpendPlan(C, amount)) = IF Remaining(C) <= amount THEN Remaining(C) ELSE amount
    BY <1>1, <1>12, <1>13, PlanSum
  <2>2. QED
    BY <1>12, <1>14, <1>15, <2>1
<1>17. ASSUME NEW l \in DOMAIN PlanOf(in)
       PROVE  l \in C /\ Ahead(C, l) < amount
  <2> HIDE DEF C, amount
  <2> QED BY <1>14 DEF SpendPlan
<1>18. ASSUME NEW l \in DOMAIN PlanOf(in), NEW m \in DOMAIN lots,
              lots[m].account = lots[l].account,
              lots[m].expiresAt # Null,
              lots[m].expiresAt > clock,
              lots[l].expiresAt # Null => lots[m].expiresAt < lots[l].expiresAt
       PROVE  lots'[m].remaining = 0
  <2>1. l \in C /\ l \in DOMAIN lots /\ Ahead(C, l) < amount /\ lots[l].account = a
    BY <1>17 DEF CandidateLots
  <2>2. lots[m].tenant = in.tenant
    BY <1>12, <1>18, <2>1 DEF LotsOwned, Owns
  <2>3. /\ LotSound(m) /\ lots[m].remaining \in Int
    BY <1>1, SoundLot
  <2>4. LotsGranted
    BY DEF LotsOK
  <2>5. /\ m \in DOMAIN PlanOf(in) =>
              lots'[m] = [lots[m] EXCEPT !.remaining = lots[m].remaining - PlanOf(in)[m],
                                         !.status = StatusFor(lots[m].remaining - PlanOf(in)[m])]
        /\ m \notin DOMAIN PlanOf(in) => lots'[m] = lots[m]
    BY <1>1, <1>7, <1>8, <1>9, <2>4, PostedLots
  <2>6. CASE m \in C
    <3>1. Precedes(m, l)
      BY <1>18 DEF Precedes, ExpiresBefore
    <3> DEFINE before == {k \in C : Precedes(k, m)}
               ahead == {k \in C : Precedes(k, l)}
    <3>2. m \notin before /\ before \cup {m} \subseteq ahead /\ ahead \subseteq DOMAIN lots
      <4>1. m \notin before
        BY <1>1, PrecedesStrict
      <4>2. before \subseteq ahead
        <5> SUFFICES ASSUME NEW k \in C, Precedes(k, m) PROVE Precedes(k, l)
          OBVIOUS
        <5> HIDE DEF C
        <5> QED BY <1>1, <1>13, <2>1, <3>1, PrecedesTotal
      <4>3. QED
        BY <1>13, <2>6, <3>1, <4>1, <4>2
    <3>3. Ahead(C, m) = Remaining(before) /\ Ahead(C, l) = Remaining(ahead)
      BY DEF Ahead
    <3>4. \A k \in ahead : lots[k].remaining >= 0
      <4> SUFFICES ASSUME NEW k \in C PROVE lots[k].remaining >= 0
        OBVIOUS
      <4>1. lots[k].remaining > 0 /\ k \in DOMAIN lots
        BY <1>13
      <4>2. QED
        BY <1>1, <4>1 DEF TypeOK, Lot
    <3> HIDE DEF before, ahead, C
    <3>5. Remaining(before \cup {m}) = lots[m].remaining + Remaining(before)
      BY <1>1, <3>2, RemainingWith
    <3>6. Remaining(before \cup {m}) <= Remaining(ahead)
      BY <1>1, <3>2, <3>4, RemainingMonotone
    <3>7. Remaining(before) \in Int /\ Remaining(ahead) \in Int
      BY <1>1, <3>2, RemainingInt
    <3>8. lots[m].remaining > 0
      BY <1>13, <2>6
    <3> HIDE DEF amount
    <3>9. Ahead(C, m) < amount /\ lots[m].remaining <= amount - Ahead(C, m)
      BY <1>12, <2>1, <2>3, <3>3, <3>5, <3>6, <3>7, <3>8
    <3>10. m \in DOMAIN PlanOf(in) /\ PlanOf(in)[m] = lots[m].remaining
      BY <1>14, <2>6, <3>9 DEF SpendPlan
    <3>11. lots'[m].remaining = lots[m].remaining - PlanOf(in)[m]
      <4> DEFINE left == lots[m].remaining - PlanOf(in)[m]
      <4>1. lots'[m] = [lots[m] EXCEPT !.remaining = left, !.status = StatusFor(left)]
        BY <2>5, <3>10
      <4>2. lots[m] \in Lot
        BY <1>1 DEF TypeOK
      <4>3. QED
        <5> HIDE DEF left
        <5>1. lots'[m].remaining = left
          BY <4>1, <4>2 DEF Lot
        <5> QED BY <5>1 DEF left
    <3>12. QED
      BY <2>3, <3>10, <3>11
  <2>7. CASE m \notin C
    <3>1. lots[m].status # "ACTIVE" \/ ~ (lots[m].remaining > 0)
      BY <1>18, <2>1, <2>2, <2>7 DEF CandidateLots
    <3>2. lots[m].remaining = 0
      BY <2>3, <3>1 DEF LotSound
    <3>3. m \notin DOMAIN PlanOf(in)
      BY <1>17, <2>7
    <3>4. QED
      BY <2>5, <3>2, <3>3
  <2>8. QED
    BY <2>6, <2>7
<1>19. \A l \in DOMAIN PlanOf(in) : /\ lots[l].account = a
                                    /\ lots[l].expiresAt = Null \/ lots[l].expiresAt > clock
  BY <1>17 DEF CandidateLots
<1>20. QED
  <2> HIDE DEF a, amount, C
  <2> QED BY <1>9, <1>11, <1>16, <1>18, <1>19

\* A spend takes from a lot only when those of the account that expire earlier
\* are used up, nothing that has expired, and in total what it debits, for any
\* lots, expiries, clocks and amounts.
THEOREM SpendsTakeEarliest == Spec => SpendsAreFefo
<1>1. Init => LotsOwned
  BY DEF Init, LotsOwned
<1>2. Typed /\ ReversalIntegrity /\ LotsOK /\ LotsOwned /\ [Next]_vars => LotsOwned'
  BY OwnedStep
<1> DEFINE Fefo == LET tx == Len(transactions')
                       taken == consumptionsBySpendTx'[tx]
                   IN  (tx > Len(transactions) /\ transactions'[tx].txType = "SPEND") =>
                       /\ SumFunction(taken) = entriesByTxId'[tx][2].amount
                       /\ \A l \in DOMAIN taken :
                            /\ lots[l].account = entriesByTxId'[tx][1].account
                            /\ lots[l].expiresAt = Null \/ lots[l].expiresAt > clock
                            /\ \A m \in DOMAIN lots :
                                  /\ lots[m].account = lots[l].account
                                  /\ lots[m].expiresAt # Null
                                  /\ lots[m].expiresAt > clock
                                  /\ lots[l].expiresAt # Null => lots[m].expiresAt < lots[l].expiresAt
                                  => lots'[m].remaining = 0
<1>3. Typed /\ ReversalIntegrity /\ LotsOK /\ LotsOwned /\ [Next]_vars => [Fefo]_vars
  BY FefoStep
<1>4. QED
  BY <1>1, <1>2, <1>3, AlwaysTyped, ReversalsAreSound, AssertionsNeverFail, PTL DEF Spec, SpendsAreFefo


-----------------------------------------------------------------------------
(* Balances are journal sums.                                              *)

\* One transaction more adds its movement to what was posted on an account.
LEMMA PostedMore ==
  ASSUME TypeOK, NEW e \in Seq(Entry), NEW a,
         entriesByTxId' = Append(entriesByTxId, e)
  PROVE  Posted(a)' = Posted(a) + Delta(e, a)
<1> DEFINE n == Len(entriesByTxId) + 1
           f == [tx \in DOMAIN entriesByTxId |-> Delta(entriesByTxId[tx], a)]
           g == [tx \in DOMAIN entriesByTxId' |-> Delta(entriesByTxId'[tx], a)]
<1>1. /\ DOMAIN entriesByTxId' = DOMAIN entriesByTxId \cup {n}
      /\ n \notin DOMAIN entriesByTxId
      /\ entriesByTxId'[n] = e
      /\ \A tx \in DOMAIN entriesByTxId : entriesByTxId'[tx] = entriesByTxId[tx]
  BY LenProperties DEF TypeOK
<1>2. \A tx \in DOMAIN entriesByTxId : Delta(entriesByTxId[tx], a) \in Int
  BY RecordedEntries, DeltaInt
<1>3. Delta(e, a) \in Int
  BY DeltaInt
<1>4. /\ IsFiniteSet(DOMAIN f) /\ n \notin DOMAIN f /\ DOMAIN g = DOMAIN f \cup {n}
      /\ \A tx \in DOMAIN f : g[tx] = f[tx] /\ f[tx] \in Int
      /\ g[n] = Delta(e, a) /\ g[n] \in Int
  BY <1>1, <1>2, <1>3, RecordedEntries
<1>5. SumFunction(g) = g[n] + SumFunction(f)
  <2> HIDE DEF f, g, n
  <2> QED BY <1>4, SumExtended
<1>6. SumFunction(f) \in Int
  <2>1. SumFunction(f) = SumFunctionOnSet(f, DOMAIN f)
    BY SumOfFunction
  <2>2. SumFunctionOnSet(f, DOMAIN f) \in Int
    <3> HIDE DEF f
    <3> QED BY <1>4, SumInt
  <2>3. QED
    BY <2>1, <2>2
<1>7. Posted(a)' = SumFunction(g) /\ Posted(a) = SumFunction(f)
  BY DEF Posted
<1>8. QED
  <2> HIDE DEF f, g, n
  <2> QED BY <1>3, <1>4, <1>5, <1>6, <1>7

\* Nothing was posted on an account that does not exist yet.
LEMMA NothingPosted ==
  ASSUME TypeOK, MovementsOK, NEW a, a \notin DOMAIN accounts
  PROVE  Posted(a) = 0
<1> DEFINE f == [tx \in DOMAIN entriesByTxId |-> Delta(entriesByTxId[tx], a)]
<1>1. \A tx \in DOMAIN entriesByTxId : Delta(entriesByTxId[tx], a) = 0
  <2> SUFFICES ASSUME NEW tx \in DOMAIN entriesByTxId
               PROVE  Delta(entriesByTxId[tx], a) = 0
    OBVIOUS
  <2>1. \A i \in DOMAIN entriesByTxId[tx] : entriesByTxId[tx][i].account # a
    BY DEF MovementsOK
  <2>2. QED
    BY <2>1, DeltaOfOthers
<1>2. IsFiniteSet(DOMAIN f) /\ \A tx \in DOMAIN f : f[tx] = 0
  BY <1>1, RecordedEntries
<1>3. SumFunctionOnSet(f, DOMAIN f) = 0
  <2> HIDE DEF f
  <2> QED BY <1>2, SumZero
<1>4. QED
  BY <1>3, SumOfFunction DEF Posted

\* Every step keeps balances equal to journal sums.
LEMMA BalanceStep ==
  ASSUME Typed, ReversalIntegrity, LotsOK, MovementsOK, BalanceIsJournalSum, [Next]_vars
  PROVE  BalanceIsJournalSum'
<1>1. TypeOK
  BY DEF Typed
<1>2. CASE UNCHANGED <<accounts, balances, entriesByTxId>>
  BY <1>2 DEF BalanceIsJournalSum, Posted
<1>3. ASSUME NEW in \in AccountInputs,
             accounts' = Append(accounts, NewAccount(in)),
             balances' = Put(balances, Len(accounts) + 1, 0),
             UNCHANGED entriesByTxId
      PROVE  BalanceIsJournalSum'
  <2> DEFINE n == Len(accounts) + 1
  <2>1. DOMAIN accounts' = DOMAIN accounts \cup {n} /\ n \notin DOMAIN accounts
    BY <1>1, <1>3, LenProperties DEF TypeOK
  <2>2. DOMAIN balances = DOMAIN accounts
    BY <1>1 DEF TypeOK
  <2>3. \A a : Posted(a)' = Posted(a)
    BY <1>3 DEF Posted
  <2>4. balances'[n] = 0 /\ Posted(n) = 0
    BY <1>1, <1>3, <2>1, NothingPosted DEF Put
  <2>5. \A a \in DOMAIN accounts : balances'[a] = balances[a]
    BY <1>3, <2>1, <2>2 DEF Put
  <2>6. QED
    <3> HIDE DEF n
    <3> QED BY <2>1, <2>3, <2>4, <2>5 DEF BalanceIsJournalSum
<1>4. ASSUME NEW t \in Tenants, NEW e \in Seq(Entry), Moved(t, e)
      PROVE  BalanceIsJournalSum'
  <2>1. \A a : Posted(a)' = Posted(a) + Delta(e, a)
    BY <1>1, <1>4, PostedMore DEF Moved
  <2>2. \A a \in DOMAIN accounts : balances'[a] = balances[a] + Delta(e, a)
    BY <1>1, <1>4 DEF Moved, Applied, TypeOK
  <2>3. QED
    BY <1>4, <2>1, <2>2 DEF BalanceIsJournalSum, Moved
<1>5. QED
  BY <1>2, <1>3, <1>4, StepMoves

\* A balance is the sum of the recorded entries of its account, whatever was
\* posted, reversed or swept, and in the middle of a batch too.
THEOREM BalancesAreJournalSums == Spec => []BalanceIsJournalSum
<1>1. Init => BalanceIsJournalSum
  BY DEF Init, BalanceIsJournalSum
<1>2. /\ Typed /\ ReversalIntegrity /\ LotsOK /\ MovementsOK /\ BalanceIsJournalSum /\ [Next]_vars
      => BalanceIsJournalSum'
  BY BalanceStep
<1>3. QED
  BY <1>1, <1>2, AlwaysTyped, ReversalsAreSound, AssertionsNeverFail, PTL DEF Spec

-----------------------------------------------------------------------------
(* Tenants are closed.                                                     *)

TenantAccounts(t) == {a \in DOMAIN accounts : accounts[a].tenant = t}

\* What a movement adds to the accounts of a set is the sum of its entries on
\* them.
LEMMA DeltasOfGroup ==
  ASSUME NEW e \in Seq(Entry), NEW A, IsFiniteSet(A),
         NEW g, \A a \in A : g[a] = Delta(e, a)
  PROVE  SumFunctionOnSet(g, A) = SumFunctionOnSet(Amounts(e), {i \in DOMAIN e : e[i].account \in A})
<1> DEFINE k == [i \in DOMAIN e |-> e[i].account]
           f == Amounts(e)
<1>1. IsFiniteSet(DOMAIN e)
  BY FiniteIndexes
<1>2. \A i \in DOMAIN e : f[i] \in Int
  <2>1. \A i \in DOMAIN e : e[i] \in Entry
    BY LenProperties, ElementOfSeq
  <2>2. QED
    BY <2>1 DEF Amounts, Entry
<1>3. SumsGroups(g, A, f, DOMAIN e, k)
  <2> SUFFICES ASSUME NEW a \in A
               PROVE  g[a] = SumFunctionOnSet(f, Members(DOMAIN e, k, {a}))
    BY DEF SumsGroups
  <2>1. Members(DOMAIN e, k, {a}) = {i \in DOMAIN e : e[i].account = a}
    BY DEF Members
  <2>2. QED
    BY <2>1 DEF Delta
<1>4. SumFunctionOnSet(g, A) = SumFunctionOnSet(f, Members(DOMAIN e, k, A))
  <2> HIDE DEF f, k
  <2> QED BY <1>1, <1>2, <1>3, SumByGroup
<1>5. Members(DOMAIN e, k, A) = {i \in DOMAIN e : e[i].account \in A}
  BY DEF Members
<1>6. QED
  BY <1>4, <1>5

\* A movement within a tenant leaves the sum of any tenant's balances alone.
LEMMA MovementNetsToZero ==
  ASSUME TypeOK, NEW t, NEW e \in Seq(Entry), Moved(t, e), NEW u
  PROVE  SumFunctionOnSet(balances', TenantAccounts(u)) = SumFunctionOnSet(balances, TenantAccounts(u))
<1> DEFINE A == TenantAccounts(u)
           g == [a \in A |-> Delta(e, a)]
           on == {i \in DOMAIN e : e[i].account \in A}
<1>1. A \subseteq DOMAIN accounts /\ IsFiniteSet(A)
  BY FiniteIndexes DEF TenantAccounts, TypeOK
<1>2. \A a \in A : balances[a] \in Int /\ g[a] \in Int /\ balances'[a] = balances[a] + g[a]
  BY <1>1, DeltaInt DEF TypeOK, Moved, Applied
<1>3. SumFunctionOnSet(balances', A) = SumFunctionOnSet(balances, A) + SumFunctionOnSet(g, A)
  <2> HIDE DEF A, g
  <2> QED BY <1>1, <1>2, SumOfTwo
<1>4. SumFunctionOnSet(g, A) = SumFunctionOnSet(Amounts(e), on)
  <2>1. \A a \in A : g[a] = Delta(e, a)
    OBVIOUS
  <2>2. QED
    <3> HIDE DEF A, g
    <3> QED BY <1>1, <2>1, DeltasOfGroup
<1>5. SumFunctionOnSet(Amounts(e), on) = 0
  <2>1. CASE u = t
    <3>1. on = DOMAIN e /\ DOMAIN Amounts(e) = DOMAIN e
      BY <2>1 DEF Moved, Owns, TenantAccounts, Amounts
    <3>2. Total(e) = SumFunctionOnSet(Amounts(e), DOMAIN e) /\ Total(e) = 0
      BY <3>1, SumOfFunction DEF Total, Moved
    <3>3. QED
      <4> HIDE DEF on
      <4> QED BY <3>1, <3>2
  <2>2. CASE u # t
    <3>1. on = {}
      BY <2>2 DEF Moved, Owns, TenantAccounts
    <3>2. QED
      <4> HIDE DEF on
      <4> QED BY <3>1, SumEmpty
  <2>3. QED
    BY <2>1, <2>2
<1>6. SumFunctionOnSet(balances, A) \in Int
  <2> HIDE DEF A
  <2> QED BY <1>1, <1>2, SumInt
<1>7. QED
  <2> HIDE DEF g, on
  <2> QED BY <1>3, <1>4, <1>5, <1>6

\* Every step keeps the tenants closed.
LEMMA TenantsStep ==
  ASSUME Typed, ReversalIntegrity, LotsOK, TenantsNetToZero, [Next]_vars
  PROVE  TenantsNetToZero'
<1>1. TypeOK
  BY DEF Typed
<1>2. CASE UNCHANGED <<accounts, balances, entriesByTxId>>
  BY <1>2 DEF TenantsNetToZero
<1>3. ASSUME NEW in \in AccountInputs,
             accounts' = Append(accounts, NewAccount(in)),
             balances' = Put(balances, Len(accounts) + 1, 0),
             NEW u \in Tenants
      PROVE  SumFunctionOnSet(balances', TenantAccounts(u)') = 0
  <2> DEFINE n == Len(accounts) + 1
             A == TenantAccounts(u)
  <2>1. /\ DOMAIN accounts' = DOMAIN accounts \cup {n} /\ n \notin DOMAIN accounts
        /\ \A a \in DOMAIN accounts : accounts'[a] = accounts[a]
    BY <1>1, <1>3, LenProperties DEF TypeOK
  <2>2. A \subseteq DOMAIN accounts /\ IsFiniteSet(A) /\ n \notin A
    BY <1>1, <2>1, FiniteIndexes DEF TenantAccounts, TypeOK
  <2>3. \A a \in A : balances[a] \in Int /\ balances'[a] = balances[a]
    BY <1>1, <1>3, <2>1, <2>2 DEF TypeOK, Put
  <2>4. balances'[n] = 0
    BY <1>3 DEF Put
  <2>5. SumFunctionOnSet(balances', A) = 0
    <3>1. SumFunctionOnSet(balances, A) = 0
      BY DEF TenantsNetToZero, TenantAccounts
    <3>2. SumFunctionOnSet(balances', A) = SumFunctionOnSet(balances, A)
      <4> HIDE DEF A
      <4> QED BY <2>2, <2>3, SumAgree
    <3>3. QED
      BY <3>1, <3>2
  <2>6. TenantAccounts(u)' = A \/ TenantAccounts(u)' = A \cup {n}
    BY <2>1 DEF TenantAccounts
  <2>7. SumFunctionOnSet(balances', A \cup {n}) = 0
    <3>1. \A a \in A \cup {n} : balances'[a] \in Int
      BY <2>3, <2>4
    <3>2. SumFunctionOnSet(balances', A \cup {n}) = balances'[n] + SumFunctionOnSet(balances', A)
      <4> HIDE DEF A, n
      <4> QED BY <2>2, <3>1, SumAdd
    <3>3. QED
      BY <2>4, <2>5, <3>2
  <2>8. QED
    BY <2>5, <2>6, <2>7
<1>4. ASSUME NEW t \in Tenants, NEW e \in Seq(Entry), Moved(t, e), NEW u \in Tenants
      PROVE  SumFunctionOnSet(balances', TenantAccounts(u)') = 0
  <2>1. TenantAccounts(u)' = TenantAccounts(u)
    BY <1>4 DEF Moved, TenantAccounts
  <2>2. SumFunctionOnSet(balances, TenantAccounts(u)) = 0
    BY DEF TenantsNetToZero, TenantAccounts
  <2>3. QED
    BY <1>1, <1>4, <2>1, <2>2, MovementNetsToZero
<1>5. CASE \A u \in Tenants : SumFunctionOnSet(balances', TenantAccounts(u)') = 0
  BY <1>5 DEF TenantsNetToZero, TenantAccounts
<1>6. QED
  BY <1>2, <1>3, <1>4, <1>5, StepMoves

\* No points leak between tenants or appear from nowhere: the balances of each
\* tenant sum to zero, with any number of tenants and accounts.
THEOREM TenantsAreClosed == Spec => []TenantsNetToZero
<1>1. Init => TenantsNetToZero
  <2> SUFFICES ASSUME Init, NEW t \in Tenants
               PROVE  SumFunctionOnSet(balances, {a \in DOMAIN accounts : accounts[a].tenant = t}) = 0
    BY DEF TenantsNetToZero
  <2>1. {a \in DOMAIN accounts : accounts[a].tenant = t} = {}
    BY DEF Init
  <2>2. QED
    BY <2>1, SumEmpty
<1>2. Typed /\ ReversalIntegrity /\ LotsOK /\ TenantsNetToZero /\ [Next]_vars => TenantsNetToZero'
  BY TenantsStep
<1>3. QED
  BY <1>1, <1>2, AlwaysTyped, ReversalsAreSound, AssertionsNeverFail, PTL DEF Spec

-----------------------------------------------------------------------------
(* The ledger implements the double-entry ledger of Journal.               *)

Holders == [a \in DOMAIN accounts |->
               [tenant |-> accounts[a].tenant, allowNegative |-> accounts[a].allowNegative]]

\* Holders and balances are as long as the accounts.
LEMMA HoldersType ==
  ASSUME TypeOK
  PROVE  /\ DOMAIN accounts = 1 .. Len(accounts) /\ Len(accounts) \in Nat
         /\ Holders \in Seq([tenant : Tenants, allowNegative : BOOLEAN])
         /\ Len(Holders) = Len(accounts)
         /\ balances \in Seq(Int) /\ Len(balances) = Len(accounts)
<1>1. accounts \in Seq(Account) /\ balances \in [DOMAIN accounts -> Int]
  BY DEF TypeOK
<1>2. DOMAIN accounts = 1 .. Len(accounts) /\ Len(accounts) \in Nat
  BY <1>1, LenProperties
<1>3. \A a \in DOMAIN accounts : accounts[a].tenant \in Tenants /\ accounts[a].allowNegative \in BOOLEAN
  <2>1. \A a \in DOMAIN accounts : accounts[a] \in Account
    BY <1>1, LenProperties, ElementOfSeq
  <2>2. QED
    BY <2>1 DEF Account
<1>4. Holders \in [DOMAIN accounts -> [tenant : Tenants, allowNegative : BOOLEAN]]
  BY <1>3 DEF Holders
<1> DEFINE T == [tenant : Tenants, allowNegative : BOOLEAN]
<1>5. Holders \in Seq(T) /\ Len(Holders) = Len(accounts)
  <2>1. Holders \in [DOMAIN accounts -> T]
    BY <1>4
  <2>2. QED
    <3> HIDE DEF T
    <3> QED BY <1>1, <2>1, FunctionOverIndexes
<1>6. balances \in Seq(Int) /\ Len(balances) = Len(accounts)
  BY <1>1, FunctionOverIndexes
<1>7. QED
  BY <1>2, <1>5, <1>6

\* What the book sums over its lines is what the ledger sums over entries.
LEMMA BookSums ==
  ASSUME NEW e \in Seq(Entry)
  PROVE  /\ Book!Sum(e, DOMAIN e) = Total(e)
         /\ \A a : Book!Sum(e, Book!Lines(e, a)) = Delta(e, a)
<1>1. [i \in DOMAIN e |-> e[i].amount] = Amounts(e) /\ DOMAIN Amounts(e) = DOMAIN e
  BY DEF Amounts
<1>2. SumFunctionOnSet(Amounts(e), DOMAIN e) = Total(e)
  BY <1>1, SumOfFunction DEF Total
<1>3. ASSUME NEW f, NEW I PROVE Book!SumFunctionOnSet(f, I) = SumFunctionOnSet(f, I)
  BY DEF Book!SumFunctionOnSet, Book!FoldFunctionOnSet, Book!MapThenFoldSet,
         SumFunctionOnSet, FoldFunctionOnSet, MapThenFoldSet
<1>4. Book!Sum(e, DOMAIN e) = Total(e)
  BY <1>1, <1>2, <1>3 DEF Book!Sum
<1>5. ASSUME NEW a PROVE Book!Sum(e, Book!Lines(e, a)) = Delta(e, a)
  BY <1>1, <1>3 DEF Book!Sum, Book!Lines, Delta
<1>6. QED
  BY <1>4, <1>5

\* Append as a function.
LEMMA AppendedSeq ==
  ASSUME NEW S, NEW s \in Seq(S), NEW x \in S
  PROVE  Append(s, x) = [i \in 1 .. Len(s) + 1 |-> IF i = Len(s) + 1 THEN x ELSE s[i]]
<1> DEFINE n == Len(s) + 1
           t == Append(s, x)
<1>1. t \in Seq(S) /\ Len(t) = n /\ Len(s) \in Nat
      /\ \A i \in 1 .. Len(s) : t[i] = s[i]
      /\ t[n] = x
  BY AppendProperties, LenProperties
<1>2. t = [i \in 1 .. n |-> t[i]]
  BY <1>1, LenProperties
<1>3. \A i \in 1 .. n : t[i] = IF i = n THEN x ELSE s[i]
  <2>1. \A i \in 1 .. n : i # n => i \in 1 .. Len(s)
    BY <1>1
  <2>2. QED
    BY <1>1, <2>1
<1>4. QED
  BY <1>2, <1>3

\* Opening an account opens a holder.
LEMMA OpeningOpens ==
  ASSUME TypeOK, NEW in \in AccountInputs,
         accounts' = Append(accounts, NewAccount(in)),
         balances' = Put(balances, Len(accounts) + 1, 0),
         UNCHANGED entriesByTxId
  PROVE  \E tenant \in Tenants, allowNegative \in BOOLEAN : Book!Open(tenant, allowNegative)
<1> DEFINE n == Len(accounts) + 1
           new == NewAccount(in)
           one == [tenant |-> new.tenant, allowNegative |-> new.allowNegative]
<1>1. new.tenant \in Tenants /\ new.allowNegative \in BOOLEAN
  BY InputAssumption, NullAssumption DEF AccountInput, NewAccount
<1>2. /\ DOMAIN accounts' = 1 .. n
      /\ \A a \in DOMAIN accounts : accounts'[a] = accounts[a]
      /\ accounts'[n] = new
  BY LenProperties DEF TypeOK
<1>3. Holders' = Append(Holders, one)
  <2>1. Holders' = [a \in 1 .. n |-> [tenant |-> accounts'[a].tenant,
                                      allowNegative |-> accounts'[a].allowNegative]]
    BY <1>2 DEF Holders
  <2>2. Append(Holders, one) = [a \in 1 .. n |-> IF a = n THEN one ELSE Holders[a]]
    BY <1>1, HoldersType, AppendedSeq
  <2>3. \A a \in 1 .. n : a # n => a \in DOMAIN accounts
    BY HoldersType
  <2>4. \A a \in 1 .. n : [tenant |-> accounts'[a].tenant, allowNegative |-> accounts'[a].allowNegative]
                             = IF a = n THEN one ELSE Holders[a]
    BY <1>2, <2>3 DEF Holders
  <2>5. QED
    BY <2>1, <2>2, <2>4
<1>4. balances' = Append(balances, 0)
  <2>1. Append(balances, 0) = [a \in 1 .. n |-> IF a = n THEN 0 ELSE balances[a]]
    BY HoldersType, AppendedSeq
  <2>2. DOMAIN balances \cup {n} = 1 .. n
    BY HoldersType DEF TypeOK
  <2>3. QED
    BY <2>1, <2>2 DEF Put
<1>5. Book!Open(new.tenant, new.allowNegative)
  BY <1>3, <1>4 DEF Book!Open, Holders
<1>6. QED
  BY <1>1, <1>5

\* Applying and recording entries posts one movement.
LEMMA MovingPosts ==
  ASSUME TypeOK, NEW t \in Tenants, NEW e \in Seq(Entry), Moved(t, e)
  PROVE  Book!Extended /\ Book!Post(t, entriesByTxId'[Len(entriesByTxId')])
<1> DEFINE n == Len(entriesByTxId) + 1
<1>1. entriesByTxId \in Seq(Seq(Entry)) /\ Len(entriesByTxId) \in Nat
      /\ DOMAIN entriesByTxId = 1 .. Len(entriesByTxId)
  BY LenProperties DEF TypeOK
<1>2. entriesByTxId' = Append(entriesByTxId, e)
  BY DEF Moved
<1>3. Len(entriesByTxId') = n /\ entriesByTxId'[n] = e
  BY <1>1, <1>2
<1>4. SubSeq(entriesByTxId', 1, Len(entriesByTxId)) = entriesByTxId
  BY <1>1, <1>2
<1>5. Book!Extended
  BY <1>3, <1>4 DEF Book!Extended
<1>6. Book!Sum(e, DOMAIN e) = 0 /\ \A a : Book!Sum(e, Book!Lines(e, a)) = Delta(e, a)
  BY BookSums DEF Moved
<1>7. \A i \in DOMAIN e : e[i].account \in DOMAIN accounts /\ accounts[e[i].account].tenant = t
  BY DEF Moved, Owns
<1>8. balances' = [a \in DOMAIN balances |-> balances[a] + Book!Sum(e, Book!Lines(e, a))]
  BY <1>6 DEF Moved, Applied
<1>9. \A i \in DOMAIN e : accounts[e[i].account].allowNegative \/ balances'[e[i].account] >= 0
  <2> SUFFICES ASSUME NEW i \in DOMAIN e, ~ accounts[e[i].account].allowNegative
               PROVE  balances'[e[i].account] >= 0
    OBVIOUS
  <2> DEFINE a == e[i].account
  <2>1. ~ (balances[a] + Delta(e, a) < 0)
    BY DEF Moved, Overdrawn
  <2>2. balances'[a] = balances[a] + Delta(e, a) /\ balances[a] \in Int
    BY <1>7 DEF Moved, Applied, TypeOK
  <2>3. Delta(e, a) \in Int
    BY DeltaInt
  <2>4. QED
    BY <2>1, <2>2, <2>3
<1>10. UNCHANGED Holders
  BY DEF Moved, Holders
<1>11. \A a \in DOMAIN accounts : /\ Holders[a].tenant = accounts[a].tenant
                                  /\ Holders[a].allowNegative = accounts[a].allowNegative
                                  /\ a \in DOMAIN Holders
  BY DEF Holders
<1>12. Book!Post(t, e)
  BY <1>6, <1>7, <1>8, <1>9, <1>10, <1>11 DEF Book!Post, Holders
<1>13. QED
  BY <1>3, <1>5, <1>12

\* Posting, resending, reversing and sweeping, for any inputs and any number of
\* tenants, are postings of balanced movements within one tenant that overdraw
\* no guarded account; what was posted is never changed or withdrawn.
THEOREM ImplementsJournal == Spec => IsJournal
<1>1. Init => Book!Init
  <2> SUFFICES ASSUME Init PROVE Book!Init
    OBVIOUS
  <2>1. accounts = <<>> /\ balances = <<>> /\ entriesByTxId = <<>>
    BY DEF Init
  <2>2. Holders = <<>>
    BY <2>1 DEF Holders
  <2>3. QED
    BY <2>1, <2>2 DEF Book!Init, Holders
<1>2. Typed /\ ReversalIntegrity /\ LotsOK /\ [Next]_vars => [Book!Next]_(Book!bookVars)
  <2> SUFFICES ASSUME Typed, ReversalIntegrity, LotsOK, [Next]_vars
               PROVE  [Book!Next]_(Book!bookVars)
    OBVIOUS
  <2>1. TypeOK
    BY DEF Typed
  <2>2. CASE UNCHANGED <<accounts, balances, entriesByTxId>>
    BY <2>2 DEF Book!bookVars
  <2>3. ASSUME NEW in \in AccountInputs,
               accounts' = Append(accounts, NewAccount(in)),
               balances' = Put(balances, Len(accounts) + 1, 0),
               UNCHANGED entriesByTxId
        PROVE  Book!Next
    BY <2>1, <2>3, OpeningOpens DEF Book!Next
  <2>4. ASSUME NEW t \in Tenants, NEW e \in Seq(Entry), Moved(t, e)
        PROVE  Book!Next
    BY <2>1, <2>4, MovingPosts DEF Book!Next
  <2>5. QED
    BY <2>2, <2>3, <2>4, StepMoves
<1>3. QED
  BY <1>1, <1>2, AlwaysTyped, ReversalsAreSound, AssertionsNeverFail, PTL DEF Spec, IsJournal, Book!Spec

-----------------------------------------------------------------------------
(* The expiry batch sweeps all that is due.                                *)

\* While a batch runs, whatever is due at its time is among its targets.
DueCovered == batch # Null => DueLots(batch.tenant, batch.now) \subseteq batch.due

\* While a batch holds the mutex, only its own steps touch the ledger.
LEMMA StepInBatch ==
  ASSUME batch # Null, [Next]_vars
  PROVE  UNCHANGED <<ledger, batch>> \/ ExpireStep
BY DEF Next, vars, Tick, CreateAccount, PostTransaction, ReverseTransaction, ExpireBegin

\* Every step keeps what is due among the targets.
LEMMA DueStep ==
  ASSUME TypeOK, DueCovered, [Next]_vars
  PROVE  DueCovered'
<1>1. CASE UNCHANGED <<ledger, batch>>
  BY <1>1 DEF DueCovered, DueLots, ledger
<1>2. CASE batch = Null
  <2>1. ASSUME NEW t \in Tenants, NEW now \in Times, ExpireBegin(t, now)
        PROVE  DueCovered'
    BY <1>2, <2>1 DEF ExpireBegin, Answered, DueCovered, DueLots, ledger
  <2>2. CASE batch' = Null
    BY <2>2 DEF DueCovered
  <2>3. QED
    BY <1>2, <2>1, <2>2 DEF Next, vars, Tick, CreateAccount, PostTransaction, PostAccepted,
       ReverseTransaction, ReversalAccepted, Detail, Answered, ExpireStep, ExpirePost, ExpireAbort,
       ExpireMark, ExpireEnd
<1>3. CASE batch # Null /\ ExpirePost
  <2>1. batch \in Batch
    BY <1>3 DEF TypeOK
  <2>2. /\ lots' = lots
        /\ batch'.tenant = batch.tenant /\ batch'.now = batch.now /\ batch'.due = batch.due
    BY <1>3, <2>1 DEF ExpirePost, Batch
  <2>3. QED
    BY <1>3, <2>2 DEF DueCovered, DueLots
<1>4. CASE batch # Null /\ ExpireMark
  <2>1. batch \in Batch /\ lots \in [DOMAIN lots -> Lot]
    BY <1>4 DEF TypeOK
  <2>2. batch'.tenant = batch.tenant /\ batch'.now = batch.now /\ batch'.due = batch.due
    BY <1>4, <2>1 DEF ExpireMark, Batch
  <2>3. DueLots(batch.tenant, batch.now)' \subseteq DueLots(batch.tenant, batch.now)
    <3> DEFINE p == batch.posted.lot
    <3>1. lots' = [lots EXCEPT ![p].remaining = 0, ![p].status = "EXPIRED"]
      BY <1>4 DEF ExpireMark
    <3>2. DOMAIN lots' = DOMAIN lots /\ \A l \in DOMAIN lots : l # p => lots'[l] = lots[l]
      BY <3>1
    <3>3. p \in DOMAIN lots => lots'[p].status = "EXPIRED"
      BY <2>1, <3>1 DEF Lot
    <3>4. QED
      <4> HIDE DEF p
      <4> QED BY <2>2, <3>2, <3>3 DEF DueLots
  <2>4. QED
    BY <1>4, <2>2, <2>3 DEF DueCovered
<1>5. CASE ExpireAbort \/ ExpireEnd
  BY <1>5 DEF ExpireAbort, ExpireEnd, DueCovered
<1>6. QED
  BY <1>1, <1>2, <1>3, <1>4, <1>5, StepInBatch DEF ExpireStep

\* The first half of a sweep hands the lot to the second half.
LEMMA PostHandsOver ==
  ASSUME Typed, ExpirePost
  PROVE  /\ NextDue \in DOMAIN lots
         /\ batch' \in Batch
         /\ batch'.posted = [tx |-> Len(transactions) + 1, lot |-> NextDue,
                             amount |-> lots[NextDue].remaining]
         /\ batch'.posted # Null
<1> DEFINE p == [tx |-> Len(transactions) + 1, lot |-> NextDue, amount |-> lots[NextDue].remaining]
<1>1. batch \in Batch
  BY DEF Typed, TypeOK, ExpirePost
<1>2. batch' = [batch EXCEPT !.posted = p]
  BY DEF ExpirePost
<1>3. NextDue \in DOMAIN lots
  BY NextDueType DEF ExpirePost, Typed, BatchOK
<1>4. p \in Posting
  BY <1>3, LenProperties DEF Typed, TypeOK, Lot, Posting, TxIds
<1>5. batch' \in Batch /\ batch'.posted = p
  <2> HIDE DEF p
  <2> QED BY <1>1, <1>2, <1>4 DEF Batch
<1>6. p # Null
  <2> HIDE DEF p
  <2> QED BY <1>4, NullAssumption
<1>7. QED
  BY <1>3, <1>5, <1>6

\* The second half leaves the batch running, with nothing posted.
LEMMA MarkHandsBack ==
  ASSUME TypeOK, ExpireMark
  PROVE  batch' \in Batch /\ batch'.posted = Null
<1>1. batch \in Batch
  BY DEF TypeOK, ExpireMark
<1>2. batch' = [batch EXCEPT !.posted = Null]
  BY DEF ExpireMark
<1>3. QED
  BY <1>1, <1>2 DEF Batch

\* A batch that succeeds leaves nothing due at its time.
LEMMA EndLeavesNothing ==
  ASSUME Typed, DueCovered, [Next]_vars,
         batch # Null, batch' = Null, reply'.code = "OK"
  PROVE  DueLots(batch.tenant, batch.now) = {}
<1>1. ExpireStep
  BY StepInBatch
<1>2. batch \in Batch
  BY DEF Typed, TypeOK
<1>3. ~ ExpirePost
  <2> SUFFICES ASSUME ExpirePost PROVE FALSE
    OBVIOUS
  <2>1. batch' \in Batch
    BY PostHandsOver
  <2>2. QED
    BY <2>1, NullAssumption
<1>4. ~ ExpireMark
  <2> SUFFICES ASSUME ExpireMark PROVE FALSE
    OBVIOUS
  <2>1. batch' \in Batch
    BY MarkHandsBack DEF Typed
  <2>2. QED
    BY <2>1, NullAssumption
<1>5. ~ ExpireAbort
  BY DEF ExpireAbort, Answer
<1>6. ExpireEnd
  BY <1>1, <1>3, <1>4, <1>5 DEF ExpireStep
<1>7. QED
  BY <1>6 DEF ExpireEnd, Pending, DueCovered, DueLots

\* A batch that answers OK has left no lot that was due at its time, for any
\* lots and whatever was posted before it.
THEOREM BatchIsThorough == Spec => BatchSweepsAll
<1>1. Init => DueCovered
  BY DEF Init, DueCovered
<1>2. TypeOK /\ DueCovered /\ [Next]_vars => DueCovered'
  BY DueStep
<1>3. Typed /\ DueCovered /\ [Next]_vars
      => [(batch # Null /\ batch' = Null /\ reply'.code = "OK")
             => DueLots(batch.tenant, batch.now) = {}]_vars
  BY EndLeavesNothing
<1>4. QED
  BY <1>1, <1>2, <1>3, AlwaysTyped, TypeCorrect, PTL DEF Spec, BatchSweepsAll

-----------------------------------------------------------------------------
(* The idempotency index.                                                  *)

Keyed == {tx \in DOMAIN transactions : transactions[tx].key # Null}

KeyOf(tx) == IndexKey(transactions[tx].tenant, transactions[tx].actor, transactions[tx].key)

\* The index and the keyed transactions name each other: no two transactions
\* share a key, and no entry is left of what is not recorded.
IndexOK ==
    /\ \A tx \in Keyed : KeyOf(tx) \in DOMAIN idempotencyToTxId /\ idempotencyToTxId[KeyOf(tx)] = tx
    /\ \A k \in DOMAIN idempotencyToTxId :
          idempotencyToTxId[k] \in Keyed /\ KeyOf(idempotencyToTxId[k]) = k

\* What every step does to the transactions: their fields but the status stay.
LEMMA TransactionsKept ==
  ASSUME Typed, ReversalIntegrity, LotsOK, [Next]_vars
  PROVE  \A t \in DOMAIN transactions :
            /\ t \in DOMAIN transactions'
            /\ transactions'[t].txType = transactions[t].txType
            /\ transactions'[t].tenant = transactions[t].tenant
            /\ transactions'[t].actor = transactions[t].actor
            /\ transactions'[t].key = transactions[t].key
<1>1. TypeOK
  BY DEF Typed
<1>2. CASE UNCHANGED transactions
  BY <1>2
<1>3. ASSUME NEW rec, transactions' = Append(transactions, rec)
      PROVE  \A t \in DOMAIN transactions : t \in DOMAIN transactions' /\ transactions'[t] = transactions[t]
  BY <1>1, <1>3, LenProperties DEF TypeOK
<1>4. ASSUME NEW in \in PostInputs, PostVerdict(in) = "OK", PostAccepted(in)
      PROVE  \E rec : transactions' = Append(transactions, rec)
  BY <1>1, <1>4, PostRecords DEF PostVerdict
<1>5. ASSUME NEW tenant \in Tenants, NEW src \in DOMAIN transactions, NEW actor,
             src \notin DOMAIN reversalBySourceTxId, ReversalAccepted(tenant, src, actor)
      PROVE  \A t \in DOMAIN transactions :
                /\ t \in DOMAIN transactions'
                /\ transactions'[t].txType = transactions[t].txType
                /\ transactions'[t].tenant = transactions[t].tenant
                /\ transactions'[t].actor = transactions[t].actor
                /\ transactions'[t].key = transactions[t].key
  <2> DEFINE rec == Transaction(tenant, "REVERSAL", actor, Null, src)
  <2>1. transactions' = Append([transactions EXCEPT ![src].status = "REVERSED"], rec)
    BY <1>1, <1>5, ReversalRecords
  <2>2. QED
    <3> HIDE DEF rec
    <3> QED BY <1>1, <2>1, RecordedFields
<1>6. ExpirePost => \E rec : transactions' = Append(transactions, rec)
  BY DEF ExpirePost
<1>7. ExpireMark => UNCHANGED transactions
  BY DEF ExpireMark
<1>8. QED
  BY <1>1, <1>2, <1>3, <1>4, <1>5, <1>6, <1>7, StepCases DEF ledger, journal

\* Recording a transaction without a key, or one that is found under a new key,
\* keeps the index.
LEMMA RecordKeepsIndex ==
  ASSUME TypeOK, IndexOK, NEW n, n \notin DOMAIN transactions,
         DOMAIN transactions' = DOMAIN transactions \cup {n},
         \A t \in DOMAIN transactions :
            /\ transactions'[t].tenant = transactions[t].tenant
            /\ transactions'[t].actor = transactions[t].actor
            /\ transactions'[t].key = transactions[t].key,
         \/ transactions'[n].key = Null /\ UNCHANGED idempotencyToTxId
         \/ /\ transactions'[n].key # Null
            /\ KeyOf(n)' \notin DOMAIN idempotencyToTxId
            /\ idempotencyToTxId' = Put(idempotencyToTxId, KeyOf(n)', n)
  PROVE  IndexOK'
<1>1. \A t \in DOMAIN transactions : KeyOf(t)' = KeyOf(t) /\ (t \in Keyed' <=> t \in Keyed)
  BY DEF KeyOf, Keyed
<1>2. CASE transactions'[n].key = Null /\ UNCHANGED idempotencyToTxId
  <2>1. Keyed' = Keyed
    BY <1>2 DEF Keyed
  <2>2. QED
    BY <1>1, <1>2, <2>1 DEF IndexOK, Keyed
<1>3. CASE /\ transactions'[n].key # Null
           /\ KeyOf(n)' \notin DOMAIN idempotencyToTxId
           /\ idempotencyToTxId' = Put(idempotencyToTxId, KeyOf(n)', n)
  <2>1. PICK key : key = KeyOf(n)'
    OBVIOUS
  <2>2. Keyed' = Keyed \cup {n}
    BY <1>3 DEF Keyed
  <2>3. /\ DOMAIN idempotencyToTxId' = DOMAIN idempotencyToTxId \cup {key}
        /\ idempotencyToTxId'[key] = n
        /\ key \notin DOMAIN idempotencyToTxId
        /\ \A k \in DOMAIN idempotencyToTxId : idempotencyToTxId'[k] = idempotencyToTxId[k]
    BY <1>3, <2>1 DEF Put
  <2>4. \A t \in Keyed : t \in DOMAIN transactions
    BY DEF Keyed
  <2>5. ASSUME NEW t \in Keyed'
        PROVE  KeyOf(t)' \in DOMAIN idempotencyToTxId' /\ idempotencyToTxId'[KeyOf(t)'] = t
    BY <1>1, <2>1, <2>2, <2>3, <2>4, <2>5 DEF IndexOK
  <2>6. ASSUME NEW k \in DOMAIN idempotencyToTxId'
        PROVE  \E t \in Keyed' : idempotencyToTxId'[k] = t /\ KeyOf(t)' = k
    <3>1. CASE k = key
      BY <2>1, <2>2, <2>3, <3>1
    <3>2. CASE k # key
      <4>1. /\ k \in DOMAIN idempotencyToTxId
            /\ idempotencyToTxId'[k] = idempotencyToTxId[k]
        BY <2>3, <3>2
      <4>2. PICK t : t = idempotencyToTxId[k] /\ t \in Keyed /\ KeyOf(t) = k
        BY <4>1 DEF IndexOK
      <4>3. KeyOf(t)' = k /\ t \in Keyed'
        BY <1>1, <2>2, <2>4, <4>2
      <4>4. QED
        BY <4>1, <4>2, <4>3
    <3>3. QED
      BY <3>1, <3>2
  <2>7. QED
    BY <2>5, <2>6 DEF IndexOK, KeyOf, Keyed
<1>4. QED
  BY <1>2, <1>3

\* Every step keeps the index.
LEMMA IndexStep ==
  ASSUME Typed, ReversalIntegrity, LotsOK, IndexOK, [Next]_vars
  PROVE  IndexOK'
<1>1. TypeOK
  BY DEF Typed
<1>n. PICK n : n = Len(transactions) + 1
  OBVIOUS
<1>2. \A t \in DOMAIN transactions :
         /\ transactions'[t].tenant = transactions[t].tenant
         /\ transactions'[t].actor = transactions[t].actor
         /\ transactions'[t].key = transactions[t].key
  BY TransactionsKept
<1>3. CASE UNCHANGED <<transactions, idempotencyToTxId>>
  BY <1>3 DEF IndexOK, Keyed, KeyOf
<1>4. ASSUME NEW rec, transactions' = Append(transactions, rec)
      PROVE  /\ DOMAIN transactions' = DOMAIN transactions \cup {n}
             /\ n \notin DOMAIN transactions
             /\ transactions'[n] = rec
  BY <1>1, <1>4, <1>n, LenProperties DEF TypeOK
<1>5. ASSUME NEW in \in PostInputs, ~ IsResend(in), PostVerdict(in) = "OK", PostAccepted(in)
      PROVE  IndexOK'
  <2> DEFINE rec == Transaction(in.tenant, in.txType, in.actor, TrimmedKey(in.key), Null)
  <2>1. /\ transactions' = Append(transactions, rec)
        /\ idempotencyToTxId' = IF TrimmedKey(in.key) = Null THEN idempotencyToTxId
                                ELSE Put(idempotencyToTxId, InputKey(in), n)
    BY <1>1, <1>5, <1>n, PostRecords DEF PostVerdict
  <2>2. rec.tenant = in.tenant /\ rec.actor = in.actor /\ rec.key = TrimmedKey(in.key)
    BY DEF Transaction
  <2>3. /\ DOMAIN transactions' = DOMAIN transactions \cup {n}
        /\ n \notin DOMAIN transactions
        /\ transactions'[n] = rec
    <3> HIDE DEF rec
    <3> QED BY <1>4, <2>1
  <2>4. KeyOf(n)' = InputKey(in) /\ transactions'[n].key = TrimmedKey(in.key)
    <3> HIDE DEF rec
    <3> QED BY <2>2, <2>3 DEF KeyOf, InputKey
  <2>5. TrimmedKey(in.key) # Null => InputKey(in) \notin DOMAIN idempotencyToTxId
    BY <1>5 DEF IsResend
  <2>6. \/ transactions'[n].key = Null /\ UNCHANGED idempotencyToTxId
        \/ /\ transactions'[n].key # Null
           /\ KeyOf(n)' \notin DOMAIN idempotencyToTxId
           /\ idempotencyToTxId' = Put(idempotencyToTxId, KeyOf(n)', n)
    BY <2>1, <2>4, <2>5
  <2>7. QED
    <3> HIDE DEF rec
    <3> QED BY <1>1, <1>2, <2>3, <2>6, RecordKeepsIndex
<1>6. ASSUME NEW tenant \in Tenants, NEW src \in DOMAIN transactions, NEW actor,
             src \notin DOMAIN reversalBySourceTxId, ReversalAccepted(tenant, src, actor)
      PROVE  IndexOK'
  <2> DEFINE rec == Transaction(tenant, "REVERSAL", actor, Null, src)
  <2>1. /\ transactions' = Append([transactions EXCEPT ![src].status = "REVERSED"], rec)
        /\ UNCHANGED idempotencyToTxId
    BY <1>1, <1>6, ReversalRecords
  <2>2. rec.key = Null
    BY DEF Transaction
  <2>3. /\ DOMAIN transactions' = DOMAIN transactions \cup {n}
        /\ n \notin DOMAIN transactions
        /\ transactions'[n] = rec
    <3> HIDE DEF rec
    <3> QED BY <1>1, <1>n, <2>1, RecordedFields
  <2>4. transactions'[n].key = Null
    BY <2>2, <2>3
  <2>5. QED
    <3> HIDE DEF rec
    <3> QED BY <1>1, <1>2, <2>1, <2>3, <2>4, RecordKeepsIndex
<1>7. ASSUME ExpirePost PROVE IndexOK'
  <2> DEFINE rec == Transaction(batch.tenant, "EXPIRE", Null, Null, Null)
  <2>1. transactions' = Append(transactions, rec) /\ UNCHANGED idempotencyToTxId
    BY <1>7 DEF ExpirePost, indexes
  <2>2. rec.key = Null
    BY DEF Transaction
  <2>3. /\ DOMAIN transactions' = DOMAIN transactions \cup {n}
        /\ n \notin DOMAIN transactions
        /\ transactions'[n] = rec
    <3> HIDE DEF rec
    <3> QED BY <1>4, <2>1
  <2>4. transactions'[n].key = Null
    BY <2>2, <2>3
  <2>5. QED
    <3> HIDE DEF rec
    <3> QED BY <1>1, <1>2, <2>1, <2>3, <2>4, RecordKeepsIndex
<1>8. CASE ExpireMark
  BY <1>3, <1>8 DEF ExpireMark, indexes
<1>9. QED
  BY <1>1, <1>3, <1>5, <1>6, <1>7, <1>8, StepCases DEF ledger, journal, indexes

\* An index that names the keyed transactions is what importState rebuilds.
LEMMA IndexIsRebuilt ==
  ASSUME TypeOK, IndexOK
  PROVE  RestartKeepsIdempotency
<1>1. idempotencyToTxId = [k \in DOMAIN idempotencyToTxId |-> idempotencyToTxId[k]]
  BY DEF TypeOK
<1>2. {IndexKey(transactions[tx].tenant, transactions[tx].actor, transactions[tx].key) :
          tx \in {x \in DOMAIN transactions : transactions[x].key # Null}} = DOMAIN idempotencyToTxId
  <2>1. \A tx \in Keyed : KeyOf(tx) \in DOMAIN idempotencyToTxId
    BY DEF IndexOK
  <2>2. \A k \in DOMAIN idempotencyToTxId : \E tx \in Keyed : k = KeyOf(tx)
    BY DEF IndexOK
  <2>3. {KeyOf(tx) : tx \in Keyed} = DOMAIN idempotencyToTxId
    BY <2>1, <2>2
  <2>4. QED
    BY <2>3 DEF KeyOf, Keyed
<1>3. ASSUME NEW k \in DOMAIN idempotencyToTxId PROVE LastWithKey(k) = idempotencyToTxId[k]
  <2> DEFINE Latest(tx) == /\ transactions[tx].key # Null
                           /\ k = KeyOf(tx)
                           /\ \A later \in DOMAIN transactions :
                                 (later > tx /\ transactions[later].key # Null) => k # KeyOf(later)
  <2>1. PICK t : t = idempotencyToTxId[k]
    OBVIOUS
  <2>2. t \in Keyed /\ KeyOf(t) = k
    BY <2>1 DEF IndexOK
  <2>3. \A tx \in Keyed : KeyOf(tx) = k => tx = t
    BY <2>1 DEF IndexOK
  <2>4. t \in DOMAIN transactions /\ t \in Int
    BY <2>2, LenProperties DEF Keyed, TypeOK
  <2>5. Latest(t)
    BY <2>2, <2>3, <2>4 DEF Keyed
  <2>6. \A tx \in DOMAIN transactions : Latest(tx) => tx = t
    BY <2>3 DEF Keyed
  <2>7. LastWithKey(k) = CHOOSE tx \in DOMAIN transactions : Latest(tx)
    BY DEF LastWithKey, KeyOf
  <2>8. QED
    <3> HIDE DEF Latest
    <3> QED BY <2>1, <2>4, <2>5, <2>6, <2>7
<1>4. RebuiltIdempotency = [k \in DOMAIN idempotencyToTxId |-> LastWithKey(k)]
  BY <1>2 DEF RebuiltIdempotency
<1>5. QED
  BY <1>1, <1>3, <1>4 DEF RestartKeepsIdempotency

\* What a restart makes of the idempotency index is what the process had, for
\* any tenants, actors and keys, colliding ones included.
THEOREM RestartFindsResends == Spec => []RestartKeepsIdempotency
<1>1. Init => IndexOK
  BY DEF Init, IndexOK, Keyed
<1>2. Typed /\ ReversalIntegrity /\ LotsOK /\ IndexOK /\ [Next]_vars => IndexOK'
  BY IndexStep
<1>3. TypeOK /\ IndexOK => RestartKeepsIdempotency
  BY IndexIsRebuilt
<1>4. QED
  BY <1>1, <1>2, <1>3, AlwaysTyped, TypeCorrect, ReversalsAreSound, AssertionsNeverFail, PTL DEF Spec

-----------------------------------------------------------------------------
(* The audit log.                                                          *)

PostActions == {"TX_POST", "TX_REVERSE"}

Logged(tx, actions) == {i \in DOMAIN auditLogs : auditLogs[i].tx = tx /\ auditLogs[i].action \in actions}

\* The EXPIRE transaction whose lot is still to be marked.
Sweeping == IF batch = Null THEN {} ELSE IF batch.posted = Null THEN {} ELSE {batch.posted.tx}

\* Record i tells what the EXPIRE transaction tx swept.
Tells(i, tx) ==
    /\ lots[auditLogs[i].lot].account = entriesByTxId[tx][1].account
    /\ auditLogs[i].amount = entriesByTxId[tx][2].amount

\* The audit log knows recorded transactions only, and lots that exist.
LogsNameTransactions ==
    \A i \in DOMAIN auditLogs :
        /\ auditLogs[i].tx \in DOMAIN transactions
        /\ auditLogs[i].action = "LOT_EXPIRE" => auditLogs[i].lot \in DOMAIN lots

PostsLogged == \A tx \in DOMAIN transactions : \E i : Logged(tx, PostActions) = {i}

SweepsLogged ==
    \A tx \in DOMAIN transactions :
        IF transactions[tx].txType = "EXPIRE" /\ tx \notin Sweeping
        THEN \E i \in DOMAIN auditLogs : Logged(tx, {"LOT_EXPIRE"}) = {i} /\ Tells(i, tx)
        ELSE Logged(tx, {"LOT_EXPIRE"}) = {}

\* What a batch has posted is what it is about to log.
PostedTells ==
    (batch # Null /\ batch.posted # Null) =>
        /\ transactions[batch.posted.tx].txType = "EXPIRE"
        /\ lots[batch.posted.lot].account = entriesByTxId[batch.posted.tx][1].account
        /\ batch.posted.amount = entriesByTxId[batch.posted.tx][2].amount

AuditOK == LogsNameTransactions /\ PostsLogged /\ SweepsLogged /\ PostedTells

\* What recording transaction n with its audit record does to the log.
LEMMA RecordLogged ==
  ASSUME TypeOK, LogsNameTransactions, NEW n, n = Len(transactions) + 1,
         NEW one, one.tx = n, one.action \in PostActions,
         auditLogs' = Append(auditLogs, one)
  PROVE  /\ DOMAIN auditLogs' = DOMAIN auditLogs \cup {Len(auditLogs) + 1}
         /\ \A i \in DOMAIN auditLogs : auditLogs'[i] = auditLogs[i]
         /\ auditLogs'[Len(auditLogs) + 1] = one
         /\ \A t \in DOMAIN transactions : \A actions : Logged(t, actions)' = Logged(t, actions)
         /\ Logged(n, PostActions)' = {Len(auditLogs) + 1}
         /\ Logged(n, {"LOT_EXPIRE"})' = {}
<1>1. PICK k : k = Len(auditLogs) + 1
  OBVIOUS
<1>2. /\ DOMAIN auditLogs' = DOMAIN auditLogs \cup {k} /\ k \notin DOMAIN auditLogs
      /\ \A i \in DOMAIN auditLogs : auditLogs'[i] = auditLogs[i]
      /\ auditLogs'[k] = one
  BY <1>1, LenProperties DEF TypeOK
<1>3. n \notin DOMAIN transactions
  BY LenProperties DEF TypeOK
<1>4. \A i \in DOMAIN auditLogs : auditLogs[i].tx # n
  BY <1>3 DEF LogsNameTransactions
<1>5. ASSUME NEW t \in DOMAIN transactions, NEW actions PROVE Logged(t, actions)' = Logged(t, actions)
  BY <1>2, <1>3 DEF Logged
<1>6. Logged(n, PostActions)' = {k}
  BY <1>2, <1>4 DEF Logged
<1>7. Logged(n, {"LOT_EXPIRE"})' = {}
  BY <1>2, <1>4 DEF Logged, PostActions
<1>8. QED
  BY <1>1, <1>2, <1>5, <1>6, <1>7

\* Recording a transaction, and what a sweep has posted if it is one, keeps the
\* audit log in order.
LEMMA RecordKeepsAudit ==
  ASSUME TypeOK, AuditOK, NEW n, n = Len(transactions) + 1,
         DOMAIN transactions' = DOMAIN transactions \cup {n},
         \A t \in DOMAIN transactions : transactions'[t].txType = transactions[t].txType,
         \A t \in DOMAIN transactions : entriesByTxId'[t] = entriesByTxId[t],
         \A l \in DOMAIN lots : l \in DOMAIN lots' /\ lots'[l].account = lots[l].account,
         NEW one, one.tx = n, one.action \in PostActions,
         auditLogs' = Append(auditLogs, one),
         Sweeping = {},
         Sweeping' = IF transactions'[n].txType = "EXPIRE" THEN {n} ELSE {},
         PostedTells'
  PROVE  AuditOK'
<1>1. LogsNameTransactions /\ PostsLogged /\ SweepsLogged
  BY DEF AuditOK
<1>2. PICK k : k = Len(auditLogs) + 1
  OBVIOUS
<1>3. /\ DOMAIN auditLogs' = DOMAIN auditLogs \cup {k}
      /\ \A i \in DOMAIN auditLogs : auditLogs'[i] = auditLogs[i]
      /\ auditLogs'[k] = one
      /\ \A t \in DOMAIN transactions : \A actions : Logged(t, actions)' = Logged(t, actions)
      /\ Logged(n, PostActions)' = {k}
      /\ Logged(n, {"LOT_EXPIRE"})' = {}
  BY <1>1, <1>2, RecordLogged
<1>4. LogsNameTransactions'
  <2>1. \A i \in DOMAIN auditLogs : auditLogs[i].tx \in DOMAIN transactions
                                    /\ (auditLogs[i].action = "LOT_EXPIRE" => auditLogs[i].lot \in DOMAIN lots)
    BY <1>1 DEF LogsNameTransactions
  <2>2. one.action # "LOT_EXPIRE"
    BY DEF PostActions
  <2>3. QED
    BY <1>3, <2>1, <2>2 DEF LogsNameTransactions
<1>5. PostsLogged'
  BY <1>1, <1>3 DEF PostsLogged
<1>6. SweepsLogged'
  <2>1. n \notin DOMAIN transactions
    BY LenProperties DEF TypeOK
  <2>2. ASSUME NEW t \in DOMAIN transactions
        PROVE  IF transactions'[t].txType = "EXPIRE" /\ t \notin Sweeping'
               THEN \E i \in DOMAIN auditLogs' : Logged(t, {"LOT_EXPIRE"})' = {i} /\ Tells(i, t)'
               ELSE Logged(t, {"LOT_EXPIRE"})' = {}
    <3>1. t \notin Sweeping' /\ t \notin Sweeping
      BY <2>1
    <3>2. CASE transactions[t].txType = "EXPIRE"
      <4>1. PICK i \in DOMAIN auditLogs : Logged(t, {"LOT_EXPIRE"}) = {i} /\ Tells(i, t)
        BY <1>1, <3>1, <3>2 DEF SweepsLogged
      <4>2. auditLogs[i].action = "LOT_EXPIRE"
        BY <4>1 DEF Logged
      <4>3. auditLogs[i].lot \in DOMAIN lots
        BY <1>1, <4>2 DEF LogsNameTransactions
      <4>4. Tells(i, t)'
        BY <1>3, <4>1, <4>3 DEF Tells
      <4>5. QED
        BY <1>3, <3>1, <3>2, <4>1, <4>4
    <3>3. CASE transactions[t].txType # "EXPIRE"
      BY <1>1, <1>3, <3>3 DEF SweepsLogged
    <3>4. QED
      BY <3>2, <3>3
  <2>3. IF transactions'[n].txType = "EXPIRE" /\ n \notin Sweeping'
        THEN \E i \in DOMAIN auditLogs' : Logged(n, {"LOT_EXPIRE"})' = {i} /\ Tells(i, n)'
        ELSE Logged(n, {"LOT_EXPIRE"})' = {}
    BY <1>3
  <2>4. QED
    BY <2>2, <2>3 DEF SweepsLogged
<1>7. QED
  BY <1>4, <1>5, <1>6 DEF AuditOK

\* Besides the two halves of a sweep, a step leaves the batch alone, or begins
\* or ends it with no lot in flight.
LEMMA BatchMoves ==
  ASSUME Typed, [Next]_vars
  PROVE  \/ UNCHANGED batch
         \/ ExpirePost
         \/ ExpireMark
         \/ /\ Sweeping = {}
            /\ batch' # Null => batch'.posted = Null
<1>1. ASSUME NEW t \in Tenants, NEW now \in Times, ExpireBegin(t, now)
      PROVE  UNCHANGED batch \/ (Sweeping = {} /\ (batch' # Null => batch'.posted = Null))
  BY <1>1 DEF ExpireBegin, Answered, Sweeping
<1>2. ExpireAbort \/ ExpireEnd => Sweeping = {} /\ batch' = Null
  BY DEF ExpireAbort, ExpireEnd, Sweeping
<1>3. QED
  BY <1>1, <1>2 DEF Next, vars, Tick, CreateAccount, PostTransaction, PostAccepted,
     ReverseTransaction, ReversalAccepted, Detail, Answered, ExpireStep

\* The second half of a sweep logs what the first half posted.
LEMMA MarkKeepsAudit ==
  ASSUME Typed, AuditOK, ExpireMark,
         \A l \in DOMAIN lots : l \in DOMAIN lots' /\ lots'[l].account = lots[l].account
  PROVE  AuditOK'
<1>1. TypeOK /\ LogsNameTransactions /\ PostsLogged /\ SweepsLogged /\ PostedTells
  BY DEF Typed, AuditOK
<1>2. PICK k : k = Len(auditLogs) + 1
  OBVIOUS
<1>3. PICK p : p = batch.posted
  OBVIOUS
<1>4. /\ batch # Null /\ p # Null
      /\ auditLogs' = Append(auditLogs, Audit(batch.tenant, Null, "LOT_EXPIRE", p.tx, p.lot, p.amount))
      /\ UNCHANGED <<transactions, entriesByTxId>>
  BY <1>3 DEF ExpireMark
<1>5. p.tx \in DOMAIN transactions /\ p.lot \in DOMAIN lots
  BY <1>3, <1>4 DEF Typed, BatchOK
<1>6. Sweeping = {p.tx} /\ Sweeping' = {} /\ PostedTells'
  BY <1>1, <1>3, <1>4, MarkHandsBack DEF Sweeping, PostedTells
<1>7. /\ DOMAIN auditLogs' = DOMAIN auditLogs \cup {k} /\ k \notin DOMAIN auditLogs
      /\ \A i \in DOMAIN auditLogs : auditLogs'[i] = auditLogs[i]
      /\ auditLogs'[k].tx = p.tx /\ auditLogs'[k].lot = p.lot /\ auditLogs'[k].amount = p.amount
      /\ auditLogs'[k].action = "LOT_EXPIRE"
  <2> DEFINE one == Audit(batch.tenant, Null, "LOT_EXPIRE", p.tx, p.lot, p.amount)
  <2>1. /\ one.tx = p.tx /\ one.lot = p.lot /\ one.amount = p.amount /\ one.action = "LOT_EXPIRE"
    BY DEF Audit
  <2>2. auditLogs' = Append(auditLogs, one)
    BY <1>4
  <2> HIDE DEF one
  <2>3. QED
    BY <1>1, <1>2, <2>1, <2>2, LenProperties DEF TypeOK
<1>8. LogsNameTransactions'
  BY <1>1, <1>4, <1>5, <1>7 DEF LogsNameTransactions
<1>9. \A t : Logged(t, PostActions)' = Logged(t, PostActions)
  BY <1>7 DEF Logged, PostActions
<1>10. PostsLogged'
  BY <1>1, <1>4, <1>9 DEF PostsLogged
<1>11. \A t : t # p.tx => Logged(t, {"LOT_EXPIRE"})' = Logged(t, {"LOT_EXPIRE"})
  BY <1>7 DEF Logged
<1>12. ASSUME NEW t \in DOMAIN transactions
       PROVE  IF transactions[t].txType = "EXPIRE" /\ t \notin Sweeping'
              THEN \E i \in DOMAIN auditLogs' : Logged(t, {"LOT_EXPIRE"})' = {i} /\ Tells(i, t)'
              ELSE Logged(t, {"LOT_EXPIRE"})' = {}
  <2>1. CASE t = p.tx
    <3>1. transactions[t].txType = "EXPIRE"
      BY <1>1, <1>3, <1>4, <2>1 DEF PostedTells
    <3>2. Logged(t, {"LOT_EXPIRE"}) = {}
      BY <1>1, <1>6, <2>1 DEF SweepsLogged
    <3>3. Logged(t, {"LOT_EXPIRE"})' = {k}
      BY <1>7, <2>1, <3>2 DEF Logged
    <3>4. Tells(k, t)'
      BY <1>1, <1>3, <1>4, <1>5, <1>7, <2>1 DEF Tells, PostedTells
    <3>5. QED
      BY <1>6, <1>7, <3>1, <3>3, <3>4
  <2>2. CASE t # p.tx /\ transactions[t].txType = "EXPIRE"
    <3>1. PICK i \in DOMAIN auditLogs : Logged(t, {"LOT_EXPIRE"}) = {i} /\ Tells(i, t)
      BY <1>1, <1>6, <2>2 DEF SweepsLogged
    <3>2. auditLogs[i].action = "LOT_EXPIRE"
      BY <3>1 DEF Logged
    <3>3. auditLogs[i].lot \in DOMAIN lots
      BY <1>1, <3>2 DEF LogsNameTransactions
    <3>4. Tells(i, t)'
      BY <1>4, <1>7, <3>1, <3>3 DEF Tells
    <3>5. QED
      BY <1>6, <1>7, <1>11, <2>2, <3>1, <3>4
  <2>3. CASE t # p.tx /\ transactions[t].txType # "EXPIRE"
    BY <1>1, <1>11, <2>3 DEF SweepsLogged
  <2>4. QED
    BY <2>1, <2>2, <2>3
<1>13. SweepsLogged'
  BY <1>4, <1>12 DEF SweepsLogged
<1>14. QED
  BY <1>6, <1>8, <1>10, <1>13 DEF AuditOK

\* Every step keeps the audit log in order.
LEMMA AuditStep ==
  ASSUME Typed, ReversalIntegrity, LotsOK, AuditOK, [Next]_vars
  PROVE  AuditOK'
<1>1. TypeOK
  BY DEF Typed
<1>2. PICK n : n = Len(transactions) + 1
  OBVIOUS
<1>3. \A l \in DOMAIN lots : l \in DOMAIN lots' /\ lots'[l].account = lots[l].account
  BY LotsKeepTerms DEF Terms
<1>4. \A t \in DOMAIN transactions : transactions'[t].txType = transactions[t].txType
  BY TransactionsKept
<1>5. ASSUME NEW e, entriesByTxId' = Append(entriesByTxId, e)
      PROVE  /\ \A t \in DOMAIN transactions : entriesByTxId'[t] = entriesByTxId[t]
             /\ entriesByTxId'[n] = e
  BY <1>1, <1>2, <1>5, LenProperties DEF TypeOK
<1>6. ASSUME NEW rec, transactions' = Append(transactions, rec)
      PROVE  DOMAIN transactions' = DOMAIN transactions \cup {n} /\ transactions'[n] = rec
  BY <1>1, <1>2, <1>6, LenProperties DEF TypeOK
<1>7. ASSUME UNCHANGED <<lots, journal>>, UNCHANGED batch
      PROVE  AuditOK'
  <2>1. Sweeping' = Sweeping /\ PostedTells' = PostedTells
    BY <1>7 DEF Sweeping, PostedTells, journal
  <2>2. LogsNameTransactions' /\ PostsLogged'
    BY <1>7 DEF AuditOK, LogsNameTransactions, PostsLogged, Logged, journal
  <2>3. SweepsLogged'
    BY <1>7, <2>1 DEF AuditOK, SweepsLogged, Logged, Tells, journal
  <2>4. QED
    BY <2>1, <2>2, <2>3 DEF AuditOK
<1>8. ASSUME UNCHANGED <<lots, journal>>, Sweeping = {}, batch' # Null => batch'.posted = Null
      PROVE  AuditOK'
  <2>1. Sweeping' = {} /\ PostedTells'
    BY <1>8 DEF Sweeping, PostedTells
  <2>2. LogsNameTransactions' /\ PostsLogged'
    BY <1>8 DEF AuditOK, LogsNameTransactions, PostsLogged, Logged, journal
  <2>3. SweepsLogged'
    BY <1>8, <2>1 DEF AuditOK, SweepsLogged, Logged, Tells, journal
  <2>4. QED
    BY <2>1, <2>2, <2>3 DEF AuditOK
<1>9. ASSUME NEW in \in PostInputs, batch = Null, PostVerdict(in) = "OK", PostAccepted(in)
      PROVE  AuditOK'
  <2> DEFINE rec == Transaction(in.tenant, in.txType, in.actor, TrimmedKey(in.key), Null)
             one == Audit(in.tenant, in.actor, "TX_POST", n, Null, 0)
  <2>1. /\ transactions' = Append(transactions, rec)
        /\ auditLogs' = Append(auditLogs, one)
        /\ entriesByTxId' = Append(entriesByTxId, EntriesOf(in))
        /\ UNCHANGED batch
    BY <1>1, <1>2, <1>9, PostRecords DEF PostVerdict
  <2>2. rec.txType # "EXPIRE"
    BY InputAssumption DEF Transaction, PostInput, PostTypes
  <2>3. one.tx = n /\ one.action \in PostActions
    BY DEF Audit, PostActions
  <2>4. Sweeping = {} /\ Sweeping' = {} /\ PostedTells'
    BY <1>9, <2>1 DEF Sweeping, PostedTells
  <2> HIDE DEF rec, one
  <2>5. DOMAIN transactions' = DOMAIN transactions \cup {n} /\ transactions'[n] = rec
    BY <1>6, <2>1
  <2>6. \A t \in DOMAIN transactions : entriesByTxId'[t] = entriesByTxId[t]
    BY <1>5, <2>1
  <2>7. Sweeping' = IF transactions'[n].txType = "EXPIRE" THEN {n} ELSE {}
    BY <2>2, <2>4, <2>5
  <2>8. auditLogs' = Append(auditLogs, one)
    BY <2>1
  <2>9. QED
    BY <1>1, <1>2, <1>3, <1>4, <2>3, <2>4, <2>5, <2>6, <2>7, <2>8, RecordKeepsAudit
<1>10. ASSUME NEW tenant \in Tenants, NEW src \in DOMAIN transactions, NEW actor, batch = Null,
              src \notin DOMAIN reversalBySourceTxId, ReversalAccepted(tenant, src, actor)
       PROVE  AuditOK'
  <2> DEFINE rec == Transaction(tenant, "REVERSAL", actor, Null, src)
             one == Audit(tenant, actor, "TX_REVERSE", n, Null, 0)
  <2>1. /\ transactions' = Append([transactions EXCEPT ![src].status = "REVERSED"], rec)
        /\ auditLogs' = Append(auditLogs, one)
        /\ entriesByTxId' = Append(entriesByTxId, Mirror(entriesByTxId[src]))
        /\ UNCHANGED batch
    BY <1>1, <1>2, <1>10, ReversalRecords
  <2>2. rec.txType # "EXPIRE"
    BY DEF Transaction
  <2>3. one.tx = n /\ one.action \in PostActions
    BY DEF Audit, PostActions
  <2>4. Sweeping = {} /\ Sweeping' = {} /\ PostedTells'
    BY <1>10, <2>1 DEF Sweeping, PostedTells
  <2> HIDE DEF rec, one
  <2>5. DOMAIN transactions' = DOMAIN transactions \cup {n} /\ transactions'[n] = rec
    BY <1>1, <1>2, <2>1, RecordedFields
  <2>6. \A t \in DOMAIN transactions : entriesByTxId'[t] = entriesByTxId[t]
    BY <1>5, <2>1
  <2>7. Sweeping' = IF transactions'[n].txType = "EXPIRE" THEN {n} ELSE {}
    BY <2>2, <2>4, <2>5
  <2>8. auditLogs' = Append(auditLogs, one)
    BY <2>1
  <2>9. QED
    BY <1>1, <1>2, <1>3, <1>4, <2>3, <2>4, <2>5, <2>6, <2>7, <2>8, RecordKeepsAudit
<1>11. ASSUME ExpirePost PROVE AuditOK'
  <2> DEFINE rec == Transaction(batch.tenant, "EXPIRE", Null, Null, Null)
             one == Audit(batch.tenant, Null, "TX_POST", n, Null, 0)
  <2>1. /\ transactions' = Append(transactions, rec)
        /\ auditLogs' = Append(auditLogs, one)
        /\ entriesByTxId' = Append(entriesByTxId, ExpireEntries(NextDue))
        /\ UNCHANGED lots
    BY <1>2, <1>11 DEF ExpirePost
  <2>2. rec.txType = "EXPIRE"
    BY DEF Transaction
  <2>3. one.tx = n /\ one.action \in PostActions
    BY DEF Audit, PostActions
  <2>4. /\ batch' # Null /\ batch'.posted # Null
        /\ batch'.posted.tx = n
        /\ batch'.posted.lot = NextDue
        /\ batch'.posted.amount = lots[NextDue].remaining
    BY <1>2, <1>11, PostHandsOver, NullAssumption
  <2>5. Sweeping = {} /\ Sweeping' = {n}
    BY <1>11, <2>4 DEF Sweeping, ExpirePost
  <2> HIDE DEF rec, one
  <2>6. DOMAIN transactions' = DOMAIN transactions \cup {n} /\ transactions'[n] = rec
    BY <1>6, <2>1
  <2>7. entriesByTxId'[n] = ExpireEntries(NextDue)
    BY <1>5, <2>1
  <2>8. /\ ExpireEntries(NextDue)[1].account = lots[NextDue].account
        /\ ExpireEntries(NextDue)[2].amount = lots[NextDue].remaining
    BY DEF ExpireEntries
  <2>9. PostedTells'
    BY <2>1, <2>2, <2>4, <2>6, <2>7, <2>8 DEF PostedTells
  <2>10. \A t \in DOMAIN transactions : entriesByTxId'[t] = entriesByTxId[t]
    BY <1>5, <2>1
  <2>11. Sweeping' = IF transactions'[n].txType = "EXPIRE" THEN {n} ELSE {}
    BY <2>2, <2>5, <2>6
  <2>12. auditLogs' = Append(auditLogs, one)
    BY <2>1
  <2>13. QED
    BY <1>1, <1>2, <1>3, <1>4, <2>3, <2>5, <2>6, <2>9, <2>10, <2>11, <2>12, RecordKeepsAudit
<1>12. CASE ExpireMark
  BY <1>3, <1>12, MarkKeepsAudit
<1>13. CASE UNCHANGED ledger
  <2>1. ~ ExpirePost /\ ~ ExpireMark
    <3>1. ~ UNCHANGED auditLogs => ~ UNCHANGED ledger
      BY DEF ledger, journal
    <3>2. ASSUME NEW one, auditLogs' = Append(auditLogs, one) PROVE auditLogs' # auditLogs
      BY <1>1, <3>2, LenProperties DEF TypeOK
    <3>3. QED
      BY <1>13, <3>1, <3>2 DEF ExpirePost, ExpireMark
  <2>2. UNCHANGED <<lots, journal>>
    BY <1>13 DEF ledger
  <2>3. QED
    BY <1>7, <1>8, <2>1, <2>2, BatchMoves
<1>14. QED
  BY <1>1, <1>7, <1>9, <1>10, <1>11, <1>12, <1>13, StepCases

\* Every transaction has one audit record of its posting and every EXPIRE one
\* of the lot it swept, for the amount it moved, but the one in flight.
THEOREM AuditIsComplete == Spec => []AuditTrail
<1>1. Init => AuditOK
  BY DEF Init, AuditOK, LogsNameTransactions, PostsLogged, SweepsLogged, PostedTells
<1>2. Typed /\ ReversalIntegrity /\ LotsOK /\ AuditOK /\ [Next]_vars => AuditOK'
  BY AuditStep
<1>3. AuditOK => AuditTrail
  <2> SUFFICES ASSUME AuditOK, NEW tx \in DOMAIN transactions
               PROVE  /\ Cardinality(Logged(tx, PostActions)) = 1
                      /\ IF transactions[tx].txType = "EXPIRE" /\ tx \notin Sweeping
                         THEN \E i \in DOMAIN auditLogs : Logged(tx, {"LOT_EXPIRE"}) = {i} /\ Tells(i, tx)
                         ELSE Logged(tx, {"LOT_EXPIRE"}) = {}
    BY DEF AuditTrail, Logged, PostActions, Sweeping, Tells
  <2>1. \E i : Logged(tx, PostActions) = {i}
    BY DEF AuditOK, PostsLogged
  <2>2. Cardinality(Logged(tx, PostActions)) = 1
    BY <2>1, FS_Singleton
  <2>3. QED
    BY <2>2 DEF AuditOK, SweepsLogged
<1>4. QED
  BY <1>1, <1>2, <1>3, AlwaysTyped, ReversalsAreSound, AssertionsNeverFail, PTL DEF Spec

-----------------------------------------------------------------------------

-----------------------------------------------------------------------------
(* A save and a load.  Both loops, flatMap of snapshot and the grouping of *)
(* importState, are recursive functions on an interval of numbers; what    *)
(* they compute is proved by a least counterexample.                       *)

\* A non-empty set of numbers has a least one.
LEMMA LeastNumber ==
  ASSUME NEW T \in SUBSET Nat, T # {}
  PROVE  \E n \in T : \A m \in T : n <= m
<1> DEFINE Upto(n) == 0 .. n
           Tops == {Upto(n) : n \in T}
<1>1. Tops \subseteq FiniteSubsetsOf(Nat) /\ Tops # {}
  <2>1. \A n \in T : Upto(n) \in SUBSET Nat /\ IsFiniteSet(Upto(n))
    BY FS_Interval
  <2>2. QED
    BY <2>1 DEF FiniteSubsetsOf
<1>2. PICK x \in Tops : \A y \in Tops : ~ (y \subseteq x /\ y # x)
  <2> HIDE DEF Tops
  <2> QED BY <1>1, MinimalFiniteSet
<1>3. PICK n \in T : x = Upto(n)
  BY <1>2
<1>4. ASSUME NEW m \in T, m < n PROVE FALSE
  <2>1. Upto(m) \subseteq Upto(n) /\ n \in Upto(n) /\ n \notin Upto(m)
    BY <1>4
  <2>2. QED
    BY <1>2, <1>3, <2>1
<1>5. QED
  BY <1>4

\* f is the recursive function that joins the first k sequences of seqs.
IsFlattener(f, seqs, k) ==
    f = [i \in 1 .. k |-> IF i = 1 THEN seqs[i] ELSE f[i - 1] \o seqs[i]]

LEMMA FlattenerExists ==
  ASSUME NEW seqs, NEW n \in Nat
  PROVE  \E f : IsFlattener(f, seqs, n)
<1> DEFINE Bad == {k \in Nat : ~ \E f : IsFlattener(f, seqs, k)}
<1>1. SUFFICES ASSUME Bad # {} PROVE FALSE
  OBVIOUS
<1>2. PICK k \in Bad : \A m \in Bad : k <= m
  <2>1. Bad \in SUBSET Nat
    OBVIOUS
  <2> HIDE DEF Bad
  <2>2. QED BY <1>1, <2>1, LeastNumber
<1>3. CASE k = 0
  <2> DEFINE f == [i \in 1 .. 0 |-> seqs[1]]
  <2>1. f = [i \in 1 .. 0 |-> IF i = 1 THEN seqs[i] ELSE f[i - 1] \o seqs[i]]
    OBVIOUS
  <2> HIDE DEF f
  <2>2. QED
    BY <1>2, <1>3, <2>1 DEF IsFlattener
<1>4. CASE k # 0
  <2>1. k - 1 \in Nat /\ k - 1 \notin Bad
    BY <1>2, <1>4
  <2>2. PICK f : IsFlattener(f, seqs, k - 1)
    BY <2>1
  <2> DEFINE g == [i \in 1 .. k |-> IF i = 1 THEN seqs[i] ELSE f[i - 1] \o seqs[i]]
  <2>3. \A i \in 1 .. k - 1 : f[i] = IF i = 1 THEN seqs[i] ELSE f[i - 1] \o seqs[i]
    BY <2>2 DEF IsFlattener
  <2>4. \A i \in 1 .. k : i # 1 => g[i - 1] = f[i - 1]
    <3>1. ASSUME NEW i \in 1 .. k, i # 1 PROVE g[i - 1] = f[i - 1]
      <4>1. i - 1 \in 1 .. k - 1 /\ i - 1 \in 1 .. k
        BY <1>2, <3>1
      <4>2. QED
        BY <2>3, <4>1
    <3>2. QED
      BY <3>1
  <2>5. g = [i \in 1 .. k |-> IF i = 1 THEN seqs[i] ELSE g[i - 1] \o seqs[i]]
    BY <2>4
  <2> HIDE DEF g
  <2>6. QED
    BY <1>2, <2>5 DEF IsFlattener
<1>5. QED
  BY <1>3, <1>4

\* FlattenSeq is the last value of that function.
LEMMA FlattenUnfold ==
  ASSUME NEW seqs, Len(seqs) \in Nat, Len(seqs) # 0
  PROVE  \E f : IsFlattener(f, seqs, Len(seqs)) /\ FlattenSeq(seqs) = f[Len(seqs)]
<1>1. FlattenSeq(seqs) = (CHOOSE f : IsFlattener(f, seqs, Len(seqs)))[Len(seqs)]
  BY DEF FlattenSeq, IsFlattener
<1>2. \E f : IsFlattener(f, seqs, Len(seqs))
  BY FlattenerExists
<1>3. QED
  BY <1>1, <1>2

\* g is the recursive function that groups the first k of the saved entries.
IsGrouper(g, saved, k) ==
    g = [n \in 0 .. k |->
            IF n = 0 THEN <<>>
            ELSE [tx \in DOMAIN g[n - 1] \cup {saved[n].tx} |->
                     IF tx = saved[n].tx THEN Append(At(g[n - 1], saved[n].tx), saved[n].entry)
                     ELSE g[n - 1][tx]]]

LEMMA GrouperExists ==
  ASSUME NEW saved, NEW n \in Nat
  PROVE  \E g : IsGrouper(g, saved, n)
<1> DEFINE Next1(before, m) ==
              [tx \in DOMAIN before \cup {saved[m].tx} |->
                  IF tx = saved[m].tx THEN Append(At(before, saved[m].tx), saved[m].entry)
                  ELSE before[tx]]
           Bad == {k \in Nat : ~ \E g : IsGrouper(g, saved, k)}
<1>1. SUFFICES ASSUME Bad # {} PROVE FALSE
  OBVIOUS
<1>2. PICK k \in Bad : \A m \in Bad : k <= m
  <2>1. Bad \in SUBSET Nat
    OBVIOUS
  <2> HIDE DEF Bad
  <2>2. QED BY <1>1, <2>1, LeastNumber
<1>0. \A g, j : IsGrouper(g, saved, j) <=> g = [i \in 0 .. j |-> IF i = 0 THEN <<>> ELSE Next1(g[i - 1], i)]
  BY DEF IsGrouper
<1> HIDE DEF Next1
<1>3. CASE k = 0
  <2> DEFINE f == [i \in 0 .. 0 |-> <<>>]
  <2>1. f = [i \in 0 .. 0 |-> IF i = 0 THEN <<>> ELSE Next1(f[i - 1], i)]
    OBVIOUS
  <2> HIDE DEF f
  <2>2. QED
    BY <1>0, <1>2, <1>3, <2>1
<1>4. CASE k # 0
  <2>1. k - 1 \in Nat /\ k - 1 \notin Bad
    BY <1>2, <1>4
  <2>2. PICK f : f = [i \in 0 .. k - 1 |-> IF i = 0 THEN <<>> ELSE Next1(f[i - 1], i)]
    BY <1>0, <2>1
  <2> DEFINE g == [i \in 0 .. k |-> IF i = 0 THEN <<>> ELSE Next1(f[i - 1], i)]
  <2>3. \A i \in 0 .. k - 1 : f[i] = IF i = 0 THEN <<>> ELSE Next1(f[i - 1], i)
    BY <2>2
  <2>4. ASSUME NEW i \in 0 .. k, i # 0 PROVE g[i - 1] = f[i - 1]
    <3>1. i - 1 \in 0 .. k - 1 /\ i - 1 \in 0 .. k
      BY <1>2, <2>4
    <3>2. QED
      BY <2>3, <3>1
  <2>5. g = [i \in 0 .. k |-> IF i = 0 THEN <<>> ELSE Next1(g[i - 1], i)]
    BY <2>4
  <2> HIDE DEF g
  <2>6. QED
    BY <1>0, <1>2, <2>5
<1>5. QED
  BY <1>3, <1>4

\* Grouped is the last value of that function.
LEMMA GroupUnfold ==
  ASSUME NEW saved, Len(saved) \in Nat
  PROVE  \E g : IsGrouper(g, saved, Len(saved)) /\ Grouped(saved) = g[Len(saved)]
<1>1. Grouped(saved) = (CHOOSE g : IsGrouper(g, saved, Len(saved)))[Len(saved)]
  BY DEF Grouped, IsGrouper
<1>2. \E g : IsGrouper(g, saved, Len(saved))
  BY GrouperExists
<1>3. QED
  BY <1>1, <1>2

\* Entry n is put behind those of its transaction.
PutBehind(g, saved, n) ==
    /\ At(g[n], saved[n].tx) = Append(At(g[n - 1], saved[n].tx), saved[n].entry)
    /\ \A tx : tx # saved[n].tx => At(g[n], tx) = At(g[n - 1], tx)

LEMMA GroupStep ==
  ASSUME NEW saved, NEW k \in Nat, NEW g, IsGrouper(g, saved, k), NEW n \in 1 .. k
  PROVE  PutBehind(g, saved, n)
<1>1. n \in 0 .. k /\ n # 0
  OBVIOUS
<1>2. PICK before, own, entry : before = g[n - 1] /\ own = saved[n].tx /\ entry = saved[n].entry
  OBVIOUS
<1>3. g[n] = [tx \in DOMAIN before \cup {own} |->
                 IF tx = own THEN Append(At(before, own), entry) ELSE before[tx]]
  BY <1>1, <1>2 DEF IsGrouper
<1>4. At(g[n], own) = Append(At(before, own), entry)
  BY <1>3 DEF At
<1>5. \A tx : tx # own => At(g[n], tx) = At(before, tx)
  BY <1>3 DEF At
<1>6. QED
  BY <1>2, <1>4, <1>5 DEF PutBehind

\* The entries e of one transaction, saved one after the other, are grouped to
\* e, and no other transaction gets any of them.
SavedFrom(saved, first, e, own) ==
    \A i \in 1 .. Len(e) : saved[first + i] = [tx |-> own, entry |-> e[i]]

GroupedTo(g, first, e, own) ==
    /\ At(g[first + Len(e)], own) = e
    /\ \A tx : tx # own => At(g[first + Len(e)], tx) = At(g[first], tx)

LEMMA GroupRun ==
  ASSUME NEW saved, NEW k \in Nat, NEW g, IsGrouper(g, saved, k),
         NEW first \in Nat, NEW S, NEW e \in Seq(S), NEW own, first + Len(e) <= k,
         SavedFrom(saved, first, e, own), At(g[first], own) = <<>>
  PROVE  GroupedTo(g, first, e, own)
<1> DEFINE Good(i) == /\ At(g[first + i], own) \in Seq(S)
                      /\ Len(At(g[first + i], own)) = i
                      /\ \A j \in 1 .. i : At(g[first + i], own)[j] = e[j]
                      /\ \A tx : tx # own => At(g[first + i], tx) = At(g[first], tx)
           Bad == {i \in 0 .. Len(e) : ~ Good(i)}
<1>1. PICK n \in Nat : n = Len(e) /\ DOMAIN e = 1 .. n /\ e \in [1 .. n -> S]
  BY LenProperties
<1>2. Good(0)
  <2>1. <<>> \in Seq(S) /\ Len(<<>>) = 0
    BY EmptySeq
  <2>2. At(g[first + 0], own) = <<>> /\ \A tx : At(g[first + 0], tx) = At(g[first], tx)
    <3>1. first + 0 = first
      OBVIOUS
    <3>2. QED
      BY <3>1
  <2>3. QED
    BY <2>1, <2>2
<1> HIDE DEF Good
<1>3. ASSUME NEW i \in 1 .. n, Good(i - 1) PROVE Good(i)
  <2>1. first + i \in 1 .. k /\ first + i - 1 = first + (i - 1)
    BY <1>1
  <2>2. saved[first + i].tx = own /\ saved[first + i].entry = e[i] /\ e[i] \in S
    <3>1. saved[first + i] = [tx |-> own, entry |-> e[i]] /\ e[i] \in S
      BY <1>1 DEF SavedFrom
    <3>2. QED
      BY <3>1
  <2>3. PICK before, after : before = At(g[first + (i - 1)], own) /\ after = At(g[first + i], own)
    OBVIOUS
  <2>4. /\ after = Append(before, e[i])
        /\ \A tx : tx # own => At(g[first + i], tx) = At(g[first + (i - 1)], tx)
    <3>1. PICK m \in 1 .. k : m = first + i /\ m - 1 = first + (i - 1)
      BY <2>1
    <3>2. /\ At(g[m], saved[m].tx) = Append(At(g[m - 1], saved[m].tx), saved[m].entry)
          /\ \A tx : tx # saved[m].tx => At(g[m], tx) = At(g[m - 1], tx)
      <4>1. PutBehind(g, saved, m)
        BY GroupStep
      <4>2. QED
        BY <4>1 DEF PutBehind
    <3>3. saved[m].tx = own /\ saved[m].entry = e[i]
      BY <2>2, <3>1
    <3>4. before = At(g[m - 1], own) /\ after = At(g[m], own)
      BY <2>3, <3>1
    <3>5. QED
      BY <3>1, <3>2, <3>3, <3>4
  <2>5. before \in Seq(S) /\ Len(before) = i - 1 /\ \A j \in 1 .. i - 1 : before[j] = e[j]
    BY <1>3, <2>3 DEF Good
  <2>6. after \in Seq(S) /\ Len(after) = i /\ \A j \in 1 .. i : after[j] = e[j]
    <3>1. /\ after \in Seq(S) /\ Len(after) = Len(before) + 1
          /\ after[Len(before) + 1] = e[i]
          /\ \A j \in 1 .. Len(before) : after[j] = before[j]
      BY <2>2, <2>4, <2>5, AppendProperties
    <3>2. Len(before) + 1 = i
      BY <2>5
    <3>3. \A j \in 1 .. i : j = i \/ j \in 1 .. i - 1
      OBVIOUS
    <3>4. QED
      BY <2>5, <3>1, <3>2, <3>3
  <2>7. QED
    BY <1>3, <2>3, <2>4, <2>6 DEF Good
<1>4. Good(n)
  <2>1. SUFFICES ASSUME Bad # {} PROVE FALSE
    BY <1>1
  <2>2. PICK i \in Bad : \A m \in Bad : i <= m
    <3>1. Bad \in SUBSET Nat
      BY <1>1
    <3> HIDE DEF Bad
    <3>2. QED BY <2>1, <3>1, LeastNumber
  <2>3. i \in 1 .. n
    BY <1>1, <1>2, <2>2
  <2>4. i - 1 \in 0 .. n /\ i - 1 \notin Bad
    BY <1>1, <2>2, <2>3
  <2>5. QED
    BY <1>1, <1>3, <2>2, <2>3, <2>4
<1>5. At(g[first + n], own) = e
  BY <1>1, <1>4, SeqEqual DEF Good
<1>6. QED
  BY <1>1, <1>4, <1>5 DEF Good, GroupedTo

\* Where the sequences that are joined begin: sequence k after Begin(f, k - 1).
Begin(f, k) == IF k = 0 THEN 0 ELSE Len(f[k])

\* The first k joined sequences hold each of them, one behind the other.
JoinedOK(f, seqs, S, k) ==
    /\ Begin(f, k) \in Nat
    /\ k # 0 => f[k] \in Seq(S)
    /\ \A j \in 1 .. k : /\ Begin(f, j) = Begin(f, j - 1) + Len(seqs[j])
                         /\ Begin(f, j - 1) \in Nat /\ Begin(f, j) <= Begin(f, k)
                         /\ \A i \in 1 .. Len(seqs[j]) : f[k][Begin(f, j - 1) + i] = seqs[j][i]

LEMMA FlattenPlaces ==
  ASSUME NEW S, NEW n \in Nat, NEW seqs, \A k \in 1 .. n : seqs[k] \in Seq(S),
         NEW f, IsFlattener(f, seqs, n)
  PROVE  JoinedOK(f, seqs, S, n)
<1> DEFINE Bad == {k \in 0 .. n : ~ JoinedOK(f, seqs, S, k)}
<1>1. JoinedOK(f, seqs, S, 0)
  BY DEF JoinedOK, Begin
<1>2. ASSUME NEW k \in 1 .. n, JoinedOK(f, seqs, S, k - 1) PROVE JoinedOK(f, seqs, S, k)
  <2>1. PICK last \in Seq(S) : last = seqs[k] /\ Len(last) \in Nat
    BY LenProperties
  <2>2. PICK b \in Nat : b = Begin(f, k - 1)
    BY <1>2 DEF JoinedOK
  <2>3. /\ f[k] \in Seq(S) /\ Len(f[k]) = b + Len(last)
        /\ \A i \in 1 .. b : f[k][i] = f[k - 1][i]
        /\ \A i \in 1 .. Len(last) : f[k][b + i] = last[i]
    <3>1. CASE k = 1
      <4>1. f[k] = last /\ b = 0
        BY <2>1, <2>2, <3>1 DEF IsFlattener, Begin
      <4>2. QED
        BY <2>1, <4>1
    <3>2. CASE k # 1
      <4>1. PICK init \in Seq(S) : init = f[k - 1]
        BY <1>2, <3>2 DEF JoinedOK
      <4>6. Len(init) = b
        BY <2>2, <3>2, <4>1 DEF Begin
      <4>7. f[k] = init \o last
        BY <2>1, <3>2, <4>1 DEF IsFlattener
      <4>2. /\ f[k] \in Seq(S) /\ Len(f[k]) = b + Len(last)
            /\ \A i \in 1 .. b + Len(last) : f[k][i] = IF i <= b THEN init[i] ELSE last[i - b]
        <5>1. /\ init \o last \in Seq(S) /\ Len(init \o last) = Len(init) + Len(last)
              /\ \A i \in 1 .. Len(init) + Len(last) :
                    (init \o last)[i] = IF i <= Len(init) THEN init[i] ELSE last[i - Len(init)]
          BY ConcatProperties
        <5>2. QED
          BY <4>6, <4>7, <5>1
      <4>3. \A i \in 1 .. b : i \in 1 .. b + Len(last) /\ i <= b
        BY <2>1
      <4>4. \A i \in 1 .. Len(last) : b + i \in 1 .. b + Len(last) /\ ~ (b + i <= b) /\ b + i - b = i
        BY <2>1
      <4>5. \A i \in 1 .. b : f[k][i] = f[k - 1][i]
        BY <4>1, <4>2, <4>3
      <4>8. \A i \in 1 .. Len(last) : f[k][b + i] = last[i]
        BY <4>2, <4>4
      <4>9. QED
        BY <4>2, <4>5, <4>8
    <3>3. QED
      BY <3>1, <3>2
  <2>4. Begin(f, k) = b + Len(last)
    BY <2>3 DEF Begin
  <2>5. ASSUME NEW j \in 1 .. k - 1
        PROVE  /\ Begin(f, j) = Begin(f, j - 1) + Len(seqs[j])
               /\ Begin(f, j - 1) \in Nat /\ Begin(f, j) <= Begin(f, k)
               /\ \A i \in 1 .. Len(seqs[j]) : f[k][Begin(f, j - 1) + i] = seqs[j][i]
    <3>1. PICK len \in Nat : len = Len(seqs[j])
      <4>1. j \in 1 .. n
        OBVIOUS
      <4>2. QED
        BY <4>1, LenProperties
    <3>2. PICK from \in Nat : from = Begin(f, j - 1)
      BY <1>2 DEF JoinedOK
    <3>3. /\ Begin(f, j) = from + len /\ from + len <= b
          /\ \A i \in 1 .. len : f[k - 1][from + i] = seqs[j][i]
      BY <1>2, <2>2, <3>1, <3>2 DEF JoinedOK
    <3>4. \A i \in 1 .. len : from + i \in 1 .. b
      BY <3>3
    <3>5. \A i \in 1 .. len : f[k][from + i] = seqs[j][i]
      BY <2>3, <3>3, <3>4
    <3>6. from + len <= Begin(f, k)
      BY <2>1, <2>4, <3>3
    <3>7. QED
      BY <3>1, <3>2, <3>3, <3>5, <3>6
  <2>6. ASSUME NEW j \in 1 .. k
        PROVE  /\ Begin(f, j) = Begin(f, j - 1) + Len(seqs[j])
               /\ Begin(f, j - 1) \in Nat /\ Begin(f, j) <= Begin(f, k)
               /\ \A i \in 1 .. Len(seqs[j]) : f[k][Begin(f, j - 1) + i] = seqs[j][i]
    <3>1. CASE j = k
      <4>1. b + Len(last) <= b + Len(last)
        BY <2>1
      <4>2. QED
        BY <2>1, <2>2, <2>3, <2>4, <3>1, <4>1
    <3>2. CASE j # k
      <4>1. j \in 1 .. k - 1
        BY <3>2
      <4>2. QED
        BY <2>5, <4>1
    <3>3. QED
      BY <3>1, <3>2
  <2>7. f[k] \in Seq(S) /\ Begin(f, k) \in Nat
    BY <2>1, <2>3, <2>4
  <2>8. QED
    BY <2>6, <2>7 DEF JoinedOK
<1>3. SUFFICES ASSUME Bad # {} PROVE FALSE
  OBVIOUS
<1>4. PICK k \in Bad : \A m \in Bad : k <= m
  <2>1. Bad \in SUBSET Nat
    OBVIOUS
  <2> HIDE DEF Bad
  <2>2. QED BY <1>3, <2>1, LeastNumber
<1>5. k \in 1 .. n
  BY <1>1, <1>4
<1>6. k - 1 \in 0 .. n /\ k - 1 \notin Bad
  BY <1>4, <1>5
<1>7. QED
  BY <1>2, <1>4, <1>5, <1>6

\* A load groups the saved entries to those that each transaction has.
LEMMA EntriesReturn ==
  ASSUME TypeOK, NEW tx \in DOMAIN transactions
  PROVE  At(Grouped(SavedEntries), tx) = entriesByTxId[tx]
<1> DEFINE seqs == [k \in DOMAIN transactions |->
                       [i \in DOMAIN entriesByTxId[k] |-> [tx |-> k, entry |-> entriesByTxId[k][i]]]]
           Tagged == [tx : Nat, entry : Entry]
<1>1. PICK n \in Nat : n = Len(transactions) /\ DOMAIN transactions = 1 .. n /\ DOMAIN entriesByTxId = 1 .. n
  BY LenProperties DEF TypeOK
<1>2. n # 0 /\ tx \in 1 .. n
  BY <1>1
<1>3. ASSUME NEW k \in 1 .. n
      PROVE  /\ entriesByTxId[k] \in Seq(Entry) /\ seqs[k] \in Seq(Tagged)
             /\ Len(seqs[k]) = Len(entriesByTxId[k])
             /\ \A i \in 1 .. Len(entriesByTxId[k]) : seqs[k][i] = [tx |-> k, entry |-> entriesByTxId[k][i]]
  <2>1. PICK e \in Seq(Entry) : e = entriesByTxId[k]
    BY <1>1 DEF TypeOK
  <2>2. PICK m \in Nat : m = Len(e) /\ DOMAIN e = 1 .. m /\ \A i \in 1 .. m : e[i] \in Entry
    BY LenProperties
  <2>3. seqs[k] = [i \in 1 .. m |-> [tx |-> k, entry |-> e[i]]]
    BY <1>1, <2>1, <2>2
  <2>4. seqs[k] \in [1 .. m -> Tagged]
    <3>1. \A i \in 1 .. m : [tx |-> k, entry |-> e[i]] \in Tagged
      BY <2>2
    <3> HIDE DEF seqs, Tagged
    <3>2. QED
      BY <2>3, <3>1
  <2>5. seqs[k] \in Seq(Tagged) /\ Len(seqs[k]) = m
    <3> HIDE DEF seqs, Tagged
    <3> QED BY <2>4
  <2>6. QED
    BY <2>1, <2>2, <2>3, <2>5
<1>4. Len(seqs) = n
  BY <1>1
<1>5. SavedEntries = FlattenSeq(seqs)
  BY DEF SavedEntries
<1> HIDE DEF seqs, Tagged
<1>6. PICK f, saved : IsFlattener(f, seqs, n) /\ saved = f[n] /\ SavedEntries = saved
  BY <1>2, <1>4, <1>5, FlattenUnfold
<1>7. JoinedOK(f, seqs, Tagged, n)
  BY <1>3, <1>6, FlattenPlaces
<1>8. PICK len \in Nat : len = Len(saved) /\ len = Begin(f, n)
  BY <1>2, <1>6, <1>7 DEF JoinedOK, Begin
<1>9. PICK g : IsGrouper(g, saved, len) /\ Grouped(saved) = g[len]
  BY <1>8, GroupUnfold
<1> DEFINE Good(k) == \A t \in 1 .. n : At(g[Begin(f, k)], t) = IF t <= k THEN entriesByTxId[t] ELSE <<>>
           Bad == {k \in 0 .. n : ~ Good(k)}
<1>10. Good(0)
  <2>1. g[0] = <<>>
    BY <1>9 DEF IsGrouper
  <2>2. DOMAIN <<>> = {}
    OBVIOUS
  <2>3. QED
    BY <2>1, <2>2 DEF At, Begin
<1>11. ASSUME NEW k \in 1 .. n, Good(k - 1) PROVE Good(k)
  <2>1. PICK e \in Seq(Entry), first \in Nat : e = entriesByTxId[k] /\ first = Begin(f, k - 1)
    BY <1>3, <1>7 DEF JoinedOK
  <2>2. /\ Begin(f, k) = first + Len(e) /\ first + Len(e) <= len
        /\ SavedFrom(saved, first, e, k)
    BY <1>3, <1>6, <1>7, <1>8, <2>1 DEF JoinedOK, SavedFrom
  <2>3. At(g[first], k) = <<>>
    BY <1>11, <2>1
  <2>4. GroupedTo(g, first, e, k)
    <3> HIDE DEF Good
    <3> QED BY <1>9, <2>2, <2>3, GroupRun
  <2>5. ASSUME NEW t \in 1 .. n PROVE At(g[Begin(f, k)], t) = IF t <= k THEN entriesByTxId[t] ELSE <<>>
    <3>1. CASE t = k
      BY <2>1, <2>2, <2>4, <3>1 DEF GroupedTo
    <3>2. CASE t # k
      <4>1. At(g[Begin(f, k)], t) = IF t <= k - 1 THEN entriesByTxId[t] ELSE <<>>
        BY <1>11, <2>1, <2>2, <2>4, <3>2 DEF GroupedTo
      <4>2. t <= k - 1 <=> t <= k
        BY <3>2
      <4>3. QED
        BY <4>1, <4>2
    <3>3. QED
      BY <3>1, <3>2
  <2>6. QED
    BY <2>5
<1>12. Good(n)
  <2>1. SUFFICES ASSUME Bad # {} PROVE FALSE
    OBVIOUS
  <2>2. PICK k \in Bad : \A m \in Bad : k <= m
    <3>1. Bad \in SUBSET Nat
      OBVIOUS
    <3> HIDE DEF Bad
    <3>2. QED BY <2>1, <3>1, LeastNumber
  <2> HIDE DEF Good
  <2>3. k \in 1 .. n
    BY <1>10, <2>2
  <2>4. k - 1 \in 0 .. n /\ k - 1 \notin Bad
    BY <2>2, <2>3
  <2>5. QED
    BY <1>11, <2>2, <2>3, <2>4
<1>13. QED
  BY <1>2, <1>6, <1>8, <1>9, <1>12

\* A load gives each transaction the consumptions it had.
LEMMA ConsumptionsReturn ==
  ASSUME TypeOK, NEW tx \in DOMAIN transactions
  PROVE  At(GroupedConsumptions(SavedConsumptions), tx) = consumptionsBySpendTx[tx]
<1>1. PICK taken : taken = consumptionsBySpendTx[tx] /\ taken = [l \in DOMAIN taken |-> taken[l]]
  BY DEF TypeOK
<1>2. PICK saved : saved = SavedConsumptions
  OBVIOUS
<1>3. \A l \in DOMAIN taken : [tx |-> tx, lot |-> l, amount |-> taken[l]] \in saved
  BY <1>1, <1>2 DEF SavedConsumptions
<1>4. \A one \in saved : one.tx = tx => one.lot \in DOMAIN taken /\ one.amount = taken[one.lot]
  BY <1>1, <1>2 DEF SavedConsumptions
<1>5. CASE DOMAIN taken = {}
  <2>1. tx \notin {one.tx : one \in saved}
    BY <1>4, <1>5
  <2>2. At(GroupedConsumptions(saved), tx) = <<>>
    BY <2>1 DEF At, GroupedConsumptions
  <2>3. taken = <<>>
    BY <1>1, <1>5
  <2>4. QED
    BY <1>1, <1>2, <2>2, <2>3
<1>6. CASE DOMAIN taken # {}
  <2>1. tx \in {one.tx : one \in saved}
    <3>1. PICK l \in DOMAIN taken : [tx |-> tx, lot |-> l, amount |-> taken[l]] \in saved
      BY <1>3, <1>6
    <3>2. [tx |-> tx, lot |-> l, amount |-> taken[l]].tx = tx
      OBVIOUS
    <3>3. QED
      BY <3>1, <3>2
  <2>2. At(GroupedConsumptions(saved), tx) =
            [l \in {one.lot : one \in {c \in saved : c.tx = tx}} |->
                (CHOOSE one \in saved : one.tx = tx /\ one.lot = l).amount]
    BY <2>1 DEF At, GroupedConsumptions
  <2>3. {one.lot : one \in {c \in saved : c.tx = tx}} = DOMAIN taken
    <3>1. ASSUME NEW l \in DOMAIN taken PROVE \E one \in saved : one.tx = tx /\ one.lot = l
      BY <1>3
    <3>2. QED
      BY <1>4, <3>1
  <2>4. ASSUME NEW l \in DOMAIN taken
        PROVE  (CHOOSE one \in saved : one.tx = tx /\ one.lot = l).amount = taken[l]
    <3>1. \E one \in saved : one.tx = tx /\ one.lot = l
      BY <1>3
    <3>2. QED
      BY <1>4, <3>1
  <2>5. QED
    BY <1>1, <1>2, <2>2, <2>3, <2>4
<1>7. QED
  BY <1>5, <1>6

\* A load rebuilds the index of what was reversed.
LEMMA ReversalsReturn ==
  ASSUME TypeOK, ReversalIntegrity, Null \notin DOMAIN reversalBySourceTxId
  PROVE  RebuiltReversals = reversalBySourceTxId
<1> DEFINE Rebuilt(src) == CHOOSE tx \in DOMAIN transactions :
              /\ transactions[tx].reversalOf = src
              /\ \A later \in DOMAIN transactions : later > tx => transactions[later].reversalOf # src
<1>1. DOMAIN transactions \subseteq Nat
  BY LenProperties DEF TypeOK
<1>2. \A s \in DOMAIN reversalBySourceTxId :
         /\ reversalBySourceTxId[s] \in DOMAIN transactions
         /\ transactions[reversalBySourceTxId[s]].reversalOf = s
  BY DEF TypeOK, ReversalIntegrity
<1>3. \A tx \in DOMAIN transactions :
         transactions[tx].reversalOf # Null =>
            /\ transactions[tx].reversalOf \in DOMAIN reversalBySourceTxId
            /\ reversalBySourceTxId[transactions[tx].reversalOf] = tx
  BY DEF ReversalIntegrity
<1>4. {transactions[tx].reversalOf : tx \in DOMAIN transactions} \ {Null} = DOMAIN reversalBySourceTxId
  BY <1>2, <1>3
<1>5. ASSUME NEW s \in DOMAIN reversalBySourceTxId PROVE Rebuilt(s) = reversalBySourceTxId[s]
  <2>1. PICK r \in DOMAIN transactions : r = reversalBySourceTxId[s] /\ transactions[r].reversalOf = s
    BY <1>2
  <2>2. \A tx \in DOMAIN transactions : transactions[tx].reversalOf = s => tx = r
    BY <1>3, <2>1
  <2>3. \A later \in DOMAIN transactions : later > r => later # r
    BY <1>1
  <2>4. QED
    BY <2>1, <2>2, <2>3
<1>6. reversalBySourceTxId = [s \in DOMAIN reversalBySourceTxId |-> reversalBySourceTxId[s]]
  BY DEF TypeOK
<1>7. RebuiltReversals = [s \in DOMAIN reversalBySourceTxId |-> Rebuilt(s)]
  BY <1>4 DEF RebuiltReversals
<1> HIDE DEF Rebuilt
<1>8. QED
  BY <1>5, <1>6, <1>7

\* What a process loads is the journal that was saved, whenever it was: every
\* transaction has its entries, in their order, and its consumptions, and
\* what was reversed is known (snapshot, importState).
THEOREM RestartLosesNothing == Spec => []RestartKeepsJournal
<1>1. TypeOK /\ ReversalIntegrity => RestartKeepsJournal
  <2>1. SUFFICES ASSUME TypeOK, ReversalIntegrity PROVE RestartKeepsJournal
    OBVIOUS
  <2>2. Null \notin DOMAIN reversalBySourceTxId
    <3>1. DOMAIN reversalBySourceTxId \subseteq Nat
      BY <2>1, LenProperties DEF TypeOK
    <3>2. QED
      BY <3>1, NullAssumption
  <2>3. QED
    BY <2>1, <2>2, EntriesReturn, ConsumptionsReturn, ReversalsReturn DEF RestartKeepsJournal
<1>2. QED
  BY <1>1, TypeCorrect, ReversalsAreSound, PTL
=============================================================================
