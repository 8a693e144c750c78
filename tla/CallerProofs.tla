--------------------------- MODULE CallerProofs ----------------------------
(***************************************************************************)
(* What groups of callers can rely on, for every value of the constants.   *)
(* For those who grant points only as lots: lots back balances, and no     *)
(* batch fails.  For the owners of accounts: no other member spends them.  *)
(***************************************************************************)
EXTENDS LedgerHistoryProofs, DisciplinedLedger, HttpApi

-----------------------------------------------------------------------------
(* Sums over lots and entries.                                             *)

\* The entries of a sequence are entries.
LEMMA EntryTypes ==
  ASSUME NEW e \in Seq(Entry)
  PROVE  \A i \in DOMAIN e : e[i].amount \in Int /\ e[i].account \in AccountIds
<1>1. \A i \in DOMAIN e : e[i] \in Entry
  BY LenProperties, ElementOfSeq
<1>2. QED
  BY <1>1 DEF Entry

\* A sum over one index.
LEMMA SumSingle ==
  ASSUME NEW f, NEW x, f[x] \in Int
  PROVE  SumFunctionOnSet(f, {x}) = f[x]
<1>1. SumFunctionOnSet(f, {} \cup {x}) = f[x] + SumFunctionOnSet(f, {})
  <2>1. IsFiniteSet({}) /\ x \notin {} /\ \A y \in {} \cup {x} : f[y] \in Int
    BY FS_EmptySet
  <2>2. QED
    BY <2>1, SumAdd
<1>2. {} \cup {x} = {x}
  OBVIOUS
<1>3. QED
  BY <1>1, <1>2, SumEmpty

\* The lots that transaction tx grants for its entries on account a hold what
\* these entries add.
LEMMA GrantsSum ==
  ASSUME NEW e \in Seq(Entry), NEW tx, NEW a, NEW f,
         \A i \in DOMAIN e : e[i].account = a => f[<<tx, i>>] = e[i].amount
  PROVE  SumFunctionOnSet(f, {tx} \X {i \in DOMAIN e : e[i].account = a}) = Delta(e, a)
<1> DEFINE A == {i \in DOMAIN e : e[i].account = a}
           I == {tx} \X A
           k == [l \in I |-> l[2]]
<1>1. IsFiniteSet(A)
  BY FiniteIndexes
<1>2. IsFiniteSet(I)
  BY <1>1, FS_Singleton, FS_Product
<1>3. \A i \in DOMAIN e : e[i].amount \in Int
  BY EntryTypes
<1>4. \A l \in I : f[l] \in Int
  BY <1>3
<1>5. SumsGroups(Amounts(e), A, f, I, k)
  <2> SUFFICES ASSUME NEW i \in A PROVE Amounts(e)[i] = SumFunctionOnSet(f, Members(I, k, {i}))
    BY DEF SumsGroups
  <2>1. Members(I, k, {i}) = {<<tx, i>>}
    BY DEF Members
  <2>2. SumFunctionOnSet(f, {<<tx, i>>}) = f[<<tx, i>>]
    BY <1>3, SumSingle
  <2>3. QED
    BY <2>1, <2>2 DEF Amounts
<1>6. Members(I, k, A) = I
  BY DEF Members
<1> HIDE DEF A, I, k
<1>7. SumFunctionOnSet(Amounts(e), A) = SumFunctionOnSet(f, I)
  BY <1>1, <1>2, <1>4, <1>5, <1>6, SumByGroup
<1>8. QED
  BY <1>7 DEF A, I, Delta

\* A movement between two accounts, as the second does not see it.
LEMMA DeltaOfPair ==
  ASSUME NEW e \in Seq(Entry), Len(e) = 2, NEW a, e[2].account # a
  PROVE  Delta(e, a) = IF e[1].account = a THEN e[1].amount ELSE 0
<1>1. DOMAIN e = {1, 2} /\ e[1].amount \in Int
  <2>1. DOMAIN e = {1, 2}
    BY LenProperties
  <2>2. QED
    BY <2>1, EntryTypes
<1>2. CASE e[1].account = a
  <2>1. {i \in DOMAIN e : e[i].account = a} = {1}
    BY <1>1, <1>2
  <2>2. Amounts(e)[1] = e[1].amount
    BY <1>1 DEF Amounts
  <2>3. SumFunctionOnSet(Amounts(e), {1}) = Amounts(e)[1]
    BY <1>1, <2>2, SumSingle
  <2>4. QED
    BY <1>2, <2>1, <2>2, <2>3 DEF Delta
<1>3. CASE e[1].account # a
  <2>1. \A i \in DOMAIN e : e[i].account # a
    BY <1>1, <1>3
  <2>2. QED
    BY <1>3, <2>1, DeltaOfOthers
<1>4. QED
  BY <1>2, <1>3

\* The mirror of a movement undoes it.
LEMMA DeltaOfMirror ==
  ASSUME NEW e \in Seq(Entry), NEW a
  PROVE  Delta(Mirror(e), a) = - Delta(e, a)
<1> DEFINE A == {i \in DOMAIN e : e[i].account = a}
<1>1. DOMAIN Mirror(e) = DOMAIN e
  BY DEF Mirror
<1>2. {i \in DOMAIN Mirror(e) : Mirror(e)[i].account = a} = A
  BY <1>1 DEF Mirror
<1>3. IsFiniteSet(A)
  BY FiniteIndexes
<1>4. \A i \in A : Amounts(e)[i] \in Int /\ Amounts(Mirror(e))[i] = - Amounts(e)[i]
  BY <1>1, EntryTypes DEF Amounts, Mirror
<1> HIDE DEF A
<1>5. SumFunctionOnSet(Amounts(Mirror(e)), A) = - SumFunctionOnSet(Amounts(e), A)
  BY <1>3, <1>4, SumNegated
<1>6. QED
  BY <1>2, <1>5 DEF Delta, A

\* The lots of account a, and what they have left.
LotsOf(a) == {l \in DOMAIN lots : lots[l].account = a}

\* What the lots of an account have left changes by what old lots get and new
\* lots hold.
LEMMA RemainingMoves ==
  ASSUME TypeOK, TypeOK', NEW a, NEW c, DOMAIN lots \subseteq DOMAIN lots',
         \A l \in DOMAIN lots : /\ c[l] \in Int
                                /\ lots'[l].account = lots[l].account
                                /\ lots'[l].remaining = lots[l].remaining + c[l]
  PROVE  Remaining(LotsOf(a))' =
            Remaining(LotsOf(a)) + SumFunctionOnSet(c, LotsOf(a))
            + SumFunctionOnSet([l \in DOMAIN lots' |-> lots'[l].remaining], LotsOf(a)' \ LotsOf(a))
<1> DEFINE old == LotsOf(a)
           new == LotsOf(a)' \ LotsOf(a)
           f == [l \in DOMAIN lots |-> lots[l].remaining]
           g == [l \in DOMAIN lots' |-> lots'[l].remaining]
<1>1. IsFiniteSet(old) /\ IsFiniteSet(new)
  <2>1. IsFiniteSet(DOMAIN lots) /\ IsFiniteSet(DOMAIN lots')
    BY DEF TypeOK
  <2>2. old \subseteq DOMAIN lots /\ new \subseteq DOMAIN lots'
    BY DEF LotsOf
  <2>3. QED
    BY <2>1, <2>2, FS_Subset
<1>2. LotsOf(a)' = old \cup new /\ old \cap new = {}
  BY DEF LotsOf
<1>3. \A l \in old : f[l] \in Int /\ c[l] \in Int /\ g[l] = f[l] + c[l]
  BY DEF LotsOf, TypeOK, Lot
<1>4. \A l \in old \cup new : g[l] \in Int
  BY DEF LotsOf, TypeOK, Lot
<1>5. Remaining(LotsOf(a)) = SumFunctionOnSet(f, old) /\ Remaining(LotsOf(a))' = SumFunctionOnSet(g, LotsOf(a)')
  BY DEF Remaining
<1> HIDE DEF old, new, f, g
<1>6. SumFunctionOnSet(g, old) = SumFunctionOnSet(f, old) + SumFunctionOnSet(c, old)
  BY <1>1, <1>3, SumOfTwo
<1>7. SumFunctionOnSet(g, old \cup new) = SumFunctionOnSet(g, old) + SumFunctionOnSet(g, new)
  BY <1>1, <1>2, <1>4, SumUnion
<1>8. QED
  BY <1>2, <1>5, <1>6, <1>7 DEF old, new, g

\* A sum over what a plan takes is a sum over any lots that include the plan's.
LEMMA TakenSum ==
  ASSUME NEW S, IsFiniteSet(S), NEW p, DOMAIN p \subseteq S, \A l \in DOMAIN p : p[l] \in Int,
         NEW c, \A l \in S : c[l] = IF l \in DOMAIN p THEN p[l] ELSE 0
  PROVE  SumFunctionOnSet(c, S) = SumFunction(p)
<1> DEFINE A == DOMAIN p
           B == S \ DOMAIN p
<1>1. IsFiniteSet(A) /\ IsFiniteSet(B)
  BY FS_Subset
<1>2. S = A \cup B /\ A \cap B = {} /\ \A l \in A \cup B : c[l] \in Int
  OBVIOUS
<1>3. SumFunctionOnSet(c, A) = SumFunctionOnSet(p, A)
  <2>1. \A l \in A : c[l] = p[l]
    OBVIOUS
  <2> HIDE DEF A
  <2>2. QED
    BY <1>1, <2>1, SumAgree
<1>4. SumFunctionOnSet(c, B) = 0
  <2>1. \A l \in B : c[l] = 0
    OBVIOUS
  <2> HIDE DEF B
  <2>2. QED
    BY <1>1, <2>1, SumZero
<1>5. SumFunctionOnSet(c, A) \in Int
  <2>1. \A l \in A : c[l] \in Int
    OBVIOUS
  <2> HIDE DEF A
  <2>2. QED
    BY <1>1, <2>1, SumInt
<1> HIDE DEF A, B
<1>6. SumFunctionOnSet(c, A \cup B) = SumFunctionOnSet(c, A) + SumFunctionOnSet(c, B)
  BY <1>1, <1>2, SumUnion
<1>7. SumFunction(p) = SumFunctionOnSet(p, A)
  BY SumOfFunction DEF A
<1>8. QED
  BY <1>2, <1>3, <1>4, <1>5, <1>6, <1>7

-----------------------------------------------------------------------------
(* Lots and the transactions they come from.                               *)

\* A lot is what an entry of its transaction granted.
LotFromEntry(l) ==
    /\ l[1] \in DOMAIN transactions
    /\ l[2] \in DOMAIN entriesByTxId[l[1]]
    /\ lots[l].original = entriesByTxId[l[1]][l[2]].amount
    /\ lots[l].account = entriesByTxId[l[1]][l[2]].account
    /\ lots[l].tenant = transactions[l[1]].tenant

\* Every entry of an EARN on a user account has its lot.
EarnGranted(tx) ==
    transactions[tx].txType = "EARN" =>
        \A i \in DOMAIN entriesByTxId[tx] :
            IsUser(entriesByTxId[tx][i].account) => <<tx, i>> \in DOMAIN lots

\* A SPEND took from lots of its account, which it debits, what it credits to
\* an account of no user.
SpendTook(tx) ==
    transactions[tx].txType = "SPEND" =>
        /\ Len(entriesByTxId[tx]) = 2
        /\ entriesByTxId[tx][1].amount = - entriesByTxId[tx][2].amount
        /\ entriesByTxId[tx][2].amount = SumFunction(consumptionsBySpendTx[tx])
        /\ ~ IsUser(entriesByTxId[tx][2].account)
        /\ \A l \in DOMAIN consumptionsBySpendTx[tx] :
              lots[l].account = entriesByTxId[tx][1].account

Traced ==
    /\ \A l \in DOMAIN lots : LotFromEntry(l)
    /\ \A tx \in DOMAIN transactions : EarnGranted(tx) /\ SpendTook(tx)

\* What was traced to its transaction stays so, and what is new must be.
LEMMA TracedMore ==
  ASSUME TypeOK, MovementsOK, Traced,
         \A a \in DOMAIN accounts : a \in DOMAIN accounts' /\ accounts'[a] = accounts[a],
         \A l \in DOMAIN lots : l \in DOMAIN lots' /\ Terms(lots'[l]) = Terms(lots[l]),
         \A t \in DOMAIN transactions :
            /\ t \in DOMAIN transactions'
            /\ transactions'[t].txType = transactions[t].txType
            /\ transactions'[t].tenant = transactions[t].tenant
            /\ entriesByTxId'[t] = entriesByTxId[t]
            /\ consumptionsBySpendTx'[t] = consumptionsBySpendTx[t],
         \A l \in DOMAIN lots' \ DOMAIN lots : LotFromEntry(l)',
         \A t \in DOMAIN transactions' \ DOMAIN transactions : EarnGranted(t)' /\ SpendTook(t)'
  PROVE  Traced'
<1>1. \A l \in DOMAIN lots : /\ lots'[l].account = lots[l].account
                             /\ lots'[l].tenant = lots[l].tenant
                             /\ lots'[l].original = lots[l].original
  BY DEF Terms
<1>2. \A a \in DOMAIN accounts : IsUser(a)' = IsUser(a)
  BY DEF IsUser
<1>3. ASSUME NEW l \in DOMAIN lots PROVE LotFromEntry(l)'
  <2>1. LotFromEntry(l)
    BY DEF Traced
  <2>2. QED
    BY <1>1, <2>1 DEF LotFromEntry
<1>4. \A t \in DOMAIN transactions : \A i \in DOMAIN entriesByTxId[t] :
         IsUser(entriesByTxId[t][i].account)' = IsUser(entriesByTxId[t][i].account)
  <2> SUFFICES ASSUME NEW t \in DOMAIN transactions, NEW i \in DOMAIN entriesByTxId[t]
               PROVE  IsUser(entriesByTxId[t][i].account)' = IsUser(entriesByTxId[t][i].account)
    OBVIOUS
  <2>1. entriesByTxId[t][i].account \in DOMAIN accounts
    BY RecordedEntries DEF MovementsOK
  <2>2. entriesByTxId'[t][i].account = entriesByTxId[t][i].account
    OBVIOUS
  <2>3. QED
    BY <1>2, <2>1, <2>2 DEF IsUser
<1>5. ASSUME NEW t \in DOMAIN transactions PROVE EarnGranted(t)' /\ SpendTook(t)'
  <2>1. EarnGranted(t) /\ SpendTook(t)
    BY DEF Traced
  <2>2. EarnGranted(t)'
    BY <1>4, <2>1 DEF EarnGranted
  <2>3. DOMAIN consumptionsBySpendTx[t] \subseteq DOMAIN lots
    BY DEF TypeOK
  <2>4. transactions[t].txType = "SPEND" => 2 \in DOMAIN entriesByTxId[t]
    BY <2>1, RecordedEntries, LenProperties DEF SpendTook
  <2>5. SpendTook(t)'
    BY <1>1, <1>4, <2>1, <2>3, <2>4 DEF SpendTook
  <2>6. QED
    BY <2>2, <2>5
<1>6. QED
  BY <1>3, <1>5 DEF Traced

-----------------------------------------------------------------------------
(* The steps of disciplined callers.                                       *)

\* What a disciplined step can do to the ledger.
LEMMA DisciplinedCases ==
  ASSUME TypeOK, [DisciplinedNext]_vars
  PROVE  \/ UNCHANGED ledger /\ \A a : InFlight(a)' = InFlight(a)
         \/ \E in \in AccountInputs :
               /\ accounts' = Append(accounts, NewAccount(in))
               /\ balances' = Put(balances, Len(accounts) + 1, 0)
               /\ UNCHANGED <<lots, journal, indexes, batch>>
         \/ \E in \in PostInputs :
               batch = Null /\ Disciplined(in) /\ PostVerdict(in) = "OK" /\ PostAccepted(in)
         \/ \E tenant \in Tenants, src \in DOMAIN transactions, actor \in Actors \cup {Null} :
               /\ batch = Null
               /\ Reversible(src)
               /\ transactions[src].tenant = tenant
               /\ src \notin DOMAIN reversalBySourceTxId
               /\ ReversalVerdict(tenant, src) = "OK"
               /\ ReversalAccepted(tenant, src, actor)
         \/ ExpirePost
         \/ ExpireMark
<1> DEFINE Same == UNCHANGED ledger /\ \A a : InFlight(a)' = InFlight(a)
<1>1. ASSUME UNCHANGED ledger, UNCHANGED batch PROVE Same
  BY <1>1 DEF ledger, InFlight
<1>2. CASE Tick \/ UNCHANGED vars
  BY <1>1, <1>2 DEF Tick, vars
<1>3. CASE ExpireAbort \/ ExpireEnd
  BY <1>3 DEF ExpireAbort, ExpireEnd, InFlight
<1>4. ASSUME NEW in \in AccountInputs, CreateAccount(in)
      PROVE  \/ Same
             \/ /\ accounts' = Append(accounts, NewAccount(in))
                /\ balances' = Put(balances, Len(accounts) + 1, 0)
                /\ UNCHANGED <<lots, journal, indexes, batch>>
  BY <1>1, <1>4 DEF CreateAccount, Answered
<1>5. ASSUME NEW in \in PostInputs, PostTransaction(in)
      PROVE  Same \/ (batch = Null /\ PostVerdict(in) = "OK" /\ PostAccepted(in))
  BY <1>1, <1>5 DEF PostTransaction, Detail, Answered
<1>6. ASSUME NEW t \in Tenants, NEW src \in 1 .. Len(transactions) + 1,
             NEW actor \in Actors \cup {Null}, ReverseTransaction(t, src, actor)
      PROVE  \/ Same
             \/ /\ src \in DOMAIN transactions
                /\ batch = Null
                /\ transactions[src].tenant = t
                /\ src \notin DOMAIN reversalBySourceTxId
                /\ ReversalVerdict(t, src) = "OK"
                /\ ReversalAccepted(t, src, actor)
  BY <1>1, <1>6 DEF ReverseTransaction, HasTransaction, Detail, Answered
<1>7. ASSUME NEW t \in Tenants, NEW now \in Times, ExpireBegin(t, now)
      PROVE  Same
  BY <1>1, <1>7 DEF ExpireBegin, Answered, InFlight
<1> HIDE DEF Same
<1>8. QED
  BY <1>1, <1>2, <1>3, <1>4, <1>5, <1>6, <1>7 DEF DisciplinedNext, ExpireStep, Same

\* Disciplined callers are callers.
LEMMA DisciplinedIsNext ==
  ASSUME DisciplinedNext
  PROVE  Next
BY DEF DisciplinedNext, Next

Settled == Typed /\ ReversalIntegrity /\ LotsOK /\ LotsOwned /\ MovementsOK

\* Every step keeps lots and spends traced to their transactions.
LEMMA TracedStep ==
  ASSUME Settled, Traced, [DisciplinedNext]_vars
  PROVE  Traced'
<1>1. TypeOK
  BY DEF Settled, Typed
<1>2. PICK n : n = Len(transactions) + 1
  OBVIOUS
<1>3. [Next]_vars
  BY DisciplinedIsNext
<1>4. \A l \in DOMAIN lots : l \in DOMAIN lots' /\ Terms(lots'[l]) = Terms(lots[l])
  BY <1>3, LotsKeepTerms DEF Settled
<1>5. ASSUME NEW rec, transactions' = Append(transactions, rec)
      PROVE  /\ DOMAIN transactions' = DOMAIN transactions \cup {n} /\ transactions'[n] = rec
             /\ \A t \in DOMAIN transactions : transactions'[t] = transactions[t]
  BY <1>1, <1>2, <1>5, LenProperties DEF TypeOK
<1>6. ASSUME NEW e, entriesByTxId' = Append(entriesByTxId, e)
      PROVE  /\ \A t \in DOMAIN transactions : entriesByTxId'[t] = entriesByTxId[t]
             /\ entriesByTxId'[n] = e
  BY <1>1, <1>2, <1>6, LenProperties DEF TypeOK
<1>7. ASSUME NEW plan, consumptionsBySpendTx' = Put(consumptionsBySpendTx, n, plan)
      PROVE  /\ \A t \in DOMAIN transactions : consumptionsBySpendTx'[t] = consumptionsBySpendTx[t]
             /\ consumptionsBySpendTx'[n] = plan
  <2>1. n \notin DOMAIN transactions /\ DOMAIN transactions = DOMAIN consumptionsBySpendTx
    BY <1>1, <1>2, LenProperties DEF TypeOK
  <2>2. QED
    BY <1>7, <2>1 DEF Put
<1>8. ASSUME UNCHANGED ledger PROVE Traced'
  BY <1>8 DEF ledger, journal, Traced, LotFromEntry, EarnGranted, SpendTook, IsUser
<1>9. ASSUME NEW in \in AccountInputs, accounts' = Append(accounts, NewAccount(in)),
             UNCHANGED <<lots, journal, indexes, batch>>
      PROVE  Traced'
  <2>1. \A a \in DOMAIN accounts : a \in DOMAIN accounts' /\ accounts'[a] = accounts[a]
    BY <1>1, <1>9, LenProperties DEF TypeOK
  <2>2. UNCHANGED <<lots, transactions, entriesByTxId, consumptionsBySpendTx>>
    BY <1>9 DEF journal
  <2>3. QED
    BY <1>1, <2>1, <2>2, TracedMore DEF Settled
<1>10. ASSUME NEW in \in PostInputs, batch = Null, Disciplined(in), PostVerdict(in) = "OK",
              PostAccepted(in)
       PROVE  Traced'
  <2> DEFINE rec == Transaction(in.tenant, in.txType, in.actor, TrimmedKey(in.key), Null)
  <2>1. /\ InputVerdict(in) = "OK"
        /\ MovementVerdict(in.tenant, EntriesOf(in), "TX_SUM_NOT_ZERO") = "OK"
    BY <1>10 DEF PostVerdict
  <2>2. /\ lots' = LotsAfterPost(in, n)
        /\ transactions' = Append(transactions, rec)
        /\ entriesByTxId' = Append(entriesByTxId, EntriesOf(in))
        /\ consumptionsBySpendTx' = Put(consumptionsBySpendTx, n, PlanOf(in))
        /\ accounts' = accounts
    BY <1>1, <1>2, <1>10, <2>1, PostRecords
  <2>3. rec.txType = in.txType /\ rec.tenant = in.tenant
    BY DEF Transaction
  <2> HIDE DEF rec
  <2>4. /\ DOMAIN lots' = DOMAIN lots \cup Granted(in, n)
        /\ \A l \in Granted(in, n) :
              /\ lots'[l] = NewLot(in, l[2]) /\ l[1] = n /\ in.txType # "SPEND"
              /\ l[2] \in DOMAIN in.entries
    BY <1>1, <1>2, <2>1, <2>2, PostedLots DEF Settled, LotsOK
  <2>5. ASSUME NEW l \in DOMAIN lots' \ DOMAIN lots PROVE LotFromEntry(l)'
    <3>1. lots'[l] = NewLot(in, l[2]) /\ l[1] = n /\ in.txType # "SPEND" /\ l[2] \in DOMAIN in.entries
      BY <2>4
    <3>2. /\ lots'[l].original = in.entries[l[2]].amount
          /\ lots'[l].account = in.entries[l[2]].account
          /\ lots'[l].tenant = in.tenant
      BY <3>1 DEF NewLot
    <3>3. /\ DOMAIN EntriesOf(in) = DOMAIN in.entries
          /\ EntriesOf(in)[l[2]].amount = in.entries[l[2]].amount
          /\ EntriesOf(in)[l[2]].account = in.entries[l[2]].account
      BY <3>1 DEF EntriesOf
    <3>4. n \in DOMAIN transactions' /\ transactions'[n].tenant = in.tenant /\ entriesByTxId'[n] = EntriesOf(in)
      BY <1>5, <1>6, <2>2, <2>3
    <3>5. QED
      BY <3>1, <3>2, <3>3, <3>4 DEF LotFromEntry
  <2>6. EarnGranted(n)'
    <3> SUFFICES ASSUME in.txType = "EARN", NEW i \in DOMAIN EntriesOf(in),
                        IsUser(EntriesOf(in)[i].account)
                 PROVE  <<n, i>> \in DOMAIN lots'
      <4>1. transactions'[n].txType = in.txType /\ entriesByTxId'[n] = EntriesOf(in)
        BY <1>5, <1>6, <2>2, <2>3
      <4>2. \A i \in DOMAIN EntriesOf(in) :
               IsUser(entriesByTxId[n][i].account)' => IsUser(EntriesOf(in)[i].account)
        BY <2>2, <4>1 DEF IsUser
      <4>3. QED
        BY <4>1, <4>2 DEF EarnGranted
    <3>1. i \in DOMAIN in.entries /\ EntriesOf(in)[i].account = in.entries[i].account
      BY DEF EntriesOf
    <3>2. IsUser(in.entries[i].account)
      BY <3>1
    <3>3. in.entries[i].amount > 0 /\ in.entries[i].expiresAt # Null
      BY <1>10, <3>1, <3>2 DEF Disciplined, EarnsAsLots
    <3>4. <<n, i>> \in Granted(in, n)
      BY <3>1, <3>2, <3>3 DEF Granted, IsUser
    <3>5. QED
      BY <2>4, <3>4
  <2>7. SpendTook(n)'
    <3> SUFFICES ASSUME in.txType = "SPEND" PROVE SpendTook(n)'
      BY <1>5, <2>2, <2>3 DEF SpendTook
    <3>1. /\ in.spend # Null
          /\ EntriesOf(in) = << [account |-> in.spend.account, amount |-> - in.spend.amount],
                                [account |-> in.counter, amount |-> in.spend.amount] >>
          /\ PlanOf(in) = SpendPlan(CandidateLots(in.tenant, in.spend.account), in.spend.amount)
      BY <2>1 DEF InputVerdict, SpendVerdict, EntriesOf, PlanOf
    <3>2. /\ in.spend.amount \in Int /\ in.spend.amount > 0
          /\ ~ (Remaining(CandidateLots(in.tenant, in.spend.account)) < in.spend.amount)
      <4>1. in.spend.amount \in Int
        BY <3>1, InputAssumption DEF PostInput
      <4>2. ~ (in.spend.amount <= 0)
        BY <2>1 DEF InputVerdict, SpendVerdict
      <4>3. ~ (Remaining(CandidateLots(in.tenant, in.spend.account)) < in.spend.amount)
        BY <2>1 DEF InputVerdict, SpendVerdict
      <4>4. QED
        BY <4>1, <4>2, <4>3
    <3>3. SumFunction(PlanOf(in)) = in.spend.amount
      <4>1. /\ CandidateLots(in.tenant, in.spend.account) \subseteq DOMAIN lots
            /\ \A l \in CandidateLots(in.tenant, in.spend.account) : lots[l].remaining > 0
        BY DEF CandidateLots
      <4>2. Remaining(CandidateLots(in.tenant, in.spend.account)) \in Int
        BY <1>1, <4>1, RemainingInt
      <4>3. QED
        BY <1>1, <3>1, <3>2, <4>1, <4>2, PlanSum
    <3>4. \A l \in DOMAIN PlanOf(in) : l \in DOMAIN lots /\ lots[l].account = in.spend.account
      BY <1>1, <2>1, PlanTakes DEF CandidateLots
    <3>5. \A l \in DOMAIN PlanOf(in) : lots'[l].account = in.spend.account
      BY <1>4, <3>4 DEF Terms
    <3>6. ~ IsUser(in.counter)'
      BY <1>10, <2>2 DEF Disciplined, IsUser
    <3>7. /\ Len(EntriesOf(in)) = 2
          /\ EntriesOf(in)[1].account = in.spend.account /\ EntriesOf(in)[1].amount = - in.spend.amount
          /\ EntriesOf(in)[2].account = in.counter /\ EntriesOf(in)[2].amount = in.spend.amount
      BY <3>1
    <3>8. entriesByTxId'[n] = EntriesOf(in) /\ consumptionsBySpendTx'[n] = PlanOf(in)
      BY <1>6, <1>7, <2>2
    <3>9. QED
      BY <3>3, <3>5, <3>6, <3>7, <3>8 DEF SpendTook, IsUser
  <2>8. /\ DOMAIN transactions' = DOMAIN transactions \cup {n}
        /\ \A t \in DOMAIN transactions :
              /\ transactions'[t] = transactions[t]
              /\ entriesByTxId'[t] = entriesByTxId[t]
              /\ consumptionsBySpendTx'[t] = consumptionsBySpendTx[t]
    BY <1>5, <1>6, <1>7, <2>2
  <2>9. QED
    BY <1>1, <1>4, <2>2, <2>5, <2>6, <2>7, <2>8, TracedMore DEF Settled
<1>11. ASSUME NEW rec, rec.txType \notin {"EARN", "SPEND"}, NEW e, NEW plan,
              DOMAIN transactions' = DOMAIN transactions \cup {n}, transactions'[n] = rec,
              \A t \in DOMAIN transactions : /\ transactions'[t].txType = transactions[t].txType
                                             /\ transactions'[t].tenant = transactions[t].tenant,
              entriesByTxId' = Append(entriesByTxId, e),
              consumptionsBySpendTx' = Put(consumptionsBySpendTx, n, plan),
              DOMAIN lots' = DOMAIN lots, accounts' = accounts
       PROVE  Traced'
  <2>1. EarnGranted(n)' /\ SpendTook(n)'
    BY <1>11 DEF EarnGranted, SpendTook
  <2>2. \A t \in DOMAIN transactions : /\ entriesByTxId'[t] = entriesByTxId[t]
                                       /\ consumptionsBySpendTx'[t] = consumptionsBySpendTx[t]
    BY <1>6, <1>7, <1>11
  <2>3. QED
    BY <1>1, <1>4, <1>11, <2>1, <2>2, TracedMore DEF Settled
<1>12. ASSUME NEW tenant \in Tenants, NEW src \in DOMAIN transactions, NEW actor,
              src \notin DOMAIN reversalBySourceTxId, ReversalVerdict(tenant, src) = "OK",
              ReversalAccepted(tenant, src, actor)
       PROVE  Traced'
  <2> DEFINE rec == Transaction(tenant, "REVERSAL", actor, Null, src)
  <2>1. /\ lots' = LotsAfterReversal(tenant, src)
        /\ transactions' = Append([transactions EXCEPT ![src].status = "REVERSED"], rec)
        /\ entriesByTxId' = Append(entriesByTxId, Mirror(entriesByTxId[src]))
        /\ consumptionsBySpendTx' = Put(consumptionsBySpendTx, n, <<>>)
        /\ accounts' = accounts
    BY <1>1, <1>2, <1>12, ReversalRecords DEF Settled
  <2>2. rec.txType \notin {"EARN", "SPEND"}
    BY DEF Transaction
  <2>3. DOMAIN lots' = DOMAIN lots
    BY <1>1, <1>12, <2>1, ReversedLots DEF Settled
  <2> HIDE DEF rec
  <2>4. /\ DOMAIN transactions' = DOMAIN transactions \cup {n} /\ transactions'[n] = rec
        /\ \A t \in DOMAIN transactions : /\ transactions'[t].txType = transactions[t].txType
                                          /\ transactions'[t].tenant = transactions[t].tenant
    BY <1>1, <1>2, <2>1, RecordedFields
  <2>5. QED
    BY <1>11, <2>1, <2>2, <2>3, <2>4
<1>13. ASSUME ExpirePost PROVE Traced'
  <2> DEFINE rec == Transaction(batch.tenant, "EXPIRE", Null, Null, Null)
  <2>1. /\ transactions' = Append(transactions, rec)
        /\ entriesByTxId' = Append(entriesByTxId, ExpireEntries(NextDue))
        /\ consumptionsBySpendTx' = Put(consumptionsBySpendTx, n, <<>>)
        /\ accounts' = accounts /\ lots' = lots
    BY <1>2, <1>13 DEF ExpirePost
  <2>2. rec.txType \notin {"EARN", "SPEND"}
    BY DEF Transaction
  <2> HIDE DEF rec
  <2>3. QED
    BY <1>5, <1>11, <2>1, <2>2
<1>14. ASSUME ExpireMark PROVE Traced'
  <2>1. /\ DOMAIN lots' = DOMAIN lots
        /\ UNCHANGED <<accounts, transactions, entriesByTxId, consumptionsBySpendTx>>
    BY <1>1, <1>14 DEF ExpireMark, TypeOK
  <2>2. QED
    BY <1>1, <1>4, <2>1, TracedMore DEF Settled
<1>15. QED
  BY <1>1, <1>8, <1>9, <1>10, <1>12, <1>13, <1>14, DisciplinedCases

-----------------------------------------------------------------------------
(* Lots back balances.                                                     *)

Backed(a) == Remaining(LotsOf(a)) = balances[a] + InFlight(a)

LotsBack == \A a \in DOMAIN accounts : IsUser(a) => Backed(a)

LEMMA LotsOfType ==
  ASSUME TypeOK, NEW a
  PROVE  /\ IsFiniteSet(LotsOf(a)) /\ LotsOf(a) \subseteq DOMAIN lots
         /\ Remaining(LotsOf(a)) \in Int
<1>1. LotsOf(a) \subseteq DOMAIN lots
  BY DEF LotsOf
<1>2. QED
  BY <1>1, RemainingInt, FS_Subset DEF TypeOK

\* What a movement does to the balance of an account.
LEMMA AppliedTo ==
  ASSUME TypeOK, NEW e \in Seq(Entry), NEW a \in DOMAIN accounts, balances' = Applied(e)
  PROVE  balances[a] \in Int /\ Delta(e, a) \in Int /\ balances'[a] = balances[a] + Delta(e, a)
<1>1. a \in DOMAIN balances /\ balances[a] \in Int
  BY DEF TypeOK
<1>2. QED
  BY <1>1, DeltaInt DEF Applied

\* Lots that get c, none of them new.
LEMMA RemainingChanged ==
  ASSUME TypeOK, TypeOK', NEW a, NEW c, DOMAIN lots' = DOMAIN lots,
         \A l \in DOMAIN lots : /\ c[l] \in Int
                                /\ lots'[l].account = lots[l].account
                                /\ lots'[l].remaining = lots[l].remaining + c[l]
  PROVE  /\ Remaining(LotsOf(a))' = Remaining(LotsOf(a)) + SumFunctionOnSet(c, LotsOf(a))
         /\ SumFunctionOnSet(c, LotsOf(a)) \in Int
<1> DEFINE g == [l \in DOMAIN lots' |-> lots'[l].remaining]
           new == LotsOf(a)' \ LotsOf(a)
<1>1. Remaining(LotsOf(a))' = Remaining(LotsOf(a)) + SumFunctionOnSet(c, LotsOf(a)) + SumFunctionOnSet(g, new)
  BY RemainingMoves
<1>2. new = {}
  BY DEF LotsOf
<1>3. SumFunctionOnSet(g, new) = 0
  BY <1>2, SumEmpty
<1> HIDE DEF g, new
<1>4. \A l \in LotsOf(a) : c[l] \in Int
  BY DEF LotsOf
<1>5. SumFunctionOnSet(c, LotsOf(a)) \in Int
  BY <1>4, LotsOfType, SumInt
<1>6. QED
  BY <1>1, <1>3, <1>5, LotsOfType

\* The lots that transaction tx granted to user account a.
LEMMA GrantedTo ==
  ASSUME TypeOK, Traced, NEW tx \in DOMAIN transactions, transactions[tx].txType = "EARN",
         NEW a, IsUser(a)
  PROVE  {l \in LotsOf(a) : l[1] = tx} =
            {tx} \X {i \in DOMAIN entriesByTxId[tx] : entriesByTxId[tx][i].account = a}
<1>1. ASSUME NEW l \in LotsOf(a), l[1] = tx
      PROVE  l \in {tx} \X {i \in DOMAIN entriesByTxId[tx] : entriesByTxId[tx][i].account = a}
  <2>1. l \in DOMAIN lots /\ lots[l].account = a /\ l = <<l[1], l[2]>>
    BY DEF LotsOf, TypeOK, LotIds
  <2>2. l[2] \in DOMAIN entriesByTxId[tx] /\ entriesByTxId[tx][l[2]].account = a
    BY <1>1, <2>1 DEF Traced, LotFromEntry
  <2>3. QED
    BY <1>1, <2>1, <2>2
<1>2. ASSUME NEW i \in DOMAIN entriesByTxId[tx], entriesByTxId[tx][i].account = a
      PROVE  <<tx, i>> \in LotsOf(a)
  <2>1. <<tx, i>> \in DOMAIN lots
    BY <1>2 DEF Traced, EarnGranted
  <2>2. LotFromEntry(<<tx, i>>)
    BY <2>1 DEF Traced
  <2>3. QED
    BY <1>2, <2>1, <2>2 DEF LotFromEntry, LotsOf
<1>3. QED
  BY <1>1, <1>2

\* An EARN gives the account and its lots the same.
LEMMA EarnBacks ==
  ASSUME Settled, TypeOK', NEW in \in PostInputs, in.txType = "EARN", EarnsAsLots(in), batch = Null,
         PostVerdict(in) = "OK", PostAccepted(in), NEW a \in DOMAIN accounts, IsUser(a), Backed(a)
  PROVE  Backed(a)'
<1> DEFINE n == Len(transactions) + 1
           e == EntriesOf(in)
           c == [l \in DOMAIN lots |-> 0]
           g == [l \in DOMAIN lots' |-> lots'[l].remaining]
           new == LotsOf(a)' \ LotsOf(a)
           of == {i \in DOMAIN e : e[i].account = a}
<1>1. TypeOK /\ InputVerdict(in) = "OK"
  BY DEF Settled, Typed, PostVerdict
<1>2. /\ balances' = Applied(e) /\ lots' = LotsAfterPost(in, n) /\ batch' = Null
      /\ accounts' = accounts /\ e \in Seq(Entry)
  BY <1>1, PostRecords, EntriesType
<1>3. DOMAIN e = DOMAIN in.entries
      /\ \A i \in DOMAIN e : e[i].account = in.entries[i].account /\ e[i].amount = in.entries[i].amount
  BY DEF EntriesOf
<1>4. DOMAIN PlanOf(in) = {}
  BY DEF PlanOf
<1>5. /\ DOMAIN lots' = DOMAIN lots \cup Granted(in, n)
      /\ DOMAIN lots \cap Granted(in, n) = {}
      /\ \A l \in DOMAIN lots : lots'[l] = lots[l]
      /\ \A l \in Granted(in, n) : lots'[l] = NewLot(in, l[2])
  <2> HIDE DEF n
  <2> QED BY <1>1, <1>2, <1>4, PostedLots DEF Settled, LotsOK, n
<1>6. new = {n} \X of
  <2>1. new = {l \in Granted(in, n) : lots'[l].account = a}
    BY <1>5 DEF LotsOf
  <2>2. Granted(in, n) = {n} \X {i \in DOMAIN in.entries :
                                    /\ in.entries[i].amount > 0
                                    /\ in.entries[i].expiresAt # Null
                                    /\ accounts[in.entries[i].account].ownerType = "USER"}
    BY DEF Granted
  <2>3. \A i \in of : /\ in.entries[i].amount > 0
                      /\ in.entries[i].expiresAt # Null
                      /\ accounts[in.entries[i].account].ownerType = "USER"
    BY <1>3 DEF EarnsAsLots, IsUser
  <2>4. \A l \in Granted(in, n) : lots'[l].account = in.entries[l[2]].account
    BY <1>5 DEF NewLot
  <2> HIDE DEF n, e, new
  <2>5. QED
    BY <1>3, <2>1, <2>2, <2>3, <2>4
<1>7. \A i \in DOMAIN e : e[i].account = a => g[<<n, i>>] = e[i].amount
  <2> SUFFICES ASSUME NEW i \in of PROVE g[<<n, i>>] = e[i].amount
    OBVIOUS
  <2>1. <<n, i>> \in DOMAIN lots' /\ <<n, i>> \in Granted(in, n)
    BY <1>5, <1>6 DEF LotsOf
  <2>2. lots'[<<n, i>>] = NewLot(in, i)
    BY <1>5, <2>1
  <2>3. QED
    BY <1>3, <2>1, <2>2 DEF NewLot
<1>8. \A l \in DOMAIN lots : /\ c[l] \in Int
                             /\ lots'[l].account = lots[l].account
                             /\ lots'[l].remaining = lots[l].remaining + c[l]
  BY <1>1, <1>5 DEF TypeOK, Lot
<1>9. SumFunctionOnSet(c, LotsOf(a)) = 0
  <2>1. \A l \in LotsOf(a) : c[l] = 0
    BY DEF LotsOf
  <2> HIDE DEF c
  <2>2. QED
    BY <1>1, <2>1, LotsOfType, SumZero
<1>10. DOMAIN lots \subseteq DOMAIN lots'
  BY <1>5
<1>11. Remaining(LotsOf(a))' = Remaining(LotsOf(a)) + SumFunctionOnSet(c, LotsOf(a)) + SumFunctionOnSet(g, new)
  <2> HIDE DEF c
  <2> QED BY <1>1, <1>8, <1>10, RemainingMoves
<1> HIDE DEF c, g, new
<1>12. SumFunctionOnSet(g, new) = Delta(e, a)
  <2> HIDE DEF n, e
  <2> QED BY <1>2, <1>6, <1>7, GrantsSum
<1>13. balances[a] \in Int /\ Delta(e, a) \in Int /\ balances'[a] = balances[a] + Delta(e, a)
  <2> HIDE DEF e
  <2> QED BY <1>1, <1>2, AppliedTo
<1>14. InFlight(a) = 0 /\ InFlight(a)' = 0
  BY <1>2 DEF InFlight
<1>15. Remaining(LotsOf(a)) \in Int
  BY <1>1, LotsOfType
<1>16. QED
  BY <1>9, <1>11, <1>12, <1>13, <1>14, <1>15 DEF Backed

\* A SPEND takes from the lots of the account what it debits.
LEMMA SpendBacks ==
  ASSUME Settled, TypeOK', NEW in \in PostInputs, in.txType = "SPEND", ~ IsUser(in.counter), batch = Null,
         PostVerdict(in) = "OK", PostAccepted(in), NEW a \in DOMAIN accounts, IsUser(a), Backed(a)
  PROVE  Backed(a)'
<1> DEFINE n == Len(transactions) + 1
           e == EntriesOf(in)
           p == PlanOf(in)
           m == in.spend.amount
           c == [l \in DOMAIN lots |-> IF l \in DOMAIN p THEN - p[l] ELSE 0]
           d == [l \in DOMAIN lots |-> IF l \in DOMAIN p THEN p[l] ELSE 0]
<1>1. TypeOK /\ InputVerdict(in) = "OK"
  BY DEF Settled, Typed, PostVerdict
<1>2. /\ balances' = Applied(e) /\ lots' = LotsAfterPost(in, n) /\ batch' = Null
      /\ accounts' = accounts /\ e \in Seq(Entry)
  BY <1>1, PostRecords, EntriesType
<1>3. Granted(in, n) = {}
  BY DEF Granted
<1>4. \A l \in DOMAIN p : /\ l \in DOMAIN lots /\ lots[l].account = in.spend.account
                          /\ p[l] \in Int
  BY <1>1, PlanTakes DEF CandidateLots
<1>5. /\ DOMAIN lots' = DOMAIN lots
      /\ \A l \in DOMAIN lots :
            /\ l \in DOMAIN p =>
                  lots'[l] = [lots[l] EXCEPT !.remaining = lots[l].remaining - p[l],
                                             !.status = StatusFor(lots[l].remaining - p[l])]
            /\ l \notin DOMAIN p => lots'[l] = lots[l]
  <2> HIDE DEF n
  <2> QED BY <1>1, <1>2, <1>3, PostedLots DEF Settled, LotsOK, n
<1>6. \A l \in DOMAIN lots : lots[l] \in Lot /\ lots[l].remaining \in Int
  BY <1>1 DEF TypeOK, Lot
<1>7. \A l \in DOMAIN lots : /\ c[l] \in Int /\ d[l] \in Int /\ c[l] = - d[l]
                             /\ lots'[l].account = lots[l].account
                             /\ lots'[l].remaining = lots[l].remaining + c[l]
  <2> HIDE DEF p
  <2> SUFFICES ASSUME NEW l \in DOMAIN lots
               PROVE  /\ c[l] \in Int /\ d[l] \in Int /\ c[l] = - d[l]
                      /\ lots'[l].account = lots[l].account
                      /\ lots'[l].remaining = lots[l].remaining + c[l]
    OBVIOUS
  <2>1. CASE l \in DOMAIN p
    <3>1. /\ lots'[l].account = lots[l].account
          /\ lots'[l].remaining = lots[l].remaining - p[l]
      BY <1>5, <1>6, <2>1 DEF Lot
    <3>2. c[l] = - p[l] /\ d[l] = p[l]
      BY <2>1
    <3>3. p[l] \in Int /\ lots[l].remaining \in Int
      BY <1>4, <1>6, <2>1
    <3> HIDE DEF c, d
    <3>4. QED
      BY <3>1, <3>2, <3>3
  <2>2. CASE l \notin DOMAIN p
    <3>1. c[l] = 0 /\ d[l] = 0
      BY <2>2
    <3>2. lots'[l] = lots[l] /\ lots[l].remaining \in Int
      BY <1>5, <1>6, <2>2
    <3> HIDE DEF c, d
    <3>3. c[l] \in Int /\ d[l] \in Int /\ c[l] = - d[l]
      <4>1. c[l] \in Int /\ d[l] \in Int /\ c[l] + d[l] = 0
        BY <3>1
      <4>2. QED
        BY <4>1
    <3>4. /\ lots'[l].account = lots[l].account
          /\ lots'[l].remaining = lots[l].remaining + c[l]
      BY <3>1, <3>2
    <3>5. QED
      BY <3>3, <3>4
  <2>3. QED
    BY <2>1, <2>2
<1>8. /\ e[1].account = in.spend.account /\ e[1].amount = - m
      /\ e[2].account = in.counter /\ Len(e) = 2
  BY DEF EntriesOf
<1>9. Delta(e, a) = IF in.spend.account = a THEN - m ELSE 0
  <2> HIDE DEF e, m
  <2>1. e[2].account # a
    BY <1>8
  <2>2. QED
    BY <1>2, <1>8, <2>1, DeltaOfPair
<1>10. m \in Int /\ m > 0 /\ SumFunction(p) = m
  <2>1. /\ in.spend # Null /\ ~ (m <= 0)
        /\ ~ (Remaining(CandidateLots(in.tenant, in.spend.account)) < m)
    BY <1>1 DEF InputVerdict, SpendVerdict
  <2>2. m \in Int
    BY <2>1, InputAssumption DEF PostInput
  <2>3. /\ CandidateLots(in.tenant, in.spend.account) \subseteq DOMAIN lots
        /\ \A l \in CandidateLots(in.tenant, in.spend.account) : lots[l].remaining > 0
    BY DEF CandidateLots
  <2>4. Remaining(CandidateLots(in.tenant, in.spend.account)) \in Int
    BY <1>1, <2>3, RemainingInt
  <2>5. p = SpendPlan(CandidateLots(in.tenant, in.spend.account), m)
    BY DEF PlanOf
  <2> HIDE DEF p, m
  <2>6. QED
    BY <1>1, <2>1, <2>2, <2>3, <2>4, <2>5, PlanSum
<1>11. SumFunctionOnSet(c, LotsOf(a)) = IF in.spend.account = a THEN - m ELSE 0
  <2>1. \A l \in LotsOf(a) : l \in DOMAIN lots /\ lots[l].account = a
    BY DEF LotsOf
  <2>2. CASE in.spend.account = a
    <3>1. DOMAIN p \subseteq LotsOf(a)
      BY <1>4, <2>2 DEF LotsOf
    <3>2. \A l \in LotsOf(a) : d[l] = IF l \in DOMAIN p THEN p[l] ELSE 0
      BY <2>1
    <3>3. \A l \in LotsOf(a) : d[l] \in Int /\ c[l] = - d[l]
      BY <1>7, <2>1
    <3> HIDE DEF c, d, p
    <3>4. SumFunctionOnSet(d, LotsOf(a)) = SumFunction(p)
      BY <1>1, <1>4, <3>1, <3>2, LotsOfType, TakenSum
    <3>5. SumFunctionOnSet(c, LotsOf(a)) = - SumFunctionOnSet(d, LotsOf(a))
      BY <1>1, <3>3, LotsOfType, SumNegated
    <3>6. QED
      BY <1>10, <2>2, <3>4, <3>5
  <2>3. CASE in.spend.account # a
    <3>1. \A l \in LotsOf(a) : c[l] = 0
      BY <1>4, <2>1, <2>3
    <3> HIDE DEF c
    <3>2. QED
      BY <1>1, <2>3, <3>1, LotsOfType, SumZero
  <2>4. QED
    BY <2>2, <2>3
<1>12. /\ Remaining(LotsOf(a))' = Remaining(LotsOf(a)) + SumFunctionOnSet(c, LotsOf(a))
       /\ SumFunctionOnSet(c, LotsOf(a)) \in Int
  <2> HIDE DEF c
  <2> QED BY <1>1, <1>5, <1>7, RemainingChanged
<1>13. balances[a] \in Int /\ Delta(e, a) \in Int /\ balances'[a] = balances[a] + Delta(e, a)
  <2> HIDE DEF e
  <2> QED BY <1>1, <1>2, AppliedTo
<1>14. InFlight(a) = 0 /\ InFlight(a)' = 0
  BY <1>2 DEF InFlight
<1>15. Remaining(LotsOf(a)) \in Int
  BY <1>1, LotsOfType
<1>16. QED
  <2> HIDE DEF c, e, m
  <2> QED BY <1>9, <1>11, <1>12, <1>13, <1>14, <1>15 DEF Backed

\* A reversed SPEND gives the lots back what it gives the account back.
LEMMA SpendReversalBacks ==
  ASSUME Settled, Traced, TypeOK', NEW tenant, NEW src \in DOMAIN transactions, NEW actor,
         transactions[src].txType = "SPEND", batch = Null,
         src \notin DOMAIN reversalBySourceTxId, ReversalAccepted(tenant, src, actor),
         NEW a \in DOMAIN accounts, IsUser(a), Backed(a)
  PROVE  Backed(a)'
<1> DEFINE e == entriesByTxId[src]
           p == consumptionsBySpendTx[src]
           c == [l \in DOMAIN lots |-> IF l \in DOMAIN p THEN p[l] ELSE 0]
<1>1. TypeOK
  BY DEF Settled, Typed
<1>2. /\ balances' = Applied(Mirror(e)) /\ lots' = LotsMovedBy(p) /\ batch' = Null /\ accounts' = accounts
  BY <1>1, ReversalRecords DEF Settled, LotsAfterReversal
<1>3. e \in Seq(Entry) /\ Mirror(e) \in Seq(Entry)
  BY <1>1, RecordedEntries, MirrorType
<1>4. /\ Len(e) = 2 /\ e[1].amount = - e[2].amount /\ e[2].amount = SumFunction(p)
      /\ ~ IsUser(e[2].account) /\ \A l \in DOMAIN p : lots[l].account = e[1].account
  BY DEF Traced, SpendTook
<1>5. DOMAIN p \subseteq DOMAIN lots /\ \A l \in DOMAIN p : p[l] \in Int
  BY <1>1 DEF TypeOK
<1>6. e[2].amount \in Int
  BY <1>3, <1>4, LenProperties, EntryTypes
<1> HIDE DEF e, p
<1>7. \A l \in DOMAIN lots : lots[l] \in Lot /\ lots[l].remaining \in Int
  BY <1>1 DEF TypeOK, Lot
<1>8. DOMAIN lots' = DOMAIN lots
  BY <1>2 DEF LotsMovedBy
<1>9. \A l \in DOMAIN lots : /\ c[l] \in Int
                             /\ lots'[l].account = lots[l].account
                             /\ lots'[l].remaining = lots[l].remaining + c[l]
  <2> SUFFICES ASSUME NEW l \in DOMAIN lots
               PROVE  /\ c[l] \in Int
                      /\ lots'[l].account = lots[l].account
                      /\ lots'[l].remaining = lots[l].remaining + c[l]
    OBVIOUS
  <2>1. CASE l \in DOMAIN p
    <3> DEFINE left == lots[l].remaining + p[l]
    <3>1. lots'[l] = [lots[l] EXCEPT !.remaining = left, !.status = StatusFor(left)]
      BY <1>2, <2>1 DEF LotsMovedBy
    <3>2. lots'[l].account = lots[l].account /\ lots'[l].remaining = left
      <4> HIDE DEF left
      <4> QED BY <1>7, <3>1 DEF Lot
    <3>3. QED
      BY <1>5, <2>1, <3>2
  <2>2. CASE l \notin DOMAIN p
    <3>1. c[l] = 0
      BY <2>2
    <3>2. lots'[l] = lots[l]
      BY <1>2, <2>2 DEF LotsMovedBy
    <3>3. lots[l].remaining \in Int
      BY <1>7
    <3> HIDE DEF c
    <3>4. QED
      BY <3>1, <3>2, <3>3
  <2>3. QED
    BY <2>1, <2>2
<1>10. Delta(e, a) = IF e[1].account = a THEN e[1].amount ELSE 0
  BY <1>3, <1>4, DeltaOfPair
<1>11. SumFunctionOnSet(c, LotsOf(a)) = IF e[1].account = a THEN SumFunction(p) ELSE 0
  <2>1. \A l \in LotsOf(a) : l \in DOMAIN lots /\ lots[l].account = a
    BY DEF LotsOf
  <2>2. CASE e[1].account = a
    <3>1. DOMAIN p \subseteq LotsOf(a)
      BY <1>4, <1>5, <2>2 DEF LotsOf
    <3>2. \A l \in LotsOf(a) : c[l] = IF l \in DOMAIN p THEN p[l] ELSE 0
      BY <2>1
    <3> HIDE DEF c
    <3>3. QED
      BY <1>1, <1>5, <2>2, <3>1, <3>2, LotsOfType, TakenSum
  <2>3. CASE e[1].account # a
    <3>1. \A l \in LotsOf(a) : c[l] = 0
      BY <1>4, <2>1, <2>3
    <3> HIDE DEF c
    <3>2. QED
      BY <1>1, <2>3, <3>1, LotsOfType, SumZero
  <2>4. QED
    BY <2>2, <2>3
<1>12. Remaining(LotsOf(a))' = Remaining(LotsOf(a)) + SumFunctionOnSet(c, LotsOf(a))
  <2> HIDE DEF c
  <2> QED BY <1>1, <1>8, <1>9, RemainingChanged
<1>13. balances[a] \in Int /\ balances'[a] = balances[a] + Delta(Mirror(e), a)
  BY <1>1, <1>2, <1>3, AppliedTo
<1>14. Delta(Mirror(e), a) = - Delta(e, a)
  BY <1>3, DeltaOfMirror
<1>15. InFlight(a) = 0 /\ InFlight(a)' = 0
  BY <1>2 DEF InFlight
<1>16. Remaining(LotsOf(a)) \in Int
  BY <1>1, LotsOfType
<1>17. QED
  <2> HIDE DEF c
  <2> QED BY <1>4, <1>6, <1>10, <1>11, <1>12, <1>13, <1>14, <1>15, <1>16 DEF Backed

\* A reversed EARN takes from the account what its lots held.
LEMMA EarnReversalBacks ==
  ASSUME Settled, Traced, TypeOK', NEW tenant, NEW src \in DOMAIN transactions, NEW actor,
         transactions[src].tenant = tenant, transactions[src].txType = "EARN", batch = Null,
         src \notin DOMAIN reversalBySourceTxId, ReversalVerdict(tenant, src) = "OK",
         ReversalAccepted(tenant, src, actor),
         NEW a \in DOMAIN accounts, IsUser(a), Backed(a)
  PROVE  Backed(a)'
<1> DEFINE e == entriesByTxId[src]
           G == {l \in LotsOf(a) : l[1] = src}
           c == [l \in DOMAIN lots |-> IF l[1] = src THEN - lots[l].remaining ELSE 0]
           d == [l \in DOMAIN lots |-> IF l[1] = src THEN lots[l].remaining ELSE 0]
<1>1. TypeOK
  BY DEF Settled, Typed
<1>2. /\ balances' = Applied(Mirror(e)) /\ batch' = Null /\ accounts' = accounts
      /\ lots' = [l \in DOMAIN lots |-> IF l \in LotsGrantedBy(tenant, src)
                                        THEN [lots[l] EXCEPT !.remaining = 0, !.status = "CANCELLED"]
                                        ELSE lots[l]]
  <2>1. /\ balances' = Applied(Mirror(e)) /\ batch' = Null /\ accounts' = accounts
        /\ lots' = LotsAfterReversal(tenant, src)
    BY <1>1, ReversalRecords DEF Settled
  <2>2. QED
    BY <2>1 DEF LotsAfterReversal
<1>3. e \in Seq(Entry) /\ Mirror(e) \in Seq(Entry)
  BY <1>1, RecordedEntries, MirrorType
<1>4. \A l \in DOMAIN lots : lots[l] \in Lot /\ lots[l].remaining \in Int
  BY <1>1 DEF TypeOK, Lot
<1>5. \A l \in DOMAIN lots : l[1] = src <=> l \in LotsGrantedBy(tenant, src)
  BY DEF LotsGrantedBy, Traced, LotFromEntry
<1>6. \A l \in DOMAIN lots : l[1] = src => lots[l].remaining = e[l[2]].amount
  <2>1. ~ (transactions[src].txType = "EARN" /\ \E l \in LotsGrantedBy(tenant, src) : ~ Untouched(l))
    BY DEF ReversalVerdict
  <2>2. QED
    BY <1>5, <2>1 DEF Untouched, Traced, LotFromEntry
<1>7. DOMAIN lots' = DOMAIN lots
  BY <1>2
<1>8. \A l \in DOMAIN lots : /\ c[l] \in Int
                             /\ lots'[l].account = lots[l].account
                             /\ lots'[l].remaining = lots[l].remaining + c[l]
  <2> SUFFICES ASSUME NEW l \in DOMAIN lots
               PROVE  /\ c[l] \in Int
                      /\ lots'[l].account = lots[l].account
                      /\ lots'[l].remaining = lots[l].remaining + c[l]
    OBVIOUS
  <2>1. CASE l[1] = src
    <3>1. lots'[l] = [lots[l] EXCEPT !.remaining = 0, !.status = "CANCELLED"]
      BY <1>2, <1>5, <2>1
    <3>2. lots'[l].account = lots[l].account /\ lots'[l].remaining = 0
      BY <1>4, <3>1 DEF Lot
    <3>3. QED
      BY <1>4, <2>1, <3>2
  <2>2. CASE l[1] # src
    <3>1. c[l] = 0
      BY <2>2
    <3>2. lots'[l] = lots[l]
      BY <1>2, <1>5, <2>2
    <3>3. lots[l].remaining \in Int
      BY <1>4
    <3> HIDE DEF c
    <3>4. QED
      BY <3>1, <3>2, <3>3
  <2>3. QED
    BY <2>1, <2>2
<1>9. G = {src} \X {i \in DOMAIN e : e[i].account = a}
  BY <1>1, GrantedTo
<1>10. SumFunctionOnSet(d, G) = Delta(e, a)
  <2>1. \A i \in DOMAIN e : e[i].account = a => d[<<src, i>>] = e[i].amount
    <3> SUFFICES ASSUME NEW i \in DOMAIN e, e[i].account = a PROVE d[<<src, i>>] = e[i].amount
      OBVIOUS
    <3>1. <<src, i>> \in DOMAIN lots
      BY <1>9 DEF LotsOf
    <3>2. QED
      BY <1>6, <3>1
  <2> HIDE DEF d, e, G
  <2>2. SumFunctionOnSet(d, {src} \X {i \in DOMAIN e : e[i].account = a}) = Delta(e, a)
    BY <1>3, <2>1, GrantsSum
  <2>3. QED
    BY <1>9, <2>2
<1>11. SumFunctionOnSet(c, LotsOf(a)) = - Delta(e, a)
  <2> DEFINE q == [l \in G |-> - lots[l].remaining]
  <2>1. \A l \in LotsOf(a) : l \in DOMAIN lots
    BY DEF LotsOf
  <2>2. /\ DOMAIN q \subseteq LotsOf(a)
        /\ \A l \in DOMAIN q : q[l] \in Int
        /\ \A l \in LotsOf(a) : c[l] = IF l \in DOMAIN q THEN q[l] ELSE 0
    BY <1>4, <2>1
  <2>3. IsFiniteSet(G)
    BY <1>1, LotsOfType, FS_Subset
  <2>4. \A l \in G : d[l] \in Int /\ q[l] = - d[l]
    BY <1>4, <2>1
  <2>5. DOMAIN q = G
    OBVIOUS
  <2> HIDE DEF c, d, q, G, e
  <2>6. SumFunctionOnSet(c, LotsOf(a)) = SumFunction(q)
    BY <1>1, <2>2, LotsOfType, TakenSum
  <2>7. SumFunctionOnSet(q, G) = - SumFunctionOnSet(d, G)
    BY <2>3, <2>4, SumNegated
  <2>8. QED
    BY <1>10, <2>5, <2>6, <2>7, SumOfFunction
<1>12. Remaining(LotsOf(a))' = Remaining(LotsOf(a)) + SumFunctionOnSet(c, LotsOf(a))
  <2> HIDE DEF c
  <2> QED BY <1>1, <1>7, <1>8, RemainingChanged
<1> HIDE DEF e
<1>13. balances[a] \in Int /\ balances'[a] = balances[a] + Delta(Mirror(e), a)
  BY <1>1, <1>2, <1>3, AppliedTo
<1>14. Delta(Mirror(e), a) = - Delta(e, a) /\ Delta(e, a) \in Int
  BY <1>3, DeltaOfMirror, DeltaInt
<1>15. InFlight(a) = 0 /\ InFlight(a)' = 0
  BY <1>2 DEF InFlight
<1>16. Remaining(LotsOf(a)) \in Int
  BY <1>1, LotsOfType
<1>17. QED
  <2> HIDE DEF c
  <2> QED BY <1>11, <1>12, <1>13, <1>14, <1>15, <1>16 DEF Backed

\* The batch takes the points of a lot from its account first ...
LEMMA ExpirePostBacks ==
  ASSUME Settled, TypeOK', ExpirePost, NEW a \in DOMAIN accounts, IsUser(a), Backed(a)
  PROVE  Backed(a)'
<1>1. TypeOK /\ Typed
  BY DEF Settled, Typed
<1>2. PICK l : l = NextDue
  OBVIOUS
<1>3. l \in DOMAIN lots /\ batch # Null /\ batch.posted = Null
  BY <1>1, <1>2, NextDueType DEF ExpirePost, Typed, BatchOK
<1> DEFINE e == ExpireEntries(l)
           r == lots[l].remaining
<1>4. e \in Seq(Entry) /\ r \in Int
  BY <1>1, <1>3, ExpireEntriesType DEF TypeOK, Lot
<1>5. balances' = Applied(e) /\ lots' = lots /\ accounts' = accounts
  BY <1>2 DEF ExpirePost
<1>6. batch' # Null /\ batch'.posted # Null /\ batch'.posted.lot = l /\ batch'.posted.amount = r
  <2> DEFINE p == [tx |-> Len(transactions) + 1, lot |-> l, amount |-> r]
  <2>1. batch' = [batch EXCEPT !.posted = p]
    BY <1>2 DEF ExpirePost
  <2>2. batch \in Batch
    BY <1>1, <1>3 DEF TypeOK
  <2>4. p \in Posting
    <3>1. Len(transactions) + 1 \in TxIds
      BY <1>1, LenProperties DEF TypeOK, TxIds
    <3>2. l \in LotIds
      BY <1>1, <1>3 DEF TypeOK
    <3>3. QED
      BY <1>4, <3>1, <3>2 DEF Posting
  <2>5. p.lot = l /\ p.amount = r
    OBVIOUS
  <2> HIDE DEF p
  <2>6. batch'.posted = p
    BY <2>1, <2>2 DEF Batch
  <2>3. batch' \in Batch
    BY <2>1, <2>2, <2>4 DEF Batch
  <2>7. QED
    BY <2>3, <2>4, <2>5, <2>6, NullAssumption
<1>7. ~ IsUser(batch.system)
  BY <1>1, <1>3 DEF Typed, BatchOK, SystemAccounts, IsUser
<1>8. Delta(e, a) = IF lots[l].account = a THEN - r ELSE 0
  <2>1. /\ Len(e) = 2 /\ e[2].account = batch.system
        /\ e[1].account = lots[l].account /\ e[1].amount = - r
    BY DEF ExpireEntries
  <2>2. e[2].account # a
    BY <1>7, <2>1
  <2> HIDE DEF e, r
  <2>3. QED
    BY <1>4, <2>1, <2>2, DeltaOfPair
<1>9. InFlight(a) = 0 /\ InFlight(a)' = IF lots[l].account = a THEN r ELSE 0
  <2> HIDE DEF r
  <2> QED BY <1>3, <1>5, <1>6 DEF InFlight
<1>10. balances[a] \in Int /\ balances'[a] = balances[a] + Delta(e, a)
  <2> HIDE DEF e
  <2> QED BY <1>1, <1>4, <1>5, AppliedTo
<1>11. Remaining(LotsOf(a))' = Remaining(LotsOf(a)) /\ Remaining(LotsOf(a)) \in Int
  BY <1>1, <1>5, LotsOfType DEF Remaining, LotsOf
<1>12. QED
  <2> HIDE DEF e, r
  <2> QED BY <1>4, <1>8, <1>9, <1>10, <1>11 DEF Backed

\* ... and from the lot when it marks it.
LEMMA ExpireMarkBacks ==
  ASSUME Settled, TypeOK', ExpireMark, NEW a \in DOMAIN accounts, IsUser(a), Backed(a)
  PROVE  Backed(a)'
<1>1. TypeOK /\ Typed
  BY DEF Settled, Typed
<1>2. PICK z, r : z = batch.posted.lot /\ r = batch.posted.amount
  OBVIOUS
<1>3. batch # Null /\ batch.posted # Null
  BY DEF ExpireMark
<1>4. z \in DOMAIN lots
  BY <1>1, <1>2, <1>3 DEF Typed, BatchOK
<1>5. lots[z].remaining = r /\ r \in Int
  BY <1>1, <1>2, <1>3, <1>4 DEF Settled, LotsOK, SweepInFlight, TypeOK, Lot
<1> DEFINE p == [l \in {z} |-> - r]
           c == [l \in DOMAIN lots |-> IF l \in DOMAIN p THEN p[l] ELSE 0]
<1>6. lots' = [lots EXCEPT ![z].remaining = 0, ![z].status = "EXPIRED"]
  BY <1>2 DEF ExpireMark
<1>7. \A l \in DOMAIN lots : lots[l] \in Lot /\ lots[l].remaining \in Int
  BY <1>1 DEF TypeOK, Lot
<1>8. DOMAIN lots' = DOMAIN lots
  BY <1>6
<1>9. \A l \in DOMAIN lots : /\ c[l] \in Int
                             /\ lots'[l].account = lots[l].account
                             /\ lots'[l].remaining = lots[l].remaining + c[l]
  <2> SUFFICES ASSUME NEW l \in DOMAIN lots
               PROVE  /\ c[l] \in Int
                      /\ lots'[l].account = lots[l].account
                      /\ lots'[l].remaining = lots[l].remaining + c[l]
    OBVIOUS
  <2>1. CASE l = z
    <3>1. lots'[z].account = lots[z].account /\ lots'[z].remaining = 0
      BY <1>4, <1>6, <1>7 DEF Lot
    <3>2. c[z] = - r
      BY <1>4
    <3>3. QED
      BY <1>5, <2>1, <3>1, <3>2
  <2>2. CASE l # z
    BY <1>6, <1>7, <2>2
  <2>3. QED
    BY <2>1, <2>2
<1>10. SumFunctionOnSet(c, LotsOf(a)) = IF lots[z].account = a THEN - r ELSE 0
  <2>1. \A l \in LotsOf(a) : l \in DOMAIN lots /\ lots[l].account = a
    BY DEF LotsOf
  <2>2. CASE lots[z].account = a
    <3>1. /\ DOMAIN p \subseteq LotsOf(a) /\ \A l \in DOMAIN p : p[l] \in Int
          /\ \A l \in LotsOf(a) : c[l] = IF l \in DOMAIN p THEN p[l] ELSE 0
      BY <1>4, <1>5, <2>1, <2>2 DEF LotsOf
    <3>2. SumFunctionOnSet(p, {z}) = - r /\ DOMAIN p = {z}
      <4>1. p[z] = - r /\ p[z] \in Int
        BY <1>5
      <4>2. DOMAIN p = {z}
        OBVIOUS
      <4> HIDE DEF p
      <4>3. QED
        BY <4>1, <4>2, SumSingle
    <3> HIDE DEF c, p
    <3>3. SumFunctionOnSet(c, LotsOf(a)) = SumFunction(p)
      BY <1>1, <3>1, LotsOfType, TakenSum
    <3>4. QED
      BY <2>2, <3>2, <3>3, SumOfFunction
  <2>3. CASE lots[z].account # a
    <3>1. \A l \in LotsOf(a) : c[l] = 0
      BY <2>1, <2>3
    <3> HIDE DEF c
    <3>2. QED
      BY <1>1, <2>3, <3>1, LotsOfType, SumZero
  <2>4. QED
    BY <2>2, <2>3
<1>11. Remaining(LotsOf(a))' = Remaining(LotsOf(a)) + SumFunctionOnSet(c, LotsOf(a))
  <2> HIDE DEF c
  <2> QED BY <1>1, <1>8, <1>9, RemainingChanged
<1>12. InFlight(a) = IF lots[z].account = a THEN r ELSE 0
  BY <1>2, <1>3 DEF InFlight
<1>13. InFlight(a)' = 0
  <2>1. batch' = [batch EXCEPT !.posted = Null] /\ batch \in Batch
    BY <1>1, <1>3 DEF ExpireMark, TypeOK
  <2>2. QED
    BY <2>1 DEF InFlight, Batch
<1>14. balances[a] \in Int /\ balances' = balances
  BY <1>1 DEF TypeOK, ExpireMark
<1>15. Remaining(LotsOf(a)) \in Int
  BY <1>1, LotsOfType
<1>16. QED
  <2> HIDE DEF c
  <2> QED BY <1>5, <1>10, <1>11, <1>12, <1>13, <1>14, <1>15 DEF Backed
\* A new account has neither points nor lots.
LEMMA CreateAccountBacks ==
  ASSUME Settled, LotsBack, NEW in, accounts' = Append(accounts, NewAccount(in)),
         balances' = Put(balances, Len(accounts) + 1, 0),
         UNCHANGED <<lots, journal, indexes, batch>>
  PROVE  LotsBack'
<1>1. TypeOK /\ BatchOK /\ LotsOwned
  BY DEF Settled, Typed
<1>2. PICK n : n = Len(accounts) + 1
  OBVIOUS
<1>3. /\ DOMAIN accounts' = DOMAIN accounts \cup {n} /\ n \notin DOMAIN accounts
      /\ \A a \in DOMAIN accounts : accounts'[a] = accounts[a]
  BY <1>1, <1>2, LenProperties DEF TypeOK
<1>4. balances'[n] = 0 /\ \A a \in DOMAIN accounts : balances'[a] = balances[a]
  BY <1>1, <1>2, <1>3 DEF Put, TypeOK
<1>5. ASSUME NEW a
      PROVE  Remaining(LotsOf(a))' = Remaining(LotsOf(a)) /\ InFlight(a)' = InFlight(a)
  BY DEF Remaining, LotsOf, InFlight
<1>6. ASSUME NEW a \in DOMAIN accounts, IsUser(a)' PROVE Backed(a)'
  <2>1. IsUser(a)
    BY <1>3, <1>6 DEF IsUser
  <2>2. QED
    BY <1>4, <1>5, <2>1 DEF LotsBack, Backed
<1>7. Backed(n)'
  <2>1. LotsOf(n) = {}
    BY <1>1, <1>3 DEF LotsOf, LotsOwned, Owns
  <2>2. Remaining(LotsOf(n)) = 0
    BY <2>1, SumEmpty DEF Remaining
  <2>3. InFlight(n) = 0
    BY <1>1, <2>1 DEF InFlight, BatchOK, LotsOf
  <2>4. QED
    BY <1>4, <1>5, <2>2, <2>3 DEF Backed
<1>8. QED
  BY <1>3, <1>6, <1>7 DEF LotsBack

\* Every disciplined step keeps the points of users backed by lots.
LEMMA BackedStep ==
  ASSUME Settled, Traced, LotsBack, TypeOK', [DisciplinedNext]_vars
  PROVE  LotsBack'
<1>1. TypeOK
  BY DEF Settled, Typed
<1>2. CASE UNCHANGED ledger /\ \A a : InFlight(a)' = InFlight(a)
  BY <1>2 DEF ledger, LotsBack, Backed, IsUser, Remaining, LotsOf
<1>3. ASSUME accounts' = accounts, \A a \in DOMAIN accounts : IsUser(a) => Backed(a)'
      PROVE  LotsBack'
  BY <1>3 DEF LotsBack, IsUser
<1>4. ASSUME NEW in \in PostInputs, batch = Null, Disciplined(in), PostVerdict(in) = "OK", PostAccepted(in)
      PROVE  LotsBack'
  <2>1. accounts' = accounts
    BY <1>4 DEF PostAccepted
  <2>2. ASSUME NEW a \in DOMAIN accounts, IsUser(a) PROVE Backed(a)'
    BY <1>4, <2>2, EarnBacks, SpendBacks DEF LotsBack, Disciplined
  <2>3. QED
    BY <1>3, <2>1, <2>2
<1>5. ASSUME NEW tenant \in Tenants, NEW src \in DOMAIN transactions, NEW actor, batch = Null,
             Reversible(src), transactions[src].tenant = tenant, src \notin DOMAIN reversalBySourceTxId,
             ReversalVerdict(tenant, src) = "OK", ReversalAccepted(tenant, src, actor)
      PROVE  LotsBack'
  <2>1. accounts' = accounts
    BY <1>5 DEF ReversalAccepted
  <2>2. ASSUME NEW a \in DOMAIN accounts, IsUser(a) PROVE Backed(a)'
    BY <1>5, <2>2, EarnReversalBacks, SpendReversalBacks DEF LotsBack, Reversible
  <2>3. QED
    BY <1>3, <2>1, <2>2
<1>6. CASE ExpirePost
  <2>1. ASSUME NEW a \in DOMAIN accounts, IsUser(a) PROVE Backed(a)'
    BY <1>6, <2>1, ExpirePostBacks DEF LotsBack
  <2>2. QED
    BY <1>3, <1>6, <2>1 DEF ExpirePost
<1>7. CASE ExpireMark
  <2>1. ASSUME NEW a \in DOMAIN accounts, IsUser(a) PROVE Backed(a)'
    BY <1>7, <2>1, ExpireMarkBacks DEF LotsBack
  <2>2. QED
    BY <1>3, <1>7, <2>1 DEF ExpireMark
<1>8. QED
  BY <1>1, <1>2, <1>4, <1>5, <1>6, <1>7, CreateAccountBacks, DisciplinedCases

\* What disciplined callers keep is kept on top of what all callers keep.
Disciplines == Settled /\ Traced /\ LotsBack

LEMMA DisciplinesStep ==
  ASSUME Disciplines, [DisciplinedNext]_vars
  PROVE  Disciplines'
<1>1. [Next]_vars
  BY DisciplinedIsNext
<1>2. Typed /\ ReversalIntegrity /\ LotsOK /\ LotsOwned /\ MovementsOK
  BY DEF Disciplines, Settled
<1>3. Typed'
  BY <1>1, <1>2, TypeStep, SystemAccountStep, BatchStep DEF Typed
<1>4. ReversalIntegrity' /\ LotsOK' /\ LotsOwned' /\ MovementsOK'
  BY <1>1, <1>2, ReversalStep, LotsStep, OwnedStep, MovementsStep
<1>5. QED
  BY <1>3, <1>4, TracedStep, BackedStep DEF Disciplines, Settled, Typed

LEMMA DisciplinesInit ==
  ASSUME Init
  PROVE  Disciplines
<1>1. Typed
  BY TypedInit
<1>2. ReversalIntegrity /\ LotsOK /\ LotsOwned /\ MovementsOK
  BY DEF Init, ReversalIntegrity, LotsOK, LotConservation, LotsGranted, ConsumptionsOK, SweepsOK,
         SweepInFlight, LotsOwned, MovementsOK
<1>3. Traced /\ LotsBack
  BY DEF Init, Traced, LotsBack
<1>4. QED
  BY <1>1, <1>2, <1>3 DEF Disciplines, Settled

\* The lots of an account with points left are the ACTIVE ones.
LEMMA ActiveRemain ==
  ASSUME TypeOK, LotsOK, NEW a
  PROVE  Remaining({l \in DOMAIN lots : lots[l].account = a /\ lots[l].status = "ACTIVE"})
            = Remaining(LotsOf(a))
<1> DEFINE left == [l \in DOMAIN lots |-> lots[l].remaining]
           A == {l \in DOMAIN lots : lots[l].account = a /\ lots[l].status = "ACTIVE"}
           B == LotsOf(a) \ A
<1>1. IsFiniteSet(A) /\ IsFiniteSet(B) /\ A \cap B = {} /\ A \cup B = LotsOf(a)
  <2>1. A \cup B = LotsOf(a) /\ A \cap B = {}
    BY DEF LotsOf
  <2>2. A \subseteq LotsOf(a) /\ B \subseteq LotsOf(a)
    BY DEF LotsOf
  <2> HIDE DEF A, B
  <2>3. QED
    BY <2>1, <2>2, LotsOfType, FS_Subset
<1>2. \A l \in LotsOf(a) : left[l] \in Int
  BY SoundLot DEF LotsOf
<1>3. \A l \in B : left[l] = 0
  BY SoundLot DEF LotsOf, LotSound
<1> HIDE DEF A, B, left
<1>4. SumFunctionOnSet(left, A \cup B) = SumFunctionOnSet(left, A) + SumFunctionOnSet(left, B)
  BY <1>1, <1>2, SumUnion
<1>5. SumFunctionOnSet(left, B) = 0
  BY <1>1, <1>3, SumZero
<1>6. SumFunctionOnSet(left, A) \in Int
  BY <1>1, <1>2, SumInt
<1>7. SumFunctionOnSet(left, A) = SumFunctionOnSet(left, LotsOf(a))
  <2>1. SumFunctionOnSet(left, LotsOf(a)) = SumFunctionOnSet(left, A) + SumFunctionOnSet(left, B)
    BY <1>1, <1>4, Zenon
  <2>2. QED
    BY <1>5, <1>6, <2>1
<1>8. Remaining(A) = Remaining(LotsOf(a))
  BY <1>7 DEF Remaining, left
<1>9. QED
  BY <1>8 DEF A

\* LG-INV-005 for callers that grant points only with an expiry: what the
\* ACTIVE lots of a user have left is the balance, but for the points of a
\* sweep in flight, however earnings, spends, reversals and batches follow
\* each other.
THEOREM LotsAlwaysBackBalances == DisciplinedSpec => []LotsBackBalances
<1>1. Init => Disciplines
  BY DisciplinesInit
<1>2. Disciplines /\ [DisciplinedNext]_vars => Disciplines'
  BY DisciplinesStep
<1>3. Disciplines => LotsBackBalances
  BY ActiveRemain DEF Disciplines, Settled, Typed, LotsBack, Backed, LotsBackBalances
<1>4. QED
  BY <1>1, <1>2, <1>3, PTL DEF DisciplinedSpec

-----------------------------------------------------------------------------
(* No batch fails.                                                         *)

\* Points are granted to users only, and a batch works on its tenant's lots.
LotsOfUsers == \A l \in DOMAIN lots : IsUser(lots[l].account)

DueOwned == batch # Null => \A l \in batch.due : lots[l].tenant = batch.tenant

\* Every step keeps lots with users.
LEMMA UsersStep ==
  ASSUME Settled, LotsOfUsers, [DisciplinedNext]_vars
  PROVE  LotsOfUsers'
<1>1. TypeOK
  BY DEF Settled, Typed
<1>2. [Next]_vars
  BY DisciplinedIsNext
<1>3. \A a \in DOMAIN accounts : a \in DOMAIN accounts' /\ accounts'[a] = accounts[a]
  <2>1. CASE UNCHANGED accounts
    BY <2>1
  <2>2. ASSUME NEW in, accounts' = Append(accounts, NewAccount(in))
        PROVE  \A a \in DOMAIN accounts : a \in DOMAIN accounts' /\ accounts'[a] = accounts[a]
    BY <1>1, <2>2, LenProperties DEF TypeOK
  <2>3. QED
    BY <1>2, <2>1, <2>2, StepMoves DEF Moved, Settled
<1>4. ASSUME NEW l \in DOMAIN lots PROVE IsUser(lots[l].account)'
  <2>1. lots'[l].account = lots[l].account
    BY <1>2, LotsKeepTerms DEF Settled, Terms
  <2>2. IsUser(lots[l].account)
    BY DEF LotsOfUsers
  <2>3. QED
    BY <1>3, <2>1, <2>2 DEF IsUser
<1>5. ASSUME NEW in \in PostInputs, PostVerdict(in) = "OK", PostAccepted(in),
             NEW l \in DOMAIN lots' \ DOMAIN lots
      PROVE  IsUser(lots[l].account)'
  <2>1. PICK n : n = Len(transactions) + 1
    OBVIOUS
  <2>2. /\ InputVerdict(in) = "OK"
        /\ MovementVerdict(in.tenant, EntriesOf(in), "TX_SUM_NOT_ZERO") = "OK"
    BY <1>5 DEF PostVerdict
  <2>3. lots' = LotsAfterPost(in, n) /\ accounts' = accounts
    BY <1>1, <1>5, <2>1, <2>2, PostRecords
  <2>4. /\ l \in Granted(in, n) /\ lots'[l] = NewLot(in, l[2])
        /\ in.txType # "SPEND" /\ l[2] \in DOMAIN in.entries
    <3>1. LotsGranted
      BY DEF Settled, LotsOK
    <3>2. /\ DOMAIN lots' = DOMAIN lots \cup Granted(in, n)
          /\ \A k \in Granted(in, n) :
                lots'[k] = NewLot(in, k[2]) /\ in.txType # "SPEND" /\ k[2] \in DOMAIN in.entries
      BY <1>1, <2>1, <2>2, <2>3, <3>1, PostedLots
    <3>3. QED
      BY <1>5, <3>2
  <2>5. accounts[in.entries[l[2]].account].ownerType = "USER"
    BY <2>4 DEF Granted
  <2>6. in.entries[l[2]].account \in DOMAIN accounts
    <3>1. \A i \in DOMAIN EntriesOf(in) : Owns(in.tenant, EntriesOf(in)[i].account)
      BY <2>2, VerdictAllows
    <3>2. l[2] \in DOMAIN EntriesOf(in) /\ EntriesOf(in)[l[2]].account = in.entries[l[2]].account
      BY <2>4 DEF EntriesOf
    <3>3. QED
      BY <3>1, <3>2 DEF Owns
  <2>7. lots'[l].account = in.entries[l[2]].account
    BY <2>4 DEF NewLot
  <2>8. QED
    BY <2>3, <2>5, <2>6, <2>7 DEF IsUser
<1>6. ASSUME NEW tenant, NEW src \in DOMAIN transactions, NEW actor,
             src \notin DOMAIN reversalBySourceTxId, ReversalAccepted(tenant, src, actor)
      PROVE  DOMAIN lots' = DOMAIN lots
  <2>1. lots' = LotsAfterReversal(tenant, src)
    BY <1>1, <1>6, ReversalRecords DEF Settled
  <2>2. QED
    BY <2>1 DEF LotsAfterReversal, LotsMovedBy
<1>7. CASE ExpirePost \/ ExpireMark
  BY <1>4, <1>7 DEF ExpirePost, ExpireMark, LotsOfUsers
<1>8. CASE UNCHANGED lots
  BY <1>4, <1>8 DEF LotsOfUsers
<1>9. QED
  BY <1>1, <1>4, <1>5, <1>6, <1>7, <1>8, DisciplinedCases DEF ledger, LotsOfUsers

\* Every step keeps the targets of a batch with its tenant.
LEMMA DueOwnedStep ==
  ASSUME Settled, DueOwned, [Next]_vars
  PROVE  DueOwned'
<1>1. Typed /\ TypeOK
  BY DEF Settled, Typed
<1>2. ASSUME batch # Null, batch' # Null, batch'.due = batch.due, batch'.tenant = batch.tenant
      PROVE  DueOwned'
  <2>1. \A l \in batch.due : l \in DOMAIN lots /\ lots[l].tenant = batch.tenant
    BY <1>1, <1>2 DEF Typed, BatchOK, DueOwned
  <2>2. \A l \in DOMAIN lots : lots'[l].tenant = lots[l].tenant
    BY LotsKeepTerms DEF Settled, Terms
  <2>3. QED
    BY <1>2, <2>1, <2>2 DEF DueOwned
<1>3. CASE batch # Null /\ ExpirePost
  <2>1. batch \in Batch /\ batch' \in Batch
    BY <1>1, <1>3, PostHandsOver DEF TypeOK
  <2>2. batch'.due = batch.due /\ batch'.tenant = batch.tenant
    BY <1>3, <2>1 DEF ExpirePost, Batch
  <2>3. QED
    BY <1>2, <1>3, <2>1, <2>2, NullAssumption
<1>4. CASE batch # Null /\ ExpireMark
  <2>1. batch \in Batch /\ batch' \in Batch
    BY <1>1, <1>4, MarkHandsBack DEF TypeOK
  <2>2. batch'.due = batch.due /\ batch'.tenant = batch.tenant
    BY <1>4, <2>1 DEF ExpireMark, Batch
  <2>3. QED
    BY <1>2, <1>4, <2>1, <2>2, NullAssumption
<1>5. CASE batch' = Null
  BY <1>5 DEF DueOwned
<1>6. ASSUME NEW t \in Tenants, NEW now \in Times, ExpireBegin(t, now), batch' # Null
      PROVE  DueOwned'
  <2>1. /\ batch' = [tenant |-> t, now |-> now, system |-> FirstSystemAccount(t),
                     due |-> DueLots(t, now), posted |-> Null]
        /\ lots' = lots
    BY <1>6 DEF ExpireBegin, Answered, ledger
  <2>2. batch'.due = DueLots(t, now) /\ batch'.tenant = t
    BY <2>1
  <2>3. QED
    BY <2>1, <2>2 DEF DueOwned, DueLots
<1>7. CASE batch # Null
  BY <1>2, <1>3, <1>4, <1>5, <1>7, StepInBatch DEF ExpireStep, ExpireAbort, ExpireEnd
<1>8. CASE batch = Null
  BY <1>5, <1>6, <1>8 DEF Next, vars, Tick, CreateAccount, PostTransaction, PostAccepted,
     ReverseTransaction, ReversalAccepted, Detail, Answered, ExpireStep, ExpirePost, ExpireAbort,
     ExpireMark, ExpireEnd
<1>9. QED
  BY <1>7, <1>8

\* A movement between two accounts moves what the second gains.
LEMMA TotalOfPair ==
  ASSUME NEW e \in Seq(Entry), Len(e) = 2, e[1].amount = - e[2].amount
  PROVE  Total(e) = 0
<1>1. DOMAIN e = {1, 2}
  BY LenProperties
<1>2. /\ Amounts(e)[1] = e[1].amount /\ Amounts(e)[2] = e[2].amount
      /\ DOMAIN Amounts(e) = {1, 2}
      /\ e[1].amount \in Int /\ e[2].amount \in Int
  BY <1>1, EntryTypes DEF Amounts
<1>3. /\ SumFunctionOnSet(Amounts(e), {1}) = Amounts(e)[1]
      /\ SumFunctionOnSet(Amounts(e), {2}) = Amounts(e)[2]
  BY <1>2, SumSingle
<1>4. IsFiniteSet({1}) /\ IsFiniteSet({2}) /\ {1} \cap {2} = {} /\ {1} \cup {2} = {1, 2}
  <2>1. IsFiniteSet({1}) /\ IsFiniteSet({2})
    BY FS_Singleton
  <2>2. QED
    BY <2>1
<1>5. SumFunctionOnSet(Amounts(e), {1} \cup {2})
         = SumFunctionOnSet(Amounts(e), {1}) + SumFunctionOnSet(Amounts(e), {2})
  BY <1>2, <1>4, SumUnion
<1>6. Total(e) = SumFunctionOnSet(Amounts(e), {1, 2})
  BY <1>2, SumOfFunction DEF Total
<1>7. Total(e) = SumFunctionOnSet(Amounts(e), {1}) + SumFunctionOnSet(Amounts(e), {2})
  BY <1>4, <1>5, <1>6
<1>8. Total(e) = e[1].amount + e[2].amount
  BY <1>2, <1>3, <1>7
<1>9. QED
  BY <1>2, <1>8

\* The points of a due lot are there to be swept.
LEMMA SweepIsAllowed ==
  ASSUME Disciplines, LotsOfUsers, DueOwned, NoNegativeBalance,
         batch # Null, batch.posted = Null, Pending # {}
  PROVE  ExpireVerdict = "OK"
<1>1. Typed /\ TypeOK /\ LotsOK /\ LotsOwned /\ LotsBack
  BY DEF Disciplines, Settled, Typed
<1>2. PICK l : l = NextDue
  OBVIOUS
<1>3. l \in DOMAIN lots /\ l \in batch.due
  BY <1>1, <1>2, NextDueType DEF Typed, BatchOK, Pending
<1>4. PICK a, s, r : a = lots[l].account /\ s = batch.system /\ r = lots[l].remaining
  OBVIOUS
<1>5. PICK e : e = ExpireEntries(l)
  OBVIOUS
<1>6. r \in Int /\ r >= 0
  BY <1>1, <1>3, <1>4, SoundLot DEF LotSound
<1>7. /\ e \in Seq(Entry) /\ Len(e) = 2 /\ DOMAIN e = {1, 2}
      /\ e[1].account = a /\ e[1].amount = - r /\ e[2].account = s /\ e[2].amount = r
  BY <1>1, <1>3, <1>4, <1>5, ExpireEntriesType, LenProperties DEF ExpireEntries
<1>8. IsUser(a) /\ Owns(batch.tenant, a)
  BY <1>1, <1>3, <1>4 DEF LotsOfUsers, LotsOwned, DueOwned
<1>9. Owns(batch.tenant, s) /\ s \in DOMAIN accounts /\ ~ IsUser(s) /\ s # a
  BY <1>1, <1>4, <1>8 DEF Typed, BatchOK, SystemAccounts, IsUser, Owns
<1>10. Total(e) = 0
  BY <1>7, TotalOfPair
<1>11. balances[a] >= r /\ balances[a] \in Int /\ Delta(e, a) = - r
  <2>1. balances[a] \in Int
    BY <1>1, <1>8 DEF TypeOK, IsUser
  <2>2. Delta(e, a) = - r
    BY <1>7, <1>9, DeltaOfPair
  <2>3. Remaining(LotsOf(a)) = balances[a]
    <3>1. InFlight(a) = 0
      BY DEF InFlight
    <3>2. Remaining(LotsOf(a)) = balances[a] + InFlight(a)
      BY <1>1, <1>8 DEF LotsBack, Backed, IsUser
    <3>3. QED
      BY <2>1, <3>1, <3>2
  <2>4. r <= Remaining(LotsOf(a))
    <3> DEFINE left == [m \in DOMAIN lots |-> lots[m].remaining]
    <3>1. \A m \in LotsOf(a) : left[m] \in Nat
      BY <1>1, SoundLot DEF LotsOf, LotSound
    <3>2. l \in LotsOf(a) /\ left[l] = r
      BY <1>3, <1>4 DEF LotsOf
    <3>3. Remaining(LotsOf(a)) = SumFunctionOnSet(left, LotsOf(a))
      BY DEF Remaining
    <3> HIDE DEF left
    <3>4. QED
      BY <1>1, <3>1, <3>2, <3>3, LotsOfType, SumBounds
  <2>5. QED
    BY <2>1, <2>2, <2>3, <2>4
<1>12. ~ accounts[s].allowNegative => balances[s] + Delta(e, s) >= 0
  <2>1. Delta(e, s) \in Int /\ balances[s] \in Int
    BY <1>1, <1>7, <1>9, DeltaInt DEF TypeOK
  <2>2. Delta(e, s) = r
    <3>1. {i \in DOMAIN e : e[i].account = s} = {2}
      BY <1>7, <1>9
    <3>2. Amounts(e)[2] = r
      BY <1>7 DEF Amounts
    <3>3. QED
      BY <1>6, <3>1, <3>2, SumSingle DEF Delta
  <2>3. ~ accounts[s].allowNegative => balances[s] >= 0
    BY <1>9 DEF NoNegativeBalance
  <2>4. QED
    BY <1>6, <2>1, <2>2, <2>3
<1>13. ~ Overdrawn(e)
  <2>1. ~ (balances[a] + Delta(e, a) < 0)
    BY <1>6, <1>11
  <2>2. ~ (~ accounts[s].allowNegative /\ balances[s] + Delta(e, s) < 0)
    <3>1. balances[s] + Delta(e, s) \in Int
      BY <1>1, <1>7, <1>9, DeltaInt DEF TypeOK
    <3>2. QED
      BY <1>12, <3>1
  <2>3. QED
    BY <1>7, <2>1, <2>2 DEF Overdrawn
<1>14. \A i \in DOMAIN e : Owns(batch.tenant, e[i].account)
  BY <1>7, <1>8, <1>9
<1>15. QED
  BY <1>2, <1>5, <1>10, <1>13, <1>14 DEF ExpireVerdict, MovementVerdict

\* A batch that gives the mutex back has done its work.
LEMMA BatchAnswersOK ==
  ASSUME Disciplines, LotsOfUsers, DueOwned, NoNegativeBalance, AssertionsOK, [Next]_vars,
         batch # Null, batch' = Null
  PROVE  reply'.code = "OK"
<1>1. Typed /\ TypeOK
  BY DEF Disciplines, Settled, Typed
<1>2. ExpireStep
  BY StepInBatch
<1>3. batch' \notin Batch
  BY NullAssumption
<1>4. ~ ExpirePost /\ ~ ExpireMark
  BY <1>1, <1>3, PostHandsOver, MarkHandsBack
<1>5. ~ ExpireAbort
  BY SweepIsAllowed DEF ExpireAbort
<1>6. ExpireEnd /\ batch.tenant \in Tenants
  BY <1>1, <1>2, <1>4, <1>5 DEF ExpireStep, TypeOK, Batch
<1>7. QED
  BY <1>6 DEF ExpireEnd, AssertionsOK, Answer

\* The batch of disciplined callers is never refused for want of balance, nor
\* stopped by an assertion: it never leaves some due lots swept and others not.
THEOREM NoBatchFails == DisciplinedSpec => BatchNeverFails
<1>1. Init => Disciplines /\ LotsOfUsers /\ DueOwned /\ NoNegativeBalance
  BY DisciplinesInit DEF Init, LotsOfUsers, DueOwned, NoNegativeBalance
<1>2. Disciplines /\ LotsOfUsers /\ DueOwned /\ NoNegativeBalance /\ [DisciplinedNext]_vars
      => Disciplines' /\ LotsOfUsers' /\ DueOwned' /\ NoNegativeBalance'
  <2>1. [DisciplinedNext]_vars => [Next]_vars
    BY DisciplinedIsNext
  <2>2. QED
    BY <2>1, DisciplinesStep, UsersStep, DueOwnedStep, NonNegativeStep DEF Disciplines, Settled
<1>3. Disciplines /\ NoNegativeBalance => AssertionsOK
  BY AssertionsHold DEF Disciplines, Settled, Typed
<1> DEFINE Good == (batch # Null /\ batch' = Null) => reply'.code = "OK"
<1>4. Disciplines /\ LotsOfUsers /\ DueOwned /\ NoNegativeBalance /\ AssertionsOK
      /\ [DisciplinedNext]_vars => [Good]_vars
  BY BatchAnswersOK, DisciplinedIsNext
<1>5. QED
  BY <1>1, <1>2, <1>3, <1>4, PTL DEF DisciplinedSpec, BatchNeverFails

-----------------------------------------------------------------------------
(* Requests of members.                                                    *)

\* The shape of the journal, whatever its records are made of.
Listed(s) == \E S : s \in Seq(S)

Shaped ==
    /\ Listed(accounts) /\ Listed(transactions) /\ Listed(entriesByTxId) /\ Listed(auditLogs)
    /\ DOMAIN entriesByTxId = DOMAIN transactions

\* What a step keeps of the records there were.
Kept ==
    /\ \A tx \in DOMAIN transactions : /\ tx \in DOMAIN transactions'
                                       /\ transactions'[tx].actor = transactions[tx].actor
                                       /\ entriesByTxId'[tx] = entriesByTxId[tx]
    /\ \A i \in DOMAIN auditLogs : i \in DOMAIN auditLogs' /\ auditLogs'[i] = auditLogs[i]
    /\ \A a \in DOMAIN accounts : a \in DOMAIN accounts' /\ accounts'[a] = accounts[a]

LEMMA ListedAppend ==
  ASSUME NEW s, Listed(s), NEW x
  PROVE  /\ Listed(Append(s, x))
         /\ Len(s) + 1 \notin DOMAIN s
         /\ DOMAIN Append(s, x) = DOMAIN s \cup {Len(s) + 1}
         /\ Append(s, x)[Len(s) + 1] = x
         /\ \A i \in DOMAIN s : Append(s, x)[i] = s[i]
<1>1. PICK S : s \in Seq(S)
  BY DEF Listed
<1> DEFINE T == S \cup {x}
<1>2. s \in Seq(T) /\ x \in T
  BY <1>1, LenProperties
<1> HIDE DEF T
<1>3. /\ Append(s, x) \in Seq(T)
      /\ DOMAIN s = 1 .. Len(s) /\ Len(s) \in Nat
      /\ DOMAIN Append(s, x) = 1 .. Len(s) + 1
      /\ Append(s, x)[Len(s) + 1] = x
      /\ \A i \in 1 .. Len(s) : Append(s, x)[i] = s[i]
  BY <1>2, AppendProperties, LenProperties
<1>4. QED
  BY <1>3 DEF Listed

LEMMA ListedExcept ==
  ASSUME NEW s, Listed(s), NEW i, NEW x
  PROVE  LET r == [s EXCEPT ![i] = x] IN
         /\ Listed(r) /\ DOMAIN r = DOMAIN s /\ Len(r) = Len(s)
         /\ \A j \in DOMAIN s : j # i => r[j] = s[j]
         /\ i \in DOMAIN s => r[i] = x
<1>1. PICK S : s \in Seq(S)
  BY DEF Listed
<1>2. PICK r : r = [s EXCEPT ![i] = x]
  OBVIOUS
<1>3. /\ DOMAIN s = 1 .. Len(s) /\ Len(s) \in Nat /\ \A j \in 1 .. Len(s) : s[j] \in S
      /\ s = [j \in DOMAIN s |-> s[j]]
  BY <1>1, LenProperties
<1>4. /\ DOMAIN r = DOMAIN s /\ r = [j \in DOMAIN s |-> IF j = i THEN x ELSE s[j]]
  BY <1>2, <1>3
<1>5. r \in [1 .. Len(s) -> S \cup {x}]
  BY <1>3, <1>4
<1>6. r \in Seq(S \cup {x}) /\ Len(r) = Len(s)
  BY <1>3, <1>5, IsASeq, LenProperties
<1>7. QED
  BY <1>2, <1>4, <1>6 DEF Listed

\* A step that records a transaction keeps the records before it.
LEMMA RecordKeeps ==
  ASSUME Shaped, NEW old, Listed(old), DOMAIN old = DOMAIN transactions, Len(old) = Len(transactions),
         \A tx \in DOMAIN transactions : old[tx].actor = transactions[tx].actor,
         NEW rec, transactions' = Append(old, rec),
         NEW e, entriesByTxId' = Append(entriesByTxId, e),
         NEW log, auditLogs' = Append(auditLogs, log),
         accounts' = accounts
  PROVE  /\ Shaped' /\ Kept
         /\ DOMAIN transactions' = DOMAIN transactions \cup {Len(transactions) + 1}
         /\ Len(transactions) + 1 \notin DOMAIN transactions
         /\ transactions'[Len(transactions) + 1] = rec
         /\ entriesByTxId'[Len(transactions) + 1] = e
         /\ \E i \in DOMAIN auditLogs' : auditLogs'[i] = log
<1>1. /\ Listed(accounts) /\ Listed(transactions) /\ Listed(entriesByTxId) /\ Listed(auditLogs)
      /\ DOMAIN entriesByTxId = DOMAIN transactions
  BY DEF Shaped
<1>2. PICK S, T : transactions \in Seq(S) /\ entriesByTxId \in Seq(T)
  BY <1>1 DEF Listed
<1>3. Len(entriesByTxId) = Len(transactions)
  BY <1>1, <1>2, LenProperties
<1>4. /\ Listed(transactions')
      /\ DOMAIN transactions' = DOMAIN transactions \cup {Len(transactions) + 1}
      /\ Len(transactions) + 1 \notin DOMAIN transactions
      /\ transactions'[Len(transactions) + 1] = rec
      /\ \A tx \in DOMAIN transactions : transactions'[tx].actor = transactions[tx].actor
  <2>1. \A tx \in DOMAIN transactions : Append(old, rec)[tx] = old[tx]
    BY ListedAppend
  <2>2. QED
    BY <2>1, ListedAppend
<1>5. /\ Listed(entriesByTxId')
      /\ DOMAIN entriesByTxId' = DOMAIN transactions \cup {Len(transactions) + 1}
      /\ entriesByTxId'[Len(transactions) + 1] = e
      /\ \A tx \in DOMAIN transactions : entriesByTxId'[tx] = entriesByTxId[tx]
  BY <1>1, <1>3, ListedAppend
<1>6. /\ Listed(auditLogs') /\ \E i \in DOMAIN auditLogs' : auditLogs'[i] = log
      /\ \A i \in DOMAIN auditLogs : i \in DOMAIN auditLogs' /\ auditLogs'[i] = auditLogs[i]
  BY <1>1, ListedAppend
<1>7. QED
  BY <1>1, <1>4, <1>5, <1>6 DEF Shaped, Kept

\* No call and no step of a batch takes a record away.
LEMMA StepKeeps ==
  ASSUME Shaped,
         \/ UNCHANGED ledger
         \/ \E in \in AccountInputs : CreateAccount(in)
         \/ \E in : PostTransaction(in)
         \/ \E t, src, actor : ReverseTransaction(t, src, actor)
         \/ ExpireStep
  PROVE  Shaped' /\ Kept
<1>1. /\ Listed(accounts) /\ Listed(transactions) /\ Listed(entriesByTxId) /\ Listed(auditLogs)
      /\ DOMAIN entriesByTxId = DOMAIN transactions
  BY DEF Shaped
<1>2. ASSUME UNCHANGED <<accounts, transactions, entriesByTxId, auditLogs>> PROVE Shaped' /\ Kept
  BY <1>2 DEF Shaped, Kept
<1>3. ASSUME UNCHANGED ledger PROVE Shaped' /\ Kept
  BY <1>2, <1>3 DEF ledger, journal
<1>4. ASSUME NEW in \in AccountInputs, CreateAccount(in) PROVE Shaped' /\ Kept
  <2>1. CASE UNCHANGED ledger
    BY <1>3, <2>1
  <2>2. CASE /\ accounts' = Append(accounts, NewAccount(in))
             /\ UNCHANGED <<transactions, entriesByTxId, auditLogs>>
    BY <1>1, <2>2, ListedAppend DEF Shaped, Kept
  <2>3. QED
    BY <1>4, <2>1, <2>2 DEF CreateAccount, Answered, journal
<1>5. ASSUME NEW in, PostTransaction(in) PROVE Shaped' /\ Kept
  <2>1. CASE UNCHANGED ledger
    BY <1>3, <2>1
  <2>2. CASE PostAccepted(in)
    <3>1. accounts' = accounts
      BY <2>2 DEF PostAccepted
    <3>2. CASE UNCHANGED journal
      BY <1>2, <3>1, <3>2 DEF journal
    <3>3. ASSUME NEW rec, transactions' = Append(transactions, rec),
                 NEW e, entriesByTxId' = Append(entriesByTxId, e),
                 NEW log, auditLogs' = Append(auditLogs, log)
          PROVE  Shaped' /\ Kept
      BY <1>1, <3>1, <3>3, RecordKeeps
    <3>4. QED
      BY <2>2, <3>2, <3>3 DEF PostAccepted
  <2>3. QED
    BY <1>5, <2>1, <2>2 DEF PostTransaction, Detail, Answered
<1>6. ASSUME NEW t, NEW src, NEW actor, ReverseTransaction(t, src, actor) PROVE Shaped' /\ Kept
  <2>1. CASE UNCHANGED ledger
    BY <1>3, <2>1
  <2>2. CASE ReversalAccepted(t, src, actor)
    <3>1. accounts' = accounts
      BY <2>2 DEF ReversalAccepted
    <3>2. CASE UNCHANGED journal
      BY <1>2, <3>1, <3>2 DEF journal
    <3>3. PICK old : old = [transactions EXCEPT ![src].status = "REVERSED"]
      OBVIOUS
    <3>4. PICK now : now = [transactions[src] EXCEPT !.status = "REVERSED"]
      OBVIOUS
    <3>5. old = [transactions EXCEPT ![src] = now] /\ now.actor = transactions[src].actor
      BY <3>3, <3>4
    <3>6. /\ Listed(old) /\ DOMAIN old = DOMAIN transactions /\ Len(old) = Len(transactions)
          /\ \A tx \in DOMAIN transactions : old[tx].actor = transactions[tx].actor
      BY <1>1, <3>5, ListedExcept
    <3>7. ASSUME NEW rec, transactions' = Append(old, rec),
                 NEW e, entriesByTxId' = Append(entriesByTxId, e),
                 NEW log, auditLogs' = Append(auditLogs, log)
          PROVE  Shaped' /\ Kept
      BY <3>1, <3>6, <3>7, RecordKeeps
    <3>8. QED
      BY <2>2, <3>2, <3>3, <3>7 DEF ReversalAccepted
  <2>3. QED
    BY <1>6, <2>1, <2>2 DEF ReverseTransaction, Detail, Answered
<1>7. CASE ExpirePost
  <2>1. accounts' = accounts
    BY <1>7 DEF ExpirePost
  <2>2. ASSUME NEW rec, transactions' = Append(transactions, rec),
               NEW e, entriesByTxId' = Append(entriesByTxId, e),
               NEW log, auditLogs' = Append(auditLogs, log)
        PROVE  Shaped' /\ Kept
    BY <1>1, <2>1, <2>2, RecordKeeps
  <2>3. QED
    BY <1>7, <2>2 DEF ExpirePost
<1>8. CASE ExpireMark
  <2>1. ASSUME NEW log, auditLogs' = Append(auditLogs, log) PROVE Shaped' /\ Kept
    BY <1>1, <1>8, <2>1, ListedAppend DEF ExpireMark, Shaped, Kept
  <2>2. QED
    BY <1>8, <2>1 DEF ExpireMark
<1>9. CASE ExpireAbort \/ ExpireEnd
  BY <1>3, <1>9 DEF ExpireAbort, ExpireEnd
<1>10. QED
  BY <1>3, <1>4, <1>5, <1>6, <1>7, <1>8, <1>9 DEF ExpireStep

\* What MembersSpendTheirOwn says of one transaction, and that the accounts it
\* names exist.
OwnPosting(tx) ==
    LET c == postedBy[tx] IN
    c.role = "MEMBER" =>
        /\ transactions[tx].actor = c.user
        /\ \E i \in DOMAIN auditLogs : auditLogs[i].tx = tx /\ auditLogs[i].actor = c.user
        /\ \A i \in DOMAIN entriesByTxId[tx] :
              entriesByTxId[tx][i].amount < 0 =>
                  /\ entriesByTxId[tx][i].account \in DOMAIN accounts
                  /\ accounts[entriesByTxId[tx][i].account].ownerType = "USER"
                  /\ owners[entriesByTxId[tx][i].account] = c.user

\* What was checked of an authorised posting still holds when it gets the mutex.
AuthorisedOK ==
    authorised # Null =>
        /\ authorised.caller.role = "MEMBER"
        /\ authorised.in.actor = authorised.caller.user
        /\ authorised.in.spend.amount \in Int
        /\ SpendsOwn(authorised.caller, authorised.in)

HttpOK ==
    /\ Shaped
    /\ DOMAIN owners = DOMAIN accounts
    /\ DOMAIN postedBy = DOMAIN transactions
    /\ AuthorisedOK
    /\ \A tx \in DOMAIN transactions : OwnPosting(tx)

\* The owners of the accounts there were.
OwnersKept == /\ DOMAIN owners' = DOMAIN accounts'
              /\ \A a \in DOMAIN accounts : owners'[a] = owners[a]

\* What holds of the past is left as it was.
LEMMA PastKept ==
  ASSUME HttpOK, Shaped', Kept, OwnersKept,
         DOMAIN postedBy' = DOMAIN transactions',
         \A tx \in DOMAIN transactions : postedBy'[tx] = postedBy[tx],
         \A tx \in DOMAIN transactions' \ DOMAIN transactions : OwnPosting(tx)',
         authorised' \in {authorised, Null} \/ AuthorisedOK'
  PROVE  HttpOK'
<1>1. ASSUME NEW tx \in DOMAIN transactions PROVE OwnPosting(tx)'
  <2>1. OwnPosting(tx)
    BY DEF HttpOK
  <2>2. /\ transactions'[tx].actor = transactions[tx].actor
        /\ entriesByTxId'[tx] = entriesByTxId[tx]
        /\ postedBy'[tx] = postedBy[tx]
    BY DEF Kept
  <2>3. \A i \in DOMAIN auditLogs : i \in DOMAIN auditLogs' /\ auditLogs'[i] = auditLogs[i]
    BY DEF Kept
  <2>4. \A a \in DOMAIN accounts : a \in DOMAIN accounts' /\ accounts'[a] = accounts[a] /\ owners'[a] = owners[a]
    BY DEF Kept, OwnersKept
  <2>5. QED
    BY <2>1, <2>2, <2>3, <2>4 DEF OwnPosting
<1>2. AuthorisedOK'
  <2>1. CASE authorised' = authorised
    <3>1. PICK c, in : c = authorised.caller /\ in = authorised.in
      OBVIOUS
    <3>2. SpendsOwn(c, in) => SpendsOwn(c, in)'
      BY DEF SpendsOwn, Owns, Kept, OwnersKept
    <3>3. authorised # Null => /\ c.role = "MEMBER" /\ in.actor = c.user
                              /\ in.spend.amount \in Int /\ SpendsOwn(c, in)
      BY <3>1 DEF HttpOK, AuthorisedOK
    <3>4. authorised'.caller = c /\ authorised'.in = in
      BY <2>1, <3>1
    <3>5. QED
      BY <2>1, <3>2, <3>3, <3>4 DEF AuthorisedOK, SpendsOwn, Owns
  <2>2. CASE authorised' = Null
    BY <2>2 DEF AuthorisedOK
  <2>3. QED
    BY <2>1, <2>2
<1>3. QED
  BY <1>1, <1>2 DEF HttpOK, OwnersKept

\* Whatever an administrator or the batch posts is not a member's.
LEMMA OthersKeep ==
  ASSUME HttpOK, NEW c, c.role # "MEMBER", Attributed(c), Shaped', Kept,
         accounts' = accounts, authorised' = authorised
  PROVE  HttpOK'
<1>1. /\ DOMAIN postedBy' = DOMAIN transactions'
      /\ \A tx \in DOMAIN transactions : postedBy'[tx] = postedBy[tx]
      /\ \A tx \in DOMAIN transactions' \ DOMAIN transactions : postedBy'[tx] = c
  BY DEF Attributed, HttpOK, Kept
<1>2. OwnersKept
  BY DEF Attributed, HttpOK, OwnersKept
<1>3. \A tx \in DOMAIN transactions' \ DOMAIN transactions : OwnPosting(tx)'
  BY <1>1 DEF OwnPosting
<1>4. QED
  BY <1>1, <1>2, <1>3, PastKept

\* The posting of a member takes points from his accounts.
LEMMA MemberPosts ==
  ASSUME HttpOK, NEW in, NEW c, c.role = "MEMBER", in.actor = c.user,
         in.spend.amount \in Int, SpendsOwn(c, in), PostTransaction(in), Attributed(c), authorised' = Null
  PROVE  HttpOK'
<1>1. Shaped' /\ Kept
  BY StepKeeps DEF HttpOK
<1>2. accounts' = accounts
  BY DEF PostTransaction, PostAccepted, Detail, Answered, ledger
<1>3. /\ DOMAIN postedBy' = DOMAIN transactions'
      /\ \A tx \in DOMAIN transactions : postedBy'[tx] = postedBy[tx]
      /\ \A tx \in DOMAIN transactions' \ DOMAIN transactions : postedBy'[tx] = c
  BY <1>1 DEF Attributed, HttpOK, Kept
<1>4. OwnersKept /\ owners' = owners
  BY <1>2 DEF Attributed, HttpOK, OwnersKept
<1>5. ASSUME NEW tx \in DOMAIN transactions' \ DOMAIN transactions PROVE OwnPosting(tx)'
  <2>1. PICK n : n = Len(transactions) + 1
    OBVIOUS
  <2>2. transactions' # transactions
    BY <1>5
  <2>3. PostVerdict(in) = "OK" /\ PostAccepted(in)
    BY <2>2 DEF PostTransaction, Detail, Answered, ledger, journal
  <2>4. PICK rec, log :
           /\ transactions' = Append(transactions, rec) /\ rec.actor = in.actor
           /\ entriesByTxId' = Append(entriesByTxId, EntriesOf(in))
           /\ auditLogs' = Append(auditLogs, log) /\ log.tx = n /\ log.actor = in.actor
    <3>1. PICK rec : rec = Transaction(in.tenant, in.txType, in.actor, TrimmedKey(in.key), Null)
      OBVIOUS
    <3>2. PICK log : log = Audit(in.tenant, in.actor, "TX_POST", n, Null, 0)
      OBVIOUS
    <3>3. rec.actor = in.actor /\ log.tx = n /\ log.actor = in.actor
      BY <3>1, <3>2 DEF Transaction, Audit
    <3>4. /\ transactions' = Append(transactions, rec)
          /\ entriesByTxId' = Append(entriesByTxId, EntriesOf(in))
          /\ auditLogs' = Append(auditLogs, log)
      BY <2>1, <2>2, <2>3, <3>1, <3>2 DEF PostAccepted, journal
    <3>5. QED
      BY <3>3, <3>4
  <2>5. /\ DOMAIN transactions' = DOMAIN transactions \cup {n}
        /\ transactions'[n] = rec /\ entriesByTxId'[n] = EntriesOf(in)
        /\ \E i \in DOMAIN auditLogs' : auditLogs'[i] = log
    <3>1. Shaped /\ Listed(transactions)
      BY DEF HttpOK, Shaped
    <3>2. QED
      BY <1>2, <2>1, <2>4, <3>1, RecordKeeps
  <2>6. tx = n
    BY <1>5, <2>5
  <2>7. in.txType = "SPEND" /\ ~ (in.spend.amount <= 0)
    BY <2>3 DEF SpendsOwn, PostVerdict, InputVerdict, SpendVerdict
  <2>8. /\ EntriesOf(in) = << [account |-> in.spend.account, amount |-> - in.spend.amount],
                              [account |-> in.counter, amount |-> in.spend.amount] >>
    BY <2>7 DEF EntriesOf
  <2>9. \A i \in DOMAIN EntriesOf(in) :
           EntriesOf(in)[i].amount < 0 => EntriesOf(in)[i].account = in.spend.account
    <3>1. ~ (in.spend.amount < 0)
      BY <2>7
    <3>2. QED
      BY <2>8, <3>1
  <2>10. /\ in.spend.account \in DOMAIN accounts'
         /\ accounts'[in.spend.account].ownerType = "USER"
         /\ owners'[in.spend.account] = c.user
    BY <1>2, <1>4 DEF SpendsOwn, Owns
  <2>11. postedBy'[tx] = c
    BY <1>3, <1>5
  <2>12. /\ transactions'[tx].actor = c.user
         /\ \E i \in DOMAIN auditLogs' : auditLogs'[i].tx = tx /\ auditLogs'[i].actor = c.user
    BY <2>4, <2>5, <2>6
  <2>13. QED
    BY <2>5, <2>6, <2>9, <2>10, <2>11, <2>12 DEF OwnPosting
<1>6. QED
  BY <1>1, <1>3, <1>4, <1>5, PastKept

\* What a member was let to ask for is his.
LEMMA AuthorisedIsOwn ==
  ASSUME NEW c \in Callers, NEW in \in PostInputs, NEW header, c.role = "MEMBER", SpendsOwn(c, in),
         NEW asked, asked = AsMember(c, WithHeader(in, header))
  PROVE  asked.actor = c.user /\ asked.spend.amount \in Int /\ SpendsOwn(c, asked)
<1>1. in \in PostInput /\ in.spend # Null
  BY InputAssumption DEF SpendsOwn
<1>2. PICK k : k = WithHeader(in, header)
  OBVIOUS
<1>3. /\ k.txType = in.txType /\ k.spend = in.spend /\ k.tenant = in.tenant
      /\ \/ k = in
         \/ k = [in EXCEPT !.key = HeaderKey(header)]
  BY <1>1, <1>2 DEF WithHeader, PostInput
<1>4. /\ asked = [k EXCEPT !.actor = c.user]
      /\ asked.actor = c.user /\ asked.txType = in.txType /\ asked.spend = in.spend
      /\ asked.tenant = in.tenant
  BY <1>1, <1>2, <1>3 DEF AsMember, PostInput
<1>5. in.spend.amount \in Int
  BY <1>1 DEF PostInput
<1>6. QED
  BY <1>4, <1>5 DEF SpendsOwn

\* Every request and every step of a batch keeps members to their accounts.
LEMMA HttpStep ==
  ASSUME HttpOK, [HttpNext]_httpVars
  PROVE  HttpOK'
<1>1. Shaped
  BY DEF HttpOK
<1>2. ASSUME UNCHANGED ledger, UNCHANGED <<owners, postedBy>>,
             authorised' \in {authorised, Null} \/ AuthorisedOK'
      PROVE  HttpOK'
  <2>1. Shaped' /\ Kept
    BY <1>1, <1>2, StepKeeps
  <2>2. transactions' = transactions /\ accounts' = accounts
    BY <1>2 DEF ledger, journal
  <2>3. OwnersKept /\ DOMAIN postedBy' = DOMAIN transactions'
    BY <1>2, <2>2 DEF OwnersKept, HttpOK
  <2>4. QED
    BY <1>2, <2>1, <2>2, <2>3, PastKept
<1>3. CASE HttpTick \/ UNCHANGED httpVars
  BY <1>2, <1>3 DEF HttpTick, Tick, httpVars, vars
<1>4. CASE HttpBatchStep
  <2>1. Shaped' /\ Kept
    BY <1>1, <1>4, StepKeeps DEF HttpBatchStep
  <2>2. accounts' = accounts
    BY <1>4 DEF HttpBatchStep, ExpireStep, ExpirePost, ExpireAbort, ExpireMark, ExpireEnd, ledger
  <2>3. PICK c : c = Nobody
    OBVIOUS
  <2>4. c.role # "MEMBER" /\ Attributed(c) /\ authorised' = authorised
    BY <1>4, <2>3 DEF HttpBatchStep, Nobody
  <2>5. QED
    BY <2>1, <2>2, <2>4, OthersKeep
<1>5. CASE HttpPostAuthorised
  <2>1. PICK in, c : /\ in = authorised.in /\ c = authorised.caller
                     /\ PostTransaction(in) /\ Attributed(c)
    BY <1>5 DEF HttpPostAuthorised
  <2>2. authorised # Null /\ authorised' = Null
    BY <1>5 DEF HttpPostAuthorised
  <2>3. /\ c.role = "MEMBER" /\ in.actor = c.user
        /\ in.spend.amount \in Int /\ SpendsOwn(c, in)
    BY <2>1, <2>2 DEF HttpOK, AuthorisedOK
  <2>4. QED
    BY <2>1, <2>2, <2>3, MemberPosts
<1>6. ASSUME NEW c \in Callers, NEW in \in AccountInputs, NEW owner, HttpCreateAccount(c, in, owner)
      PROVE  HttpOK'
  <2>1. Shaped' /\ Kept
    BY <1>1, <1>6, StepKeeps DEF HttpCreateAccount
  <2>2. /\ transactions' = transactions /\ postedBy' = postedBy /\ authorised' = authorised
        /\ owners' = [a \in DOMAIN accounts' |-> IF a \in DOMAIN owners THEN owners[a] ELSE owner]
    BY <1>6 DEF HttpCreateAccount, CreateAccount, Answered, ledger, journal
  <2>3. OwnersKept
    BY <2>1, <2>2 DEF OwnersKept, Kept, HttpOK
  <2>4. QED
    BY <2>1, <2>2, <2>3, PastKept DEF HttpOK
<1>7. ASSUME NEW c \in Callers, NEW t, NEW tx, NEW actor, HttpReverse(c, t, tx, actor)
      PROVE  HttpOK'
  <2>1. Shaped' /\ Kept
    BY <1>1, <1>7, StepKeeps DEF HttpReverse
  <2>2. accounts' = accounts
    BY <1>7 DEF HttpReverse, ReverseTransaction, ReversalAccepted, Detail, Answered, ledger
  <2>3. QED
    BY <1>7, <2>1, <2>2, OthersKeep DEF HttpReverse
<1>8. ASSUME NEW c \in Callers, NEW t, NEW now, HttpExpire(c, t, now)
      PROVE  HttpOK'
  <2>1. UNCHANGED ledger /\ accounts' = accounts
    BY <1>8 DEF HttpExpire, ExpireBegin, Answered, ledger
  <2>2. QED
    BY <1>1, <1>8, <2>1, StepKeeps, OthersKeep DEF HttpExpire
<1>9. ASSUME NEW c \in Callers, NEW in \in PostInputs, NEW header, HttpPost(c, in, header)
      PROVE  HttpOK'
  <2>1. PICK asked : asked = WithHeader(in, header)
    OBVIOUS
  <2>2. PostTransaction(asked) /\ c.role # "MEMBER" /\ Attributed(c) /\ authorised' = authorised
    BY <1>9, <2>1 DEF HttpPost
  <2>3. Shaped' /\ Kept
    BY <1>1, <2>2, StepKeeps
  <2>4. accounts' = accounts
    BY <2>2 DEF PostTransaction, PostAccepted, Detail, Answered, ledger
  <2>5. QED
    BY <2>2, <2>3, <2>4, OthersKeep
<1>10. ASSUME NEW c \in Callers, NEW in \in PostInputs, NEW header, HttpAuthorise(c, in, header)
       PROVE  HttpOK'
  <2>1. PICK asked : asked = AsMember(c, WithHeader(in, header))
    OBVIOUS
  <2>2. /\ c.role = "MEMBER" /\ SpendsOwn(c, in)
        /\ authorised' = [caller |-> c, in |-> asked]
        /\ UNCHANGED <<vars, owners, postedBy>>
    BY <1>10, <2>1 DEF HttpAuthorise
  <2>3. asked.actor = c.user /\ asked.spend.amount \in Int /\ SpendsOwn(c, asked)
    BY <2>1, <2>2, AuthorisedIsOwn
  <2>4. SpendsOwn(c, asked)'
    BY <2>2, <2>3 DEF SpendsOwn, Owns, vars, ledger
  <2>5. authorised'.caller = c /\ authorised'.in = asked
    BY <2>2
  <2>6. AuthorisedOK'
    BY <2>2, <2>3, <2>4, <2>5 DEF AuthorisedOK, SpendsOwn, Owns
  <2>7. QED
    BY <1>2, <2>2, <2>6 DEF vars
<1>11. QED
  BY <1>3, <1>4, <1>5, <1>6, <1>7, <1>8, <1>9, <1>10 DEF HttpNext

\* A member's requests take points from his own USER accounts alone, and the
\* transaction and its audit name him, for any callers, headers and bodies, and
\* whatever runs between the check of a request and its posting.
THEOREM MembersAreConfined == HttpSpec => []MembersSpendTheirOwn
<1>1. HttpInit => HttpOK
  <2>1. Listed(<<>>)
    BY EmptySeq DEF Listed
  <2>2. QED
    BY <2>1 DEF HttpInit, Init, HttpOK, Shaped, AuthorisedOK
<1>2. HttpOK /\ [HttpNext]_httpVars => HttpOK'
  BY HttpStep
<1>3. HttpOK => MembersSpendTheirOwn
  BY DEF HttpOK, OwnPosting, MembersSpendTheirOwn
<1>4. QED
  BY <1>1, <1>2, <1>3, PTL DEF HttpSpec

=============================================================================
