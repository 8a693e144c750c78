------------------------- MODULE DisciplinedLedger --------------------------
(***************************************************************************)
(* The ledger under the calls its documents have in mind, where points and *)
(* lots go together: points reach a user by an EARN with an expiry, leave  *)
(* by a SPEND to the SYSTEM account or by the expiry batch, and only EARN  *)
(* and SPEND are reversed.  The code does not enforce this discipline; the *)
(* promises below are what it delivers to callers that keep it.            *)
(***************************************************************************)
EXTENDS LedgerProperties

IsUser(a) == a \in DOMAIN accounts /\ accounts[a].ownerType = "USER"

\* Every entry of a user account grants a lot.
EarnsAsLots(in) ==
    \A i \in DOMAIN in.entries :
        IsUser(in.entries[i].account) => in.entries[i].amount > 0 /\ in.entries[i].expiresAt # Null

Disciplined(in) ==
    \/ in.txType = "EARN" /\ EarnsAsLots(in)
    \/ in.txType = "SPEND" /\ in.counter # Null /\ ~ IsUser(in.counter)

Reversible(src) == src \in DOMAIN transactions => transactions[src].txType \in {"EARN", "SPEND"}

DisciplinedNext ==
    \/ Tick
    \/ \E in \in AccountInputs : CreateAccount(in)
    \/ \E in \in PostInputs : Disciplined(in) /\ PostTransaction(in)
    \/ \E t \in Tenants, src \in 1 .. Len(transactions) + 1, actor \in Actors \cup {Null} :
          Reversible(src) /\ ReverseTransaction(t, src, actor)
    \/ \E t \in Tenants, now \in Times : ExpireBegin(t, now)
    \/ ExpireStep

DisciplinedSpec == Init /\ [][DisciplinedNext]_vars /\ WF_vars(ExpireStep)

\* What the running batch has taken from the balance of account a but not yet
\* from the lot.
InFlight(a) ==
    IF batch = Null THEN 0
    ELSE IF batch.posted = Null THEN 0
    ELSE IF lots[batch.posted.lot].account = a THEN batch.posted.amount ELSE 0

\* LG-INV-005, sum(active lot remaining) = user balance, at every moment and
\* through any order of earning, spending, reversing and expiring: the points
\* of a sweep in flight are the only ones lots and balances disagree on.
LotsBackBalances ==
    \A a \in DOMAIN accounts :
        IsUser(a) =>
            Remaining({l \in DOMAIN lots : lots[l].account = a /\ lots[l].status = "ACTIVE"})
                = balances[a] + InFlight(a)

\* A batch is never refused for want of balance, so that it never stops with
\* some of its lots swept and the others not.
BatchNeverFails ==
    [][(batch # Null /\ batch' = Null) => reply'.code = "OK"]_vars
=============================================================================
