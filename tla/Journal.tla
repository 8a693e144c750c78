------------------------------- MODULE Journal -------------------------------
(***************************************************************************)
(* A double-entry ledger, as callers think of LedgerService                *)
(* (src/services/ledger-service.ts): a book of movements that only grows,  *)
(* each of them balanced and within one tenant, and the balances they      *)
(* leave.  Lots, keys, reversals and batches are no part of it.            *)
(***************************************************************************)
EXTENDS Integers, Sequences, Functions

CONSTANT Tenants

VARIABLES
    holders,    \* account -> [tenant, allowNegative]
    book,       \* the movements posted: sequences of [account, amount]
    balances    \* account -> what they leave it

bookVars == <<holders, book, balances>>

Init == holders = <<>> /\ book = <<>> /\ balances = <<>>

Sum(movement, lines) ==
    SumFunctionOnSet([i \in DOMAIN movement |-> movement[i].amount], lines)

Lines(movement, a) == {i \in DOMAIN movement : movement[i].account = a}

Open(tenant, allowNegative) ==
    /\ holders' = Append(holders, [tenant |-> tenant, allowNegative |-> allowNegative])
    /\ balances' = Append(balances, 0)
    /\ UNCHANGED book

Post(tenant, movement) ==
    /\ Sum(movement, DOMAIN movement) = 0
    /\ \A i \in DOMAIN movement :
          /\ movement[i].account \in DOMAIN holders
          /\ holders[movement[i].account].tenant = tenant
    /\ balances' = [a \in DOMAIN balances |-> balances[a] + Sum(movement, Lines(movement, a))]
    /\ \A i \in DOMAIN movement :
          LET a == movement[i].account IN holders[a].allowNegative \/ balances'[a] >= 0
    /\ UNCHANGED holders

\* One movement more, whichever it is.
Extended == Len(book') = Len(book) + 1 /\ SubSeq(book', 1, Len(book)) = book

Next ==
    \/ \E tenant \in Tenants, allowNegative \in BOOLEAN : Open(tenant, allowNegative)
    \/ Extended /\ \E tenant \in Tenants : Post(tenant, book'[Len(book')])

Spec == Init /\ [][Next]_bookVars
=============================================================================
