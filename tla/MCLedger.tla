------------------------------ MODULE MCLedger ------------------------------
(***************************************************************************)
(* Small instances of the ledger for TLC.                                  *)
(***************************************************************************)
EXTENDS DisciplinedLedger, LedgerRestart, JournalledLedger

Grant(a, n, exp) == [account |-> a, amount |-> n, expiresAt |-> exp]

Move(a, n) == Grant(a, n, Null)

Movement(t, type, entries) ==
    [tenant |-> t, txType |-> type, actor |-> Null, key |-> Null,
     entries |-> entries, spend |-> Null, counter |-> Null]

Spend(t, from, n, to) ==
    [tenant |-> t, txType |-> "SPEND", actor |-> Null, key |-> Null, entries |-> <<>>,
     spend |-> [account |-> from, amount |-> n], counter |-> to]

Opening(t, type) == [tenant |-> t, ownerType |-> type, status |-> Null, allowNegative |-> Null]

T == <<"t">>

-----------------------------------------------------------------------------
\* One tenant, its SYSTEM account 1 and USER accounts 2 and 3.
LotTenants == {T}
UserAccounts == {Opening(T, "SYSTEM"), Opening(T, "USER")}
\* A user may be allowed to go negative: then only the lots themselves refuse
\* the reversal of an EARN that was used.
AnyAccounts == UserAccounts \cup {[Opening(T, "USER") EXCEPT !.allowNegative = TRUE]}

\* Lots, and movements they do not follow: an ADJUST that names an account
\* twice and grants a lot, a debit behind the lots' back, points without expiry,
\* a transfer to the account itself, entries that do not balance,
\* and a single entry of nothing.
JournalPosts ==
    { Movement(T, "EARN", << Grant(2, 2, 1), Move(1, -2) >>),
      Movement(T, "ADJUST", << Move(2, -2), Grant(2, 1, 1), Move(1, 1) >>),
      Movement(T, "ADJUST", << Move(2, -1), Move(1, 1) >>),
      Movement(T, "EARN", << Move(2, 1), Move(1, -1) >>),
      Movement(T, "EARN", << Move(2, 1) >>),
      Movement(T, "ADJUST", << Move(2, 0) >>),
      Spend(T, 2, 2, 1),
      Spend(T, 2, 1, 2) }

\* Lots of two users granted by one EARN, one that expires sooner by another,
\* and a spend that uses that one up and leaves the first half used; the ADJUST
\* and the spend to a user are what Disciplined refuses.
LotPosts ==
    { Movement(T, "EARN", << Grant(2, 2, 2), Grant(3, 1, 1), Move(1, -3) >>),
      Movement(T, "EARN", << Grant(2, 1, 1), Move(1, -1) >>),
      Movement(T, "ADJUST", << Move(2, -1), Move(1, 1) >>),
      Spend(T, 2, 2, 1),
      Spend(T, 2, 1, 3) }
=============================================================================
