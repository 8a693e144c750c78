------------------------------ MODULE MCHttpApi ------------------------------
(***************************************************************************)
(* A small instance of the ledger behind its HTTP API for TLC.             *)
(***************************************************************************)
EXTENDS HttpApi

\* Two tenants whose ids, user ids and keys meet at the ':' of the index key:
\* "a" + "b:c" + "k" and "a:b" + "c" + "k" are one key, and so are the absent
\* actor and a user called "system".
A  == <<"a">>
AB == <<"a", "b">>
K  == <<"k">>
U  == <<"b", "c">>
V  == <<"c">>

BothTenants == {A, AB}
BothUsers   == {U, V}
OneKey      == {K}
ApiHeaders  == {Null, K}
ApiCallers  == { [role |-> "ADMIN", user |-> Null], [role |-> "MEMBER", user |-> U],
                 [role |-> "VIEWER", user |-> U] }

Opening(t, type, status) == [tenant |-> t, ownerType |-> type, status |-> status, allowNegative |-> Null]

ApiAccounts ==
    { Opening(A, "SYSTEM", Null), [Opening(A, "USER", Null) EXCEPT !.allowNegative = TRUE],
      Opening(AB, "SYSTEM", "SUSPENDED") }

\* A SYSTEM account may bear the id of a member.
ApiOwners == [type \in OwnerTypes |-> IF type = "SYSTEM" THEN {U} ELSE BothUsers]

Moved(a, n, exp) == [account |-> a, amount |-> n, expiresAt |-> exp]

Movement(t, type, actor, key, entries) ==
    [tenant |-> t, txType |-> type, actor |-> actor, key |-> key,
     entries |-> entries, spend |-> Null, counter |-> Null]

Spend(t, actor, key, from, n, to) ==
    [tenant |-> t, txType |-> "SPEND", actor |-> actor, key |-> key, entries |-> <<>>,
     spend |-> [account |-> from, amount |-> n], counter |-> to]

Raw(text, padded) == [text |-> text, padded |-> padded]

\* Points for either user, movements whose keys collide across the tenants, a
\* padded, a blank and no key, and spends of either user, one in the name of
\* another.
ApiPosts ==
    { Movement(A, "EARN", Null, Null, << Moved(2, 1, 1), Moved(3, 1, 1), Moved(1, -2, Null) >>),
      Movement(A, "ADJUST", U, Raw(K, FALSE), << Moved(1, 1, Null), Moved(2, -1, Null) >>),
      Movement(AB, "ADJUST", V, Raw(K, FALSE), << Moved(1, 1, Null), Moved(2, -1, Null) >>),
      Movement(AB, "ADJUST", Null, Raw(<<>>, TRUE), << Moved(1, 1, Null), Moved(2, -1, Null) >>),
      Spend(A, V, Null, 2, 1, 1),
      Spend(A, Null, Raw(K, TRUE), 3, 1, 1),
      Spend(A, Null, Null, 3, 0, 1),
      [Spend(A, Null, Null, 2, 1, 1) EXCEPT !.spend = Null] }
=============================================================================
