------------------------------ MODULE MCReadApi ------------------------------
(***************************************************************************)
(* Small instances of the paged reads for TLC.                             *)
(***************************************************************************)
EXTENDS ReadApi

Name == <<"u">>
UserNames == {Name}
Address == <<"i">>
Shared == <<"j">>
TenantName == <<"t">>

\* Clients that page through either list, in either order, and whom no limit
\* turns away.
Member == [role |-> "MEMBER", user |-> Name, ip |-> Address, scope |-> "transactions",
           size |-> 1, order |-> "asc", stop |-> "short"]
Auditor == [Member EXCEPT !.role = "ADMIN", !.user = Null, !.scope = "audit-logs", !.stop = "total"]
BigPages == [Auditor EXCEPT !.order = "desc", !.size = 4]

Pagers ==
    {Member, [Member EXCEPT !.order = "desc"],
     Auditor, BigPages, [BigPages EXCEPT !.stop = "short", !.size = 2]}

\* Clients that share a bucket and bring different limits, and one beside them.
Viewer == [Member EXCEPT !.role = "VIEWER", !.ip = Shared, !.size = 2]
Admin == [Viewer EXCEPT !.role = "ADMIN", !.user = Null]
Sharers == {Viewer, Admin, BigPages}

Clients == Pagers \cup Sharers

RoleLimits == [role \in {"VIEWER", "MEMBER"} |-> IF role = "VIEWER" THEN 1 ELSE 9]
ScopeLimits == [scope \in {"transactions"} |-> 2]

\* Constraints for TLC: one client reads while records are added, or those
\* who share a bucket meet over a list that is full while time goes on.
Reading == {r \in Readers : readers[r].pc # "idle"}

OneReads ==
    /\ Cardinality(Reading) <= 1
    /\ clock <= 1
    /\ expiring \in {Null, 0, 1}

Full == [i \in 1 .. LogBound |-> [at |-> 0, users |-> {}, lists |-> {"transactions", "audit-logs"}]]

OneReadsOrSharersMeet ==
    \/ OneReads
    \/ Reading \subseteq Sharers /\ log = Full
=============================================================================
