------------------------------- MODULE HttpApi -------------------------------
(***************************************************************************)
(* The requests of the HTTP API that change the ledger (src/http/app.ts),  *)
(* with the roles its headers name.  Of these handlers only the posting of *)
(* a MEMBER awaits something before it calls the service: the account it   *)
(* spends from.  Other requests run in between, and `authorised` is the    *)
(* posting that has passed the check and waits for the ledger's mutex.  A  *)
(* request that is refused before the service is called changes nothing,   *)
(* and is no step.                                                         *)
(***************************************************************************)
EXTENDS LedgerProperties

CONSTANTS
    Callers,    \* what readRole makes of the headers: [role, user]
    Owners,     \* the ownerIds that accounts of a type may have
    Headers     \* Idempotency-Key, trimmed, or Null

ASSUME CallersAssumption ==
    \A c \in Callers : /\ c.role \in {"ADMIN", "MEMBER", "VIEWER"}
                       /\ c.user = Null => c.role = "ADMIN"

VARIABLES
    owners,         \* ownerId of each account
    authorised,     \* [caller, in] of a MEMBER that may spend, or Null
    postedBy        \* history: who asked for each transaction

httpVars == <<vars, owners, authorised, postedBy>>

Nobody == [role |-> "BATCH", user |-> Null]

HttpInit == Init /\ owners = <<>> /\ authorised = Null /\ postedBy = <<>>

\* A step of the service for caller c: whatever transaction it posts is c's.
Attributed(c) ==
    /\ postedBy' = [tx \in DOMAIN transactions' |->
                        IF tx \in DOMAIN postedBy THEN postedBy[tx] ELSE c]
    /\ UNCHANGED owners

(***************************************************************************)
(* POST /accounts, /transactions/:txId/reverse and /batch/expire           *)
(***************************************************************************)
HttpCreateAccount(c, in, owner) ==
    /\ c.role = "ADMIN"
    /\ CreateAccount(in)
    /\ owners' = [a \in DOMAIN accounts' |-> IF a \in DOMAIN owners THEN owners[a] ELSE owner]
    /\ UNCHANGED <<authorised, postedBy>>

HttpReverse(c, tenant, tx, actor) ==
    /\ c.role = "ADMIN"
    /\ ReverseTransaction(tenant, tx, actor)
    /\ Attributed(c)
    /\ UNCHANGED authorised

HttpExpire(c, tenant, now) ==
    /\ c.role = "ADMIN"
    /\ ExpireBegin(tenant, now)
    /\ Attributed(c)
    /\ UNCHANGED authorised

(***************************************************************************)
(* POST /transactions                                                      *)
(***************************************************************************)
HeaderKey(header) == [text |-> header, padded |-> FALSE]

\* postTransactionSchema
WellFormed(in) == in.spend # Null => in.spend.amount > 0

\* The header is trimmed, the key of the body is compared as it came.
KeysAgree(in, header) == header = Null \/ in.key = Null \/ in.key = HeaderKey(header)

WithHeader(in, header) == IF header = Null THEN in ELSE [in EXCEPT !.key = HeaderKey(header)]

\* body.createdByUserId = auth.userId
AsMember(c, in) == [in EXCEPT !.actor = c.user]

\* Faulty variant: that the account exists is enough.
SpendsExisting(c, in) ==
    in.txType = "SPEND" /\ in.spend # Null /\ Owns(in.tenant, in.spend.account)

SpendsOwn(c, in) ==
    /\ in.txType = "SPEND"
    /\ in.spend # Null
    /\ Owns(in.tenant, in.spend.account)
    /\ accounts[in.spend.account].ownerType = "USER"
    /\ owners[in.spend.account] = c.user

HttpPost(c, in, header) ==
    /\ WellFormed(in) /\ KeysAgree(in, header)
    /\ c.role = "ADMIN"
    /\ PostTransaction(WithHeader(in, header))
    /\ Attributed(c)
    /\ UNCHANGED authorised

\* getAccount has answered with an account of the member.
HttpAuthorise(c, in, header) ==
    /\ WellFormed(in) /\ KeysAgree(in, header)
    /\ c.role = "MEMBER"
    /\ SpendsOwn(c, in)
    /\ authorised = Null    \* bound: one member at a time is between the two
    /\ authorised' = [caller |-> c, in |-> AsMember(c, WithHeader(in, header))]
    /\ UNCHANGED <<vars, owners, postedBy>>

\* (PostTransaction primes expressions with its argument: bound, it is a value.)
HttpPostAuthorised ==
    /\ authorised # Null
    /\ \E in \in {authorised.in} : PostTransaction(in)
    /\ Attributed(authorised.caller)
    /\ authorised' = Null

\* What a batch posts belongs to no caller.
HttpBatchStep ==
    /\ ExpireStep
    /\ Attributed(Nobody)
    /\ UNCHANGED authorised

HttpTick == Tick /\ UNCHANGED <<owners, authorised, postedBy>>

HttpNext ==
    \/ HttpTick
    \/ HttpBatchStep
    \/ HttpPostAuthorised
    \/ \E c \in Callers, in \in AccountInputs :
          \E owner \in Owners[in.ownerType] : HttpCreateAccount(c, in, owner)
    \/ \E c \in Callers, t \in Tenants, tx \in 1 .. Len(transactions) + 1, actor \in Actors \cup {Null} :
          HttpReverse(c, t, tx, actor)
    \/ \E c \in Callers, t \in Tenants, now \in Times : HttpExpire(c, t, now)
    \/ \E c \in Callers, in \in PostInputs, header \in Headers :
          HttpPost(c, in, header) \/ HttpAuthorise(c, in, header)

HttpSpec == HttpInit /\ [][HttpNext]_httpVars

(***************************************************************************)
(* Properties                                                              *)
(***************************************************************************)
\* Whatever happens between the check of a member's request and its posting,
\* and whatever the body says of itself: a member's requests take points from
\* his own USER accounts alone, and the transaction and its audit name him.
MembersSpendTheirOwn ==
    \A tx \in DOMAIN postedBy :
        LET c == postedBy[tx] IN
        c.role = "MEMBER" =>
            /\ transactions[tx].actor = c.user
            /\ \E i \in DOMAIN auditLogs : auditLogs[i].tx = tx /\ auditLogs[i].actor = c.user
            /\ \A i \in DOMAIN entriesByTxId[tx] :
                  entriesByTxId[tx][i].amount < 0 =>
                      /\ accounts[entriesByTxId[tx][i].account].ownerType = "USER"
                      /\ owners[entriesByTxId[tx][i].account] = c.user
=============================================================================
