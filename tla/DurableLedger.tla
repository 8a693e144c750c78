--------------------------- MODULE DurableLedger ----------------------------
(***************************************************************************)
(* The ledger, its store and its restarts (src/services/ledger-service.ts, *)
(* src/index.ts).  Ledger.tla says what an operation does; here the ledger *)
(* is the sequence of the operations it has gone through, because what can *)
(* go wrong is which of them a restart brings back.  An operation changes  *)
(* the ledger in memory, saves all of it and answers; when the save throws *)
(* the caller gets the error and memory stays as it is.  The mutex is held *)
(* until the save has ended.  Clients may send any key again at any time.  *)
(***************************************************************************)
EXTENDS Naturals, Sequences

CONSTANTS
    Null,
    Keys,       \* idempotency keys, each with its tenant and actor
    MaxOps      \* bound on the operations ever applied

VARIABLES
    up,         \* the process runs and has loaded its state
    memory,     \* the operations that made the ledger in memory
    index,      \* idempotencyToTxId
    call,       \* the operation whose save is awaited, or Null
    stored, saving, done,   \* the store, as in StateStore
    nextId,     \* uuidv4: an id that was never used
    answers,    \* <<key, id>> for every answer that reached a client
    confirmed   \* ids of the operations answered after their own save

\* An operation without key is an account, a reversal or an expiry batch.
Operation == [id : Nat, key : Keys \cup {Null}]

ASSUME DurableAssumption ==
    /\ Null \notin Keys
    /\ Null \notin Operation
    /\ Null \notin Seq(Operation)
    /\ MaxOps \in Nat

Store == INSTANCE StateStore WITH States <- Seq(Operation)

storeVars == <<stored, saving, done>>
vars == <<up, memory, index, call, storeVars, nextId, answers, confirmed>>

Loaded == IF stored = Null THEN <<>> ELSE stored

\* Faulty variant: importState leaves the index as the constructor made it.
NoIndex(ops) == <<>>

\* importState: the index of the transactions that carry a key.
RebuiltIndex(ops) ==
    [k \in {ops[i].key : i \in DOMAIN ops} \ {Null} |->
        ops[CHOOSE i \in DOMAIN ops : ops[i].key = k].id]

Init ==
    /\ up = FALSE
    /\ memory = <<>>
    /\ index = <<>>
    /\ call = Null
    /\ Store!Init
    /\ nextId = 1
    /\ answers = {}
    /\ confirmed = {}

\* Faulty variant: the server listens without loading.
StartEmpty ==
    /\ ~ up
    /\ up' = TRUE
    /\ memory' = <<>>
    /\ index' = <<>>
    /\ UNCHANGED <<call, storeVars, nextId, answers, confirmed>>

\* await service.loadState(), before the server listens.
Start ==
    /\ ~ up
    /\ up' = TRUE
    /\ memory' = Loaded
    /\ index' = RebuiltIndex(Loaded)
    /\ UNCHANGED <<call, storeVars, nextId, answers, confirmed>>

Idle == up /\ call = Null

Indexed(op) ==
    [k \in DOMAIN index \cup ({op.key} \ {Null}) |-> IF k = op.key THEN op.id ELSE index[k]]

\* The idempotency key is known: the transaction is answered from memory, and
\* nothing is saved.
Resend(key) ==
    /\ Idle
    /\ key \in DOMAIN index
    /\ answers' = answers \cup {<<key, index[key]>>}
    /\ UNCHANGED <<up, memory, index, call, storeVars, nextId, confirmed>>

\* A mutation that succeeds changes memory and begins its save.
Apply(key) ==
    /\ Idle
    /\ nextId <= MaxOps
    /\ key \notin DOMAIN index
    /\ LET op == [id |-> nextId, key |-> key]
       IN  /\ memory' = Append(memory, op)
           /\ index' = Indexed(op)
           /\ call' = op
    /\ Store!Save(memory')
    /\ nextId' = nextId + 1
    /\ UNCHANGED <<up, answers, confirmed>>

\* An expiry batch that throws after it has swept some lots: memory has changed,
\* nothing is saved.
AbortedBatch ==
    /\ Idle
    /\ nextId <= MaxOps
    /\ memory' = Append(memory, [id |-> nextId, key |-> Null])
    /\ nextId' = nextId + 1
    /\ UNCHANGED <<up, index, call, storeVars, answers, confirmed>>

Replace ==
    /\ Store!Replace
    /\ UNCHANGED <<up, memory, index, call, nextId, answers, confirmed>>

\* Faulty variant: the answer does not wait for the save.
AnswerUnsaved ==
    /\ call # Null
    /\ Store!ReturnAtOnce
    /\ call' = Null
    /\ answers' = IF call.key = Null THEN answers ELSE answers \cup {<<call.key, call.id>>}
    /\ confirmed' = confirmed \cup {call.id}
    /\ UNCHANGED <<up, memory, index, nextId>>

\* The save returns, and the operation is answered.
Saved ==
    /\ call # Null
    /\ Store!Return
    /\ call' = Null
    /\ answers' = IF call.key = Null THEN answers ELSE answers \cup {<<call.key, call.id>>}
    /\ confirmed' = confirmed \cup {call.id}
    /\ UNCHANGED <<up, memory, index, nextId>>

\* The save throws: the call fails, memory and index keep the operation.
SaveFailed ==
    /\ call # Null
    /\ Store!Fail
    /\ call' = Null
    /\ UNCHANGED <<up, memory, index, nextId, answers, confirmed>>

Crash ==
    /\ up
    /\ up' = FALSE
    /\ memory' = <<>>
    /\ index' = <<>>
    /\ call' = Null
    /\ (saving = Null /\ UNCHANGED storeVars) \/ Store!Fail
    /\ UNCHANGED <<nextId, answers, confirmed>>

Next ==
    \/ Start
    \/ \E key \in Keys : Resend(key)
    \/ \E key \in Keys \cup {Null} : Apply(key)
    \/ AbortedBatch
    \/ Replace
    \/ Saved
    \/ SaveFailed
    \/ Crash

Spec == Init /\ [][Next]_vars

-----------------------------------------------------------------------------
IsStartOf(s, t) == Len(s) <= Len(t) /\ \A i \in DOMAIN s : s[i] = t[i]

\* A restart at any moment would bring back a ledger that this process has had:
\* whatever saves fail and wherever the process dies, the store holds a
\* beginning of what memory went through, so that a later save never undoes it.
StoreIsPast == up => IsStartOf(Loaded, memory)

\* An idempotency key posts at most once in the history of a ledger, through
\* resends after lost answers, failed saves and restarts in any order.
PostedOnce ==
    \A ops \in {memory, Loaded} :
        \A i, j \in DOMAIN ops : i # j /\ ops[i].key = ops[j].key => ops[i].key = Null

\* What was answered after its own save survives every later failed save and
\* every crash.
ConfirmedSurvives == \A id \in confirmed : \E i \in DOMAIN Loaded : Loaded[i].id = id

\* docs/specs/ISSUE1-TRACEABILITY-MATRIX.md, LG-TX-004: "idempotency resend
\* returns same result".
ResendReturnsSame == \A a, b \in answers : a[1] = b[1] => a[2] = b[2]
=============================================================================
