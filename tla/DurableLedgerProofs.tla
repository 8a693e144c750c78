------------------------ MODULE DurableLedgerProofs ------------------------
(***************************************************************************)
(* What a restart brings back, for any set of keys and any number of       *)
(* operations.                                                             *)
(***************************************************************************)
EXTENDS DurableLedger, SequenceTheorems, TLAPS

-----------------------------------------------------------------------------
(* The inductive invariant.                                                *)

StoreTyped ==
    /\ up \in BOOLEAN
    /\ memory \in Seq(Operation)
    /\ call \in Operation \cup {Null}
    /\ stored \in Seq(Operation) \cup {Null}
    /\ saving \in Seq(Operation) \cup {Null}
    /\ done \in BOOLEAN
    /\ nextId \in Nat

\* The call that waits is the last operation of memory, and what it saves is
\* all of memory; nothing else saves.
SavesMemory ==
    /\ call = Null <=> saving = Null
    /\ call # Null => /\ up
                      /\ saving = memory
                      /\ memory # <<>>
                      /\ memory[Len(memory)] = call
    /\ done => saving # Null /\ stored = saving

\* A process that is down has nothing in memory.
DownIsEmpty == ~ up => memory = <<>> /\ call = Null

\* The index knows every key of memory.
IndexCovers == up => \A i \in DOMAIN memory : memory[i].key \in DOMAIN index \cup {Null}

\* No two operations of ops have the same key.
KeysOnce(ops) == \A i, j \in DOMAIN ops : i # j /\ ops[i].key = ops[j].key => ops[i].key = Null

DurableOK ==
    /\ StoreTyped
    /\ SavesMemory
    /\ DownIsEmpty
    /\ IndexCovers
    /\ KeysOnce(memory) /\ KeysOnce(Loaded)
    /\ StoreIsPast
    /\ ConfirmedSurvives

-----------------------------------------------------------------------------
(* Operations in memory and in the store.                                  *)

\* What is loaded is a sequence of operations, also before the first save.
LEMMA LoadedType ==
  ASSUME StoreTyped
  PROVE  Loaded \in Seq(Operation)
BY EmptySeq DEF StoreTyped, Loaded

\* An appended operation leaves the others where they are.
LEMMA Appended ==
  ASSUME NEW ops \in Seq(Operation), NEW op \in Operation
  PROVE  LET all == Append(ops, op)
         IN  /\ all \in Seq(Operation) /\ all # <<>>
             /\ Len(ops) \in Nat /\ Len(all) = Len(ops) + 1
             /\ DOMAIN ops = 1 .. Len(ops) /\ DOMAIN all = DOMAIN ops \cup {Len(all)}
             /\ \A i \in DOMAIN ops : all[i] = ops[i]
             /\ all[Len(all)] = op
<1> DEFINE all == Append(ops, op)
<1>1. /\ all \in Seq(Operation) /\ all # <<>> /\ Len(all) = Len(ops) + 1
      /\ \A i \in 1 .. Len(ops) : all[i] = ops[i]
      /\ all[Len(ops) + 1] = op
  BY AppendProperties
<1> HIDE DEF all
<1>2. /\ Len(ops) \in Nat /\ DOMAIN ops = 1 .. Len(ops)
      /\ DOMAIN all = 1 .. Len(all)
  BY <1>1, LenProperties
<1>3. DOMAIN all = DOMAIN ops \cup {Len(all)}
  BY <1>1, <1>2
<1>4. QED
  BY <1>1, <1>2, <1>3 DEF all

\* A sequence starts itself.
LEMMA StartsItself ==
  ASSUME NEW ops \in Seq(Operation)
  PROVE  IsStartOf(ops, ops)
BY LenProperties DEF IsStartOf

\* A beginning of a sequence is still one when the sequence grows.
LEMMA StartsLonger ==
  ASSUME NEW s \in Seq(Operation), NEW ops \in Seq(Operation), NEW op \in Operation,
         IsStartOf(s, ops)
  PROVE  IsStartOf(s, Append(ops, op))
<1>1. DOMAIN s = 1 .. Len(s) /\ Len(s) \in Nat
  BY LenProperties
<1>2. QED
  BY <1>1, Appended DEF IsStartOf

\* Keys stay unique when an operation comes with a new key or with none.
LEMMA NewKeyOnce ==
  ASSUME NEW ops \in Seq(Operation), NEW op \in Operation, KeysOnce(ops),
         op.key = Null \/ \A i \in DOMAIN ops : ops[i].key # op.key
  PROVE  KeysOnce(Append(ops, op))
BY Appended DEF KeysOnce

\* What an up process has not yet stored keeps its store as it is.
LEMMA GrownMemory ==
  ASSUME DurableOK, up, NEW op \in Operation, memory' = Append(memory, op),
         up' = up, stored' = stored, confirmed' = confirmed,
         op.key = Null \/ op.key \notin DOMAIN index,
         DOMAIN index' = DOMAIN index \cup ({op.key} \ {Null})
  PROVE  /\ IndexCovers' /\ DownIsEmpty' /\ KeysOnce(memory)' /\ KeysOnce(Loaded)'
         /\ StoreIsPast' /\ ConfirmedSurvives'
<1>1. memory \in Seq(Operation) /\ Loaded \in Seq(Operation) /\ Loaded' = Loaded
  BY LoadedType DEF DurableOK, StoreTyped, Loaded
<1>2. \A i \in DOMAIN memory : memory[i].key \in DOMAIN index \cup {Null}
  BY DEF DurableOK, IndexCovers
<1>3. IndexCovers'
  BY <1>1, <1>2, Appended DEF IndexCovers
<1>4. KeysOnce(memory')
  BY <1>1, <1>2, NewKeyOnce DEF DurableOK
<1>5. StoreIsPast'
  BY <1>1, StartsLonger DEF DurableOK, StoreIsPast
<1>6. KeysOnce(Loaded)' /\ ConfirmedSurvives' /\ DownIsEmpty'
  BY <1>1 DEF DurableOK, KeysOnce, ConfirmedSurvives, DownIsEmpty
<1>7. QED
  BY <1>3, <1>4, <1>5, <1>6

-----------------------------------------------------------------------------
(* The steps.                                                              *)

LEMMA StartStep ==
  ASSUME DurableOK, Start
  PROVE  DurableOK'
<1>1. /\ Loaded \in Seq(Operation) /\ Loaded' = Loaded /\ memory' = Loaded
      /\ up' = TRUE /\ index' = RebuiltIndex(Loaded)
      /\ UNCHANGED <<call, stored, saving, done, nextId, answers, confirmed>>
  BY LoadedType DEF DurableOK, Start, storeVars, Loaded
<1>2. call = Null /\ call' = Null /\ saving' = Null
  BY <1>1 DEF DurableOK, Start, DownIsEmpty, SavesMemory
<1>3. StoreTyped' /\ SavesMemory' /\ DownIsEmpty'
  BY <1>1, <1>2 DEF DurableOK, StoreTyped, SavesMemory, DownIsEmpty
<1>4. IndexCovers'
  BY <1>1 DEF IndexCovers, RebuiltIndex
<1>5. StoreIsPast'
  BY <1>1, StartsItself DEF StoreIsPast
<1>6. KeysOnce(memory)' /\ KeysOnce(Loaded)' /\ ConfirmedSurvives'
  BY <1>1 DEF DurableOK, KeysOnce, ConfirmedSurvives
<1>7. QED
  BY <1>3, <1>4, <1>5, <1>6 DEF DurableOK

LEMMA ApplyStep ==
  ASSUME DurableOK, NEW key \in Keys \cup {Null}, Apply(key)
  PROVE  DurableOK'
<1> DEFINE op == [id |-> nextId, key |-> key]
<1>1. /\ up /\ call = Null /\ saving = Null /\ ~ done
      /\ memory \in Seq(Operation) /\ nextId \in Nat
      /\ key \notin DOMAIN index
  BY DEF DurableOK, StoreTyped, SavesMemory, Apply, Idle
<1>2. op \in Operation /\ op # Null /\ op.key = key
  BY <1>1, DurableAssumption DEF Operation
<1>3. /\ memory' = Append(memory, op) /\ call' = op /\ saving' = memory'
      /\ index' = Indexed(op) /\ nextId' = nextId + 1
      /\ UNCHANGED <<up, stored, done, answers, confirmed>>
  BY DEF Apply, Store!Save
<1>4. DOMAIN index' = DOMAIN index \cup ({op.key} \ {Null})
  BY <1>3 DEF Indexed
<1> HIDE DEF op
<1>5. /\ memory' \in Seq(Operation) /\ memory' # <<>> /\ memory'[Len(memory')] = op
  BY <1>1, <1>2, <1>3, Appended
<1>6. StoreTyped'
  BY <1>1, <1>2, <1>3, <1>5 DEF DurableOK, StoreTyped
<1>7. SavesMemory'
  BY <1>1, <1>2, <1>3, <1>5, DurableAssumption DEF SavesMemory
<1>8. IndexCovers' /\ DownIsEmpty' /\ KeysOnce(memory)' /\ KeysOnce(Loaded)' /\ StoreIsPast' /\ ConfirmedSurvives'
  BY <1>1, <1>2, <1>3, <1>4, GrownMemory
<1>9. QED
  BY <1>6, <1>7, <1>8 DEF DurableOK

LEMMA AbortedBatchStep ==
  ASSUME DurableOK, AbortedBatch
  PROVE  DurableOK'
<1> DEFINE op == [id |-> nextId, key |-> Null]
<1>1. /\ up /\ call = Null /\ saving = Null /\ ~ done
      /\ memory \in Seq(Operation) /\ nextId \in Nat
  BY DEF DurableOK, StoreTyped, SavesMemory, AbortedBatch, Idle
<1>2. op \in Operation /\ op.key = Null
  BY <1>1 DEF Operation
<1>3. /\ memory' = Append(memory, op) /\ nextId' = nextId + 1
      /\ UNCHANGED <<up, index, call, stored, saving, done, answers, confirmed>>
  BY DEF AbortedBatch, storeVars
<1> HIDE DEF op
<1>4. memory' \in Seq(Operation)
  BY <1>1, <1>2, <1>3, Appended
<1>5. StoreTyped' /\ SavesMemory'
  BY <1>1, <1>3, <1>4 DEF DurableOK, StoreTyped, SavesMemory
<1>6. DOMAIN index' = DOMAIN index \cup ({op.key} \ {Null})
  BY <1>2, <1>3
<1>7. IndexCovers' /\ DownIsEmpty' /\ KeysOnce(memory)' /\ KeysOnce(Loaded)' /\ StoreIsPast' /\ ConfirmedSurvives'
  BY <1>1, <1>2, <1>3, <1>6, GrownMemory
<1>8. QED
  BY <1>5, <1>7 DEF DurableOK

\* The store becomes what memory is.
LEMMA ReplaceStep ==
  ASSUME DurableOK, Replace
  PROVE  DurableOK'
<1>1. /\ saving # Null /\ stored' = saving /\ done' = TRUE
      /\ UNCHANGED <<saving, up, memory, index, call, nextId, answers, confirmed>>
  BY DEF Replace, Store!Replace
<1>2. up /\ saving = memory /\ call # Null
  BY <1>1 DEF DurableOK, SavesMemory
<1>3. memory \in Seq(Operation) /\ Loaded \in Seq(Operation) /\ Loaded' = memory
  BY <1>1, <1>2, LoadedType DEF DurableOK, StoreTyped, Loaded
<1>4. StoreTyped' /\ SavesMemory' /\ DownIsEmpty' /\ IndexCovers'
  BY <1>1, <1>2 DEF DurableOK, StoreTyped, SavesMemory, DownIsEmpty, IndexCovers
<1>5. KeysOnce(memory)' /\ KeysOnce(Loaded)'
  BY <1>1, <1>3 DEF DurableOK, KeysOnce
<1>6. StoreIsPast'
  BY <1>1, <1>3, StartsItself DEF StoreIsPast
<1>7. ConfirmedSurvives'
  <2>1. IsStartOf(Loaded, memory)
    BY <1>2 DEF DurableOK, StoreIsPast
  <2>2. \A i \in DOMAIN Loaded : i \in DOMAIN memory /\ memory[i] = Loaded[i]
    BY <1>3, <2>1, LenProperties DEF IsStartOf
  <2>3. QED
    BY <1>1, <1>3, <2>2 DEF DurableOK, ConfirmedSurvives
<1>8. QED
  BY <1>4, <1>5, <1>6, <1>7 DEF DurableOK

\* What a save that ended leaves: the store as it was.
LEMMA EndedSave ==
  ASSUME DurableOK, saving' = Null, done' = FALSE, call' = Null,
         UNCHANGED <<stored, up, memory, index, nextId>>, ConfirmedSurvives'
  PROVE  DurableOK'
<1>1. StoreTyped' /\ SavesMemory' /\ DownIsEmpty' /\ IndexCovers'
  BY DEF DurableOK, StoreTyped, SavesMemory, DownIsEmpty, IndexCovers
<1>2. KeysOnce(memory)' /\ KeysOnce(Loaded)' /\ StoreIsPast'
  BY DEF DurableOK, KeysOnce, StoreIsPast, Loaded
<1>3. QED
  BY <1>1, <1>2 DEF DurableOK

LEMMA SavedStep ==
  ASSUME DurableOK, Saved
  PROVE  DurableOK'
<1>1. /\ call # Null /\ done /\ saving' = Null /\ done' = FALSE /\ call' = Null
      /\ confirmed' = confirmed \cup {call.id}
      /\ UNCHANGED <<stored, up, memory, index, nextId>>
  BY DEF Saved, Store!Return, Store!End
<1>2. stored = memory /\ memory # <<>> /\ memory[Len(memory)] = call
  BY <1>1 DEF DurableOK, SavesMemory
<1>3. memory \in Seq(Operation) /\ Loaded = memory /\ Loaded' = memory
  BY <1>1, <1>2, DurableAssumption DEF DurableOK, StoreTyped, Loaded
<1>4. Len(memory) \in DOMAIN memory
  BY <1>2, <1>3, LenProperties, EmptySeq
<1>5. ConfirmedSurvives'
  BY <1>1, <1>2, <1>3, <1>4 DEF DurableOK, ConfirmedSurvives
<1>6. QED
  BY <1>1, <1>5, EndedSave

LEMMA CrashStep ==
  ASSUME DurableOK, Crash
  PROVE  DurableOK'
<1>1. /\ up' = FALSE /\ memory' = <<>> /\ index' = <<>> /\ call' = Null
      /\ saving' = Null /\ done' = FALSE
      /\ UNCHANGED <<stored, nextId, answers, confirmed>>
  BY DEF DurableOK, StoreTyped, SavesMemory, Crash, Store!Fail, Store!End, storeVars
<1>2. Loaded' = Loaded
  BY <1>1 DEF Loaded
<1>3. StoreTyped' /\ SavesMemory' /\ DownIsEmpty' /\ IndexCovers' /\ StoreIsPast'
  BY <1>1, EmptySeq DEF DurableOK, StoreTyped, SavesMemory, DownIsEmpty, IndexCovers, StoreIsPast
<1>4. KeysOnce(memory)' /\ KeysOnce(Loaded)' /\ ConfirmedSurvives'
  <2>1. DOMAIN memory' = {}
    BY <1>1
  <2>2. QED
    BY <1>1, <1>2, <2>1 DEF DurableOK, KeysOnce, ConfirmedSurvives
<1>5. QED
  BY <1>3, <1>4 DEF DurableOK

LEMMA DurableStep ==
  ASSUME DurableOK, [Next]_vars
  PROVE  DurableOK'
<1>1. CASE Start
  BY <1>1, StartStep
<1>2. CASE \E key \in Keys : Resend(key)
  <2>1. UNCHANGED <<up, memory, index, call, stored, saving, done, nextId, confirmed>>
    BY <1>2 DEF Resend, storeVars
  <2>2. StoreTyped' /\ SavesMemory' /\ DownIsEmpty' /\ IndexCovers' /\ KeysOnce(memory)' /\ KeysOnce(Loaded)'
        /\ StoreIsPast' /\ ConfirmedSurvives'
    BY <2>1 DEF DurableOK, StoreTyped, SavesMemory, DownIsEmpty, IndexCovers, KeysOnce, StoreIsPast,
       ConfirmedSurvives, Loaded
  <2>3. QED
    BY <2>2 DEF DurableOK
<1>3. CASE \E key \in Keys \cup {Null} : Apply(key)
  BY <1>3, ApplyStep
<1>4. CASE AbortedBatch
  BY <1>4, AbortedBatchStep
<1>5. CASE Replace
  BY <1>5, ReplaceStep
<1>6. CASE Saved
  BY <1>6, SavedStep
<1>7. CASE SaveFailed
  <2>1. /\ saving' = Null /\ done' = FALSE /\ call' = Null
        /\ UNCHANGED <<stored, up, memory, index, nextId, confirmed>>
    BY <1>7 DEF SaveFailed, Store!Fail, Store!End
  <2>2. ConfirmedSurvives'
    BY <2>1 DEF DurableOK, ConfirmedSurvives, Loaded
  <2>3. QED
    BY <2>1, <2>2, EndedSave
<1>8. CASE Crash
  BY <1>8, CrashStep
<1>9. CASE UNCHANGED vars
  BY <1>9 DEF vars, storeVars, DurableOK, StoreTyped, SavesMemory, DownIsEmpty, IndexCovers, KeysOnce,
     StoreIsPast, ConfirmedSurvives, Loaded
<1>10. QED
  BY <1>1, <1>2, <1>3, <1>4, <1>5, <1>6, <1>7, <1>8, <1>9 DEF Next

LEMMA AlwaysDurable == Spec => []DurableOK
<1>1. Init => DurableOK
  <2>1. SUFFICES ASSUME Init PROVE DurableOK
    OBVIOUS
  <2>2. Loaded = <<>> /\ memory = <<>> /\ confirmed = {} /\ ~ up /\ call = Null
    BY <2>1 DEF Init, Store!Init, Loaded
  <2>3. StoreTyped /\ SavesMemory /\ DownIsEmpty /\ IndexCovers
    BY <2>1, EmptySeq DEF Init, Store!Init, StoreTyped, SavesMemory, DownIsEmpty, IndexCovers
  <2>4. KeysOnce(memory) /\ KeysOnce(Loaded) /\ StoreIsPast /\ ConfirmedSurvives
    BY <2>2 DEF KeysOnce, StoreIsPast, ConfirmedSurvives
  <2>5. QED
    BY <2>3, <2>4 DEF DurableOK
<1>2. DurableOK /\ [Next]_vars => DurableOK'
  BY DurableStep
<1>3. QED
  BY <1>1, <1>2, PTL DEF Spec

-----------------------------------------------------------------------------
(* The theorems.                                                           *)

\* A restart never brings back a ledger that this process has not had.
THEOREM RestartsToThePast == Spec => []StoreIsPast
<1>1. DurableOK => StoreIsPast
  BY DEF DurableOK
<1>2. QED
  BY <1>1, AlwaysDurable, PTL

\* No key posts twice, in memory or in what a restart would load.
THEOREM KeysPostOnce == Spec => []PostedOnce
<1>1. DurableOK => PostedOnce
  BY DEF DurableOK, PostedOnce, KeysOnce
<1>2. QED
  BY <1>1, AlwaysDurable, PTL

\* No failed save and no crash loses what was answered after its own save.
THEOREM AnsweredSurvives == Spec => []ConfirmedSurvives
<1>1. DurableOK => ConfirmedSurvives
  BY DEF DurableOK
<1>2. QED
  BY <1>1, AlwaysDurable, PTL
=============================================================================
