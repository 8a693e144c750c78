----------------------------- MODULE StateStore -----------------------------
(***************************************************************************)
(* What LedgerService relies on a StateStore for                           *)
(* (src/persistence/state-store.ts): a save replaces the whole stored      *)
(* state at one moment or never.  A save that returned has done so; one    *)
(* that threw, or whose caller crashed, may or may not have.               *)
(* PostgresStateStore is this specification: its save is one upsert.       *)
(***************************************************************************)
CONSTANTS Null, States

VARIABLES
    stored,     \* what load() returns
    saving,     \* the state of the save in flight, or Null
    done        \* that save has replaced the stored state

storeVars == <<stored, saving, done>>

Init == stored = Null /\ saving = Null /\ done = FALSE

Save(state) ==
    /\ saving = Null
    /\ saving' = state
    /\ UNCHANGED <<stored, done>>

Replace ==
    /\ saving # Null
    /\ ~ done
    /\ stored' = saving
    /\ done' = TRUE
    /\ UNCHANGED saving

End == saving' = Null /\ done' = FALSE /\ UNCHANGED stored

\* Faulty variant: the promise of the save is not awaited.
ReturnAtOnce == saving # Null /\ End

Return == saving # Null /\ done /\ End

\* The save throws, or its caller is gone.
Fail == saving # Null /\ End

Next == (\E state \in States : Save(state)) \/ Replace \/ Return \/ Fail

Spec == Init /\ [][Next]_storeVars
=============================================================================
