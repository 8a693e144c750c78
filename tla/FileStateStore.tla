--------------------------- MODULE FileStateStore ---------------------------
(***************************************************************************)
(* src/persistence/file-state-store.ts: a save writes the whole state to   *)
(* <file>.tmp and renames that over <file>.  Every call into the file      *)
(* system may fail, and the process may die between and during them; what  *)
(* is left of the temporary file stays until the next save.  Saves do not  *)
(* overlap: persistIfConfigured runs with the mutex of the service held.   *)
(***************************************************************************)
EXTENDS TLAPS

CONSTANTS Null, Torn, States

ASSUME ContentAssumption == Null \notin States /\ Torn \notin States /\ Null # Torn

VARIABLES
    file,       \* content of <file>, Null if there is none
    temp,       \* content of <file>.tmp, Null if there is none, or Torn
    saving,     \* the state being saved, or Null
    step        \* the call that is next

vars == <<file, temp, saving, step>>

Init == file = Null /\ temp = Null /\ saving = Null /\ step = "idle"

Save(state) ==
    /\ step = "idle"
    /\ saving' = state
    /\ step' = "mkdir"
    /\ UNCHANGED <<file, temp>>

MakeDir ==
    /\ step = "mkdir"
    /\ step' = "open"
    /\ UNCHANGED <<file, temp, saving>>

\* writeFile truncates the temporary file and fills it; anybody who looks in
\* between finds half a state.
OpenTemp ==
    /\ step = "open"
    /\ temp' = Torn
    /\ step' = "write"
    /\ UNCHANGED <<file, saving>>

WriteTemp ==
    /\ step = "write"
    /\ temp' = saving
    /\ step' = "rename"
    /\ UNCHANGED <<file, saving>>

\* Faulty variant: the rename does not wait for the write.
RenameEarly ==
    /\ step \in {"write", "rename"}
    /\ file' = temp
    /\ temp' = Null
    /\ step' = "return"
    /\ UNCHANGED saving

Rename ==
    /\ step = "rename"
    /\ file' = temp
    /\ temp' = Null
    /\ step' = "return"
    /\ UNCHANGED saving

End ==
    /\ saving' = Null
    /\ step' = "idle"
    /\ UNCHANGED <<file, temp>>

Return == step = "return" /\ End

\* A call into the file system throws, and save with it.
Fail == step \in {"mkdir", "open", "write", "rename"} /\ End

\* The process dies.  The next one begins with the files as they are.
Crash == step # "idle" /\ End

Next ==
    \/ \E state \in States : Save(state)
    \/ MakeDir \/ OpenTemp \/ WriteTemp \/ Rename
    \/ Return \/ Fail \/ Crash

Spec == Init /\ [][Next]_vars

-----------------------------------------------------------------------------
Store == INSTANCE StateStore WITH stored <- file, done <- step = "return"

\* A save is atomic whatever fails and wherever the process dies: the file holds
\* the old state or the new one, never half of one, and a save that returned
\* has replaced it.
IsStateStore == Store!Spec

\* The temporary file holds the whole state when it is renamed.
SaveOK ==
    /\ saving \in States \cup {Null}
    /\ step \in {"idle", "mkdir", "open", "write", "rename", "return"}
    /\ saving = Null <=> step = "idle"
    /\ step = "rename" => temp = saving

\* SaveOK holds of every reachable state: a crash or a failure at any call
\* leaves no save half begun.
THEOREM SaveAlwaysOK == Spec => []SaveOK
<1>1. Init => SaveOK
  BY DEF Init, SaveOK
<1>2. SaveOK /\ [Next]_vars => SaveOK'
  <2> SUFFICES ASSUME SaveOK, [Next]_vars PROVE SaveOK'
    OBVIOUS
  <2>1. ASSUME NEW state \in States, Save(state) PROVE SaveOK'
    BY <2>1, ContentAssumption DEF Save, SaveOK
  <2>2. CASE MakeDir \/ OpenTemp \/ WriteTemp \/ Rename
    BY <2>2 DEF MakeDir, OpenTemp, WriteTemp, Rename, SaveOK
  <2>3. CASE Return \/ Fail \/ Crash
    BY <2>3 DEF Return, Fail, Crash, End, SaveOK
  <2>4. CASE UNCHANGED vars
    BY <2>4 DEF vars, SaveOK
  <2> QED BY <2>1, <2>2, <2>3, <2>4 DEF Next
<1> QED BY <1>1, <1>2, PTL DEF Spec

\* writeFileAtomic: a save replaces the stored state at the rename and at no
\* other moment, for any states and any failures.
THEOREM FileIsStateStore == Spec => IsStateStore
<1>1. Init => Store!Init
  BY DEF Init, Store!Init
<1>2. SaveOK /\ [Next]_vars => [Store!Next]_(Store!storeVars)
  <2> SUFFICES ASSUME SaveOK, [Next]_vars PROVE [Store!Next]_(Store!storeVars)
    OBVIOUS
  <2>1. ASSUME NEW state \in States, Save(state) PROVE Store!Save(state)
    BY <2>1 DEF Save, SaveOK, Store!Save
  <2>2. CASE MakeDir \/ OpenTemp \/ WriteTemp
    BY <2>2 DEF MakeDir, OpenTemp, WriteTemp, Store!storeVars
  <2>3. ASSUME Rename PROVE Store!Replace
    BY <2>3 DEF Rename, SaveOK, Store!Replace
  <2>4. ASSUME Return PROVE Store!Return
    BY <2>4 DEF Return, End, SaveOK, Store!Return, Store!End
  <2>5. ASSUME Fail \/ Crash PROVE Store!Fail
    BY <2>5 DEF Fail, Crash, End, SaveOK, Store!Fail, Store!End
  <2>6. CASE UNCHANGED vars
    BY <2>6 DEF vars, Store!storeVars
  <2> QED BY <2>1, <2>2, <2>3, <2>4, <2>5, <2>6 DEF Next, Store!Next
<1> QED BY <1>1, <1>2, SaveAlwaysOK, PTL DEF Spec, IsStateStore, Store!Spec
=============================================================================
