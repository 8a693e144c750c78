------------------------ MODULE ReadRateLimitProofs -------------------------
(***************************************************************************)
(* For any processes, buckets, requests, pools, limits and times, the      *)
(* Postgres rate limiter implements the atomic one, and its cleanups take  *)
(* turns.                                                                  *)
(***************************************************************************)
EXTENDS PostgresReadRateLimit, SequenceTheorems, TLAPS

-----------------------------------------------------------------------------
(* The invariant.                                                          *)

Row    == [count : Nat, resetAt : Nat]
Answer == [allowed : BOOLEAN, count : Nat, resetAt : Nat]

Places == Clients \cup {"new", "queued", "done", "failed"}

Request == [pc : Places, process : Processes \cup {Null}, bucket : Buckets \cup {Null},
            now : Times \cup {Null}, plan : Answer \cup {Null}]

\* Where a request has arrived.
Arrived(r) ==
    /\ requests[r].process \in Processes
    /\ requests[r].bucket \in Buckets
    /\ requests[r].now \in Times

RequestsTyped ==
    /\ requests \in [Requests -> Request]
    /\ \A r \in Requests : At(r) # "new" => Arrived(r)
    /\ \A r \in Requests : At(r) = "commit" => requests[r].plan \in Answer

Typed ==
    /\ clock \in Times
    /\ rows \in [DOMAIN rows -> Row]
    /\ DOMAIN rows \subseteq Buckets
    /\ RequestsTyped
    /\ queue \in [Processes -> Seq(Requests \cup {Cleanup})]
    /\ cleaner \in [Processes -> Cleaner \cup {Null}]

Standing(q) == {q[i] : i \in DOMAIN q}

Orderly(q) == \A i, j \in DOMAIN q : q[i] = q[j] => i = j

\* Who stands in a pool's queue stands there once, and waits for nothing else.
InLine(p, x) ==
    IF x = Cleanup THEN Cleaning(p, {"queued"})
    ELSE At(x) = "queued" /\ requests[x].process = p

QueuesOK ==
    \A p \in Processes : Orderly(queue[p]) /\ \A x \in Standing(queue[p]) : InLine(p, x)

\* What lets a commit take effect as if consume had only just read the row: it
\* is alone with the key of its bucket, and its plan is still what the
\* committed row calls for.
CommitsOK ==
    \A r \in Requests :
        At(r) = "commit" =>
            /\ requests[r].plan = Atomic!VerdictOn(requests[r].bucket, Limit[r], requests[r].now)
            /\ \A s \in Requests : At(s) = "commit" /\ requests[s].bucket = requests[r].bucket => s = r
            /\ \A p \in Processes : cleaner[p] # Null => requests[r].bucket \notin cleaner[p].deleted

\* A cleanup that deletes holds the advisory lock.
TurnOK == \A p \in Processes : Cleaning(p, {"pick", "delete"}) => turn = p

Inv == Typed /\ QueuesOK /\ CommitsOK /\ TurnOK

-----------------------------------------------------------------------------
(* What single steps do.                                                   *)

\* A consume answers a count and the end of a window.
LEMMA VerdictType ==
  ASSUME Typed, NEW b, NEW limit, NEW now \in Times
  PROVE  Atomic!VerdictOn(b, limit, now) \in Answer /\ Atomic!Opened(now) \in Answer
<1>1. now \in Nat /\ Window \in Nat
  BY TimesAssumption
<1>2. Atomic!Opened(now) \in Answer
  BY <1>1 DEF Atomic!Opened, Atomic!Verdict, Answer
<1>3. ASSUME b \in DOMAIN rows PROVE Atomic!Counted(rows[b], limit) \in Answer
  <2>1. rows[b] \in Row
    BY <1>3 DEF Typed
  <2>2. QED
    BY <2>1 DEF Atomic!Counted, Atomic!Verdict, Answer, Row
<1>4. QED
  BY <1>2, <1>3 DEF Atomic!VerdictOn

\* The rows after an answer.
LEMMA RowsType ==
  ASSUME Typed, NEW b \in Buckets, NEW v \in Answer
  PROVE  /\ Atomic!After(b, v) \in [DOMAIN Atomic!After(b, v) -> Row]
         /\ DOMAIN Atomic!After(b, v) \subseteq Buckets
         /\ \A c : c # b => /\ c \in DOMAIN Atomic!After(b, v) <=> c \in DOMAIN rows
                            /\ c \in DOMAIN rows => Atomic!After(b, v)[c] = rows[c]
BY DEF Typed, Atomic!After, Answer, Row

\* The first of a queue is taken out of it.
LEMMA Leaves ==
  ASSUME NEW S, NEW q \in Seq(S), q # <<>>, Orderly(q)
  PROVE  /\ Head(q) \in S /\ Head(q) \in Standing(q)
         /\ Tail(q) \in Seq(S)
         /\ Orderly(Tail(q))
         /\ Standing(Tail(q)) = Standing(q) \ {Head(q)}
<1>1. /\ DOMAIN q = 1 .. Len(q) /\ Len(q) \in Nat /\ Len(q) # 0
      /\ Tail(q) \in Seq(S) /\ Head(q) \in S /\ Head(q) = q[1]
      /\ DOMAIN Tail(q) = 1 .. Len(q) - 1
      /\ \A i \in 1 .. Len(q) - 1 : Tail(q)[i] = q[i + 1]
  BY EmptySeq, LenProperties, HeadTailProperties
<1>2. ASSUME NEW i \in DOMAIN Tail(q), NEW j \in DOMAIN Tail(q), Tail(q)[i] = Tail(q)[j]
      PROVE  i = j
  <2>1. i + 1 \in DOMAIN q /\ j + 1 \in DOMAIN q /\ q[i + 1] = q[j + 1]
    BY <1>1, <1>2
  <2>2. i + 1 = j + 1
    BY <2>1 DEF Orderly
  <2>3. QED
    BY <1>1, <2>2
<1>3. ASSUME NEW i \in DOMAIN Tail(q)
      PROVE  Tail(q)[i] \in Standing(q) \ {Head(q)}
  <2>1. i + 1 \in DOMAIN q /\ 1 \in DOMAIN q /\ i + 1 # 1 /\ Tail(q)[i] = q[i + 1]
    BY <1>1
  <2>2. QED
    BY <1>1, <2>1 DEF Orderly, Standing
<1>4. ASSUME NEW i \in DOMAIN q, q[i] # Head(q)
      PROVE  q[i] \in Standing(Tail(q))
  <2>1. i - 1 \in 1 .. Len(q) - 1 /\ q[(i - 1) + 1] = q[i]
    BY <1>1, <1>4
  <2>2. QED
    BY <1>1, <2>1 DEF Standing
<1>5. QED
  BY <1>1, <1>2, <1>3, <1>4 DEF Orderly, Standing

\* Who does not stand in a queue yet joins it at its end.
LEMMA Joins ==
  ASSUME NEW S, NEW q \in Seq(S), NEW x \in S, x \notin Standing(q), Orderly(q)
  PROVE  /\ Append(q, x) \in Seq(S)
         /\ Orderly(Append(q, x))
         /\ Standing(Append(q, x)) = Standing(q) \cup {x}
<1>1. /\ DOMAIN q = 1 .. Len(q) /\ Len(q) \in Nat
      /\ Append(q, x) \in Seq(S)
      /\ DOMAIN Append(q, x) = DOMAIN q \cup {Len(q) + 1}
      /\ Append(q, x)[Len(q) + 1] = x
      /\ \A i \in DOMAIN q : Append(q, x)[i] = q[i]
  BY AppendProperties, LenProperties
<1>2. QED
  BY <1>1 DEF Orderly, Standing

-----------------------------------------------------------------------------
(* Every step keeps the types.                                             *)

\* At the start nothing has arrived.
LEMMA TypedInit == ASSUME Init PROVE Typed
BY TimesAssumption DEF Init, Typed, RequestsTyped, Request, Places, Clients, At

\* A request goes on to another place than a commit.
LEMMA GoesTyped ==
  ASSUME RequestsTyped, NEW r \in Requests, At(r) # "new",
         NEW pc \in Places \ {"new", "commit"}, Goes(r, pc)
  PROVE  RequestsTyped'
BY DEF RequestsTyped, Goes, At, Request, Arrived

\* A request fails.
LEMMA FailsTyped ==
  ASSUME RequestsTyped, NEW r \in Requests, At(r) # "new", Fails(r)
  PROVE  RequestsTyped'
BY DEF RequestsTyped, Fails, At, Request, Arrived, Places

\* A request plans its commit.
LEMMA PlansTyped ==
  ASSUME RequestsTyped, NEW r \in Requests, At(r) # "new", NEW plan \in Answer, Plans(r, plan)
  PROVE  RequestsTyped'
BY DEF RequestsTyped, Plans, At, Request, Arrived, Places, Clients

\* A cleanup goes on.
LEMMA CleanerTyped ==
  ASSUME cleaner \in [Processes -> Cleaner \cup {Null}], NEW p \in Processes, cleaner[p] \in Cleaner,
         NEW pc \in {"lock", "pick", "unlock"}, cleaner' = [cleaner EXCEPT ![p].pc = pc]
  PROVE  cleaner' \in [Processes -> Cleaner \cup {Null}]
<1>1. [cleaner[p] EXCEPT !.pc = pc] \in Cleaner
  BY DEF Cleaner
<1>2. cleaner' = [cleaner EXCEPT ![p] = [cleaner[p] EXCEPT !.pc = pc]]
  OBVIOUS
<1>3. QED
  BY <1>1, <1>2

\* Every step of a process or of the database keeps the types.
LEMMA TypedStep == ASSUME Inv, [Next]_vars PROVE Typed'
<1> USE DEF At, Typed
<1>1. ASSUME NEW p \in Processes, NEW b \in Buckets, Arrive(p, b) PROVE Typed'
  <2>1. PICK r \in Requests :
          /\ At(r) = "new"
          /\ requests' = [requests EXCEPT ![r] =
                [pc |-> "queued", process |-> p, bucket |-> b, now |-> clock, plan |-> Null]]
          /\ queue' = [queue EXCEPT ![p] = Append(@, r)]
    BY <1>1 DEF Arrive
  <2>2. RequestsTyped'
    BY <1>1, <2>1 DEF Inv, RequestsTyped, Request, Places, Arrived
  <2>3. queue' \in [Processes -> Seq(Requests \cup {Cleanup})]
    BY <2>1, AppendProperties DEF Inv
  <2>4. QED
    BY <1>1, <2>2, <2>3 DEF Inv, Arrive
<1>2. ASSUME NEW p \in Processes, Connect(p) PROVE Typed'
  <2>1. queue[p] # <<>> /\ queue[p] \in Seq(Requests \cup {Cleanup})
    BY <1>2 DEF Connect, Inv
  <2>2. /\ Head(queue[p]) \in Requests \cup {Cleanup} /\ InLine(p, Head(queue[p]))
        /\ Tail(queue[p]) \in Seq(Requests \cup {Cleanup})
    BY <2>1, Leaves DEF Inv, QueuesOK
  <2>3. queue' \in [Processes -> Seq(Requests \cup {Cleanup})]
    BY <1>2, <2>2 DEF Connect, Inv
  <2>4. CASE Head(queue[p]) = Cleanup
    <3>1. cleaner[p] \in Cleaner
      BY <2>2, <2>4 DEF InLine, Cleaning, Inv
    <3>2. cleaner' \in [Processes -> Cleaner \cup {Null}] /\ UNCHANGED requests
      BY <1>2, <2>4, <3>1, CleanerTyped DEF Connect, Inv
    <3>3. QED
      BY <1>2, <2>3, <3>2 DEF Connect, Inv, RequestsTyped, Arrived
  <2>5. CASE Head(queue[p]) # Cleanup
    <3>1. RequestsTyped'
      BY <1>2, <2>2, <2>5, GoesTyped DEF Connect, Inv, InLine, Places, Clients
    <3>2. QED
      BY <1>2, <2>3, <2>5, <3>1 DEF Connect, Inv
  <2>6. QED
    BY <2>4, <2>5
<1>3. ASSUME NEW r \in Requests, Select(r) \/ Insert(r) PROVE Typed'
  <2>1. requests[r].now \in Times
    BY <1>3 DEF Select, Insert, Inv, RequestsTyped, Arrived
  <2>2. /\ Atomic!VerdictOn(requests[r].bucket, Limit[r], requests[r].now) \in Answer
        /\ Atomic!Opened(requests[r].now) \in Answer
    BY <2>1, VerdictType DEF Inv
  <2>3. RequestsTyped'
    BY <1>3, <2>2, GoesTyped, FailsTyped, PlansTyped DEF Select, Insert, Inv, Places, Clients
  <2>4. QED
    BY <1>3, <2>3 DEF Select, Insert, Inv
<1>4. ASSUME NEW r \in Requests, Commit(r) PROVE Typed'
  <2>1. requests[r].bucket \in Buckets /\ requests[r].plan \in Answer
    BY <1>4 DEF Commit, Inv, RequestsTyped, Arrived
  <2>2. rows' \in [DOMAIN rows' -> Row] /\ DOMAIN rows' \subseteq Buckets
    BY <1>4, <2>1, RowsType DEF Commit, Inv
  <2>3. RequestsTyped'
    BY <1>4, GoesTyped DEF Commit, Inv, Places, Clients
  <2>4. QED
    BY <1>4, <2>2, <2>3 DEF Commit, Inv
<1>5. ASSUME NEW r \in Requests, Fail(r) \/ AnswerLost(r) PROVE Typed'
  <2>1. RequestsTyped'
    BY <1>5, GoesTyped, FailsTyped DEF Fail, AnswerLost, Inv, Places
  <2>2. QED
    BY <1>5, <2>1 DEF Fail, AnswerLost, Inv
<1>6. ASSUME NEW r \in Requests, Finish(r) PROVE Typed'
  <2> DEFINE p == requests[r].process
             started == [pc |-> "queued", now |-> requests[r].now,
                         targets |-> {}, deleted |-> {}, outcome |-> "done"]
  <2>1. p \in Processes /\ requests[r].now \in Times
    BY <1>6 DEF Finish, Inv, RequestsTyped, Arrived
  <2>2. RequestsTyped'
    BY <1>6, GoesTyped DEF Finish, Inv, Places, Clients
  <2>3. started \in Cleaner
    BY <2>1 DEF Cleaner
  <2>4. \/ cleaner' = [cleaner EXCEPT ![p] = started] /\ queue' = [queue EXCEPT ![p] = Append(@, Cleanup)]
        \/ UNCHANGED <<cleaner, queue>>
    BY <1>6 DEF Finish
  <2> HIDE DEF started
  <2>5. /\ cleaner' \in [Processes -> Cleaner \cup {Null}]
        /\ queue' \in [Processes -> Seq(Requests \cup {Cleanup})]
    <3>1. CASE UNCHANGED <<cleaner, queue>>
      BY <3>1 DEF Inv
    <3>2. CASE cleaner' = [cleaner EXCEPT ![p] = started] /\ queue' = [queue EXCEPT ![p] = Append(@, Cleanup)]
      <4>1. Append(queue[p], Cleanup) \in Seq(Requests \cup {Cleanup})
        BY <2>1, AppendProperties DEF Inv
      <4>2. QED
        BY <2>1, <2>3, <3>2, <4>1 DEF Inv
    <3>3. QED
      BY <2>4, <3>1, <3>2
  <2>6. QED
    BY <1>6, <2>2, <2>5 DEF Finish, Inv
<1>7. ASSUME NEW p \in Processes,
             TryLock(p) \/ Pick(p) \/ DeleteEnd(p) \/ CleanupFails(p) \/ \E b \in Buckets : Delete(p, b)
      PROVE  Typed'
  <2>1. cleaner[p] \in Cleaner
    BY <1>7 DEF TryLock, Pick, DeleteEnd, CleanupFails, Delete, Cleaning, Inv
  <2>2. cleaner' \in [Processes -> Cleaner \cup {Null}]
    <3>1. CASE TryLock(p)
      BY <2>1, <3>1, CleanerTyped DEF TryLock, Inv
    <3>2. CASE Pick(p)
      <4>1. PICK targets \in Targets(cleaner[p].now) :
              cleaner' = [cleaner EXCEPT ![p].pc = "delete", ![p].targets = targets]
        BY <3>2 DEF Pick
      <4>2. targets \in SUBSET Buckets
        BY DEF Targets, Overdue, Inv
      <4>3. QED
        BY <2>1, <4>1, <4>2 DEF Inv, Cleaner
    <3>3. CASE DeleteEnd(p)
      BY <2>1, <3>3 DEF DeleteEnd, Inv, Cleaner
    <3>4. ASSUME NEW b \in Buckets, Delete(p, b)
          PROVE  cleaner' \in [Processes -> Cleaner \cup {Null}]
      BY <2>1, <3>4 DEF Delete, Inv, Cleaner
    <3>5. CASE CleanupFails(p)
      BY <2>1, <3>5 DEF CleanupFails, Inv, Cleaner
    <3>6. QED
      BY <1>7, <3>1, <3>2, <3>3, <3>4, <3>5
  <2>3. rows' \in [DOMAIN rows' -> Row] /\ DOMAIN rows' \subseteq Buckets
    BY <1>7 DEF TryLock, Pick, DeleteEnd, CleanupFails, Delete, Inv
  <2>4. QED
    BY <1>7, <2>2, <2>3 DEF TryLock, Pick, DeleteEnd, CleanupFails, Delete, Inv, RequestsTyped, Arrived
<1>8. ASSUME NEW p \in Processes, Unlock(p) PROVE Typed'
  <2>1. cleaner[p].outcome \in {"done", "failed"}
    BY <1>8 DEF Unlock, Cleaning, Inv, Cleaner
  <2>2. RequestsTyped'
    BY <1>8, <2>1 DEF Unlock, Inv, RequestsTyped, Request, Arrived, Places
  <2>3. QED
    BY <1>8, <2>2 DEF Unlock, Inv
<1>9. CASE Tick \/ UNCHANGED vars
  BY <1>9 DEF Tick, vars, Inv, RequestsTyped, Arrived
<1>10. QED
  BY <1>1, <1>2, <1>3, <1>4, <1>5, <1>6, <1>7, <1>8, <1>9 DEF Next, Progress
-----------------------------------------------------------------------------
(* Every step keeps the queues in order.                                   *)

\* Only requests and the cleanup stand in a queue.
LEMMA StandingType ==
  ASSUME Typed, NEW p \in Processes
  PROVE  Standing(queue[p]) \subseteq Requests \cup {Cleanup}
BY ElementOfSeq, LenProperties DEF Typed, Standing

\* Steps that leave the queues alone, and all who stand in them.
LEMMA SameQueues ==
  ASSUME Inv, UNCHANGED queue,
         \A p \in Processes, x \in Requests \cup {Cleanup} : InLine(p, x) => InLine(p, x)'
  PROVE  QueuesOK'
BY StandingType DEF Inv, QueuesOK

\* Steps after which one more stands in the queue of p.
LEMMA QueueJoined ==
  ASSUME Inv, NEW p \in Processes, NEW x \in Requests \cup {Cleanup},
         queue' = [queue EXCEPT ![p] = Append(@, x)], ~ InLine(p, x), InLine(p, x)',
         \A q \in Processes, y \in Requests \cup {Cleanup} : InLine(q, y) => InLine(q, y)'
  PROVE  QueuesOK'
<1>1. /\ \A q \in Processes : queue'[q] = IF q = p THEN Append(queue[p], x) ELSE queue[q]
      /\ queue[p] \in Seq(Requests \cup {Cleanup})
  BY DEF Inv, Typed
<1>2. x \notin Standing(queue[p])
  BY DEF Inv, QueuesOK
<1>3. Orderly(queue'[p]) /\ Standing(queue'[p]) = Standing(queue[p]) \cup {x}
  BY <1>1, <1>2, Joins DEF Inv, QueuesOK
<1>4. \A q \in Processes : Standing(queue[q]) \subseteq Requests \cup {Cleanup}
  BY StandingType DEF Inv
<1>5. QED
  BY <1>1, <1>3, <1>4 DEF Inv, QueuesOK

\* Steps that take the first out of the queue of p.
LEMMA QueueLeft ==
  ASSUME Inv, NEW p \in Processes, queue[p] # <<>>,
         queue' = [queue EXCEPT ![p] = Tail(@)],
         \A q \in Processes, y \in Requests \cup {Cleanup} :
            (q = p => y # Head(queue[p])) /\ InLine(q, y) => InLine(q, y)'
  PROVE  QueuesOK'
<1>1. /\ \A q \in Processes : queue'[q] = IF q = p THEN Tail(queue[p]) ELSE queue[q]
      /\ queue[p] \in Seq(Requests \cup {Cleanup})
  BY DEF Inv, Typed
<1>2. Orderly(queue'[p]) /\ Standing(queue'[p]) = Standing(queue[p]) \ {Head(queue[p])}
  BY <1>1, Leaves DEF Inv, QueuesOK
<1>3. \A q \in Processes : Standing(queue[q]) \subseteq Requests \cup {Cleanup}
  BY StandingType DEF Inv
<1>4. QED
  BY <1>1, <1>2, <1>3 DEF Inv, QueuesOK

\* Every step keeps the queues in order.
LEMMA QueueStep == ASSUME Inv, [Next]_vars PROVE QueuesOK'
<1> USE DEF At, InLine, Cleaning
<1>1. ASSUME NEW p \in Processes, NEW b \in Buckets, Arrive(p, b) PROVE QueuesOK'
  <2>1. PICK r \in Requests :
          /\ At(r) = "new"
          /\ requests' = [requests EXCEPT ![r] =
                [pc |-> "queued", process |-> p, bucket |-> b, now |-> clock, plan |-> Null]]
          /\ queue' = [queue EXCEPT ![p] = Append(@, r)]
    BY <1>1 DEF Arrive
  <2>2. requests \in [Requests -> Request] /\ r # Cleanup /\ UNCHANGED cleaner
    BY <1>1 DEF Inv, Typed, RequestsTyped, Requests, Cleanup, Arrive
  <2>3. ~ InLine(p, r) /\ InLine(p, r)'
    BY <2>1, <2>2
  <2>4. \A q \in Processes, y \in Requests \cup {Cleanup} : InLine(q, y) => InLine(q, y)'
    BY <2>1, <2>2
  <2>5. QED
    BY <2>1, <2>3, <2>4, QueueJoined
<1>2. ASSUME NEW p \in Processes, Connect(p) PROVE QueuesOK'
  <2> DEFINE first == Head(queue[p])
  <2>1. first \in Requests \cup {Cleanup} /\ InLine(p, first)
    BY <1>2, Leaves DEF Connect, Inv, Typed, QueuesOK
  <2>2. requests \in [Requests -> Request] /\ cleaner \in [Processes -> Cleaner \cup {Null}]
    BY DEF Inv, Typed, RequestsTyped
  <2>3. \A q \in Processes, y \in Requests \cup {Cleanup} :
          (q = p => y # first) /\ InLine(q, y) => InLine(q, y)'
    BY <1>2, <2>1, <2>2 DEF Connect, Goes
  <2>4. QED
    BY <1>2, <2>3, QueueLeft DEF Connect
<1>3. ASSUME NEW r \in Requests, Select(r) \/ Insert(r) \/ Commit(r) \/ Fail(r) \/ AnswerLost(r)
      PROVE  QueuesOK'
  <2>1. At(r) # "queued" /\ UNCHANGED <<queue, cleaner>>
    BY <1>3 DEF Select, Insert, Commit, Fail, AnswerLost
  <2>2. \A s \in Requests \ {r} : requests'[s] = requests[s]
    BY <1>3 DEF Select, Insert, Commit, Fail, AnswerLost, Goes, Fails, Plans, Inv, Typed, RequestsTyped
  <2>3. \A q \in Processes, y \in Requests \cup {Cleanup} : InLine(q, y) => InLine(q, y)'
    BY <2>1, <2>2
  <2>4. QED
    BY <2>1, <2>3, SameQueues
<1>4. ASSUME NEW r \in Requests, Finish(r) PROVE QueuesOK'
  <2> DEFINE started == [pc |-> "queued", now |-> requests[r].now,
                         targets |-> {}, deleted |-> {}, outcome |-> "done"]
  <2>0. At(r) = "committed" /\ requests[r].process \in Processes /\ requests[r].now \in Times
    BY <1>4 DEF Finish, Inv, Typed, RequestsTyped, Arrived
  <2>1. PICK p \in Processes : p = requests[r].process
    BY <2>0
  <2>2. \A s \in Requests \ {r} : requests'[s] = requests[s]
    BY <1>4 DEF Finish, Goes, Inv, Typed, RequestsTyped
  <2>3. CASE UNCHANGED <<cleaner, queue>>
    <3>1. \A q \in Processes, y \in Requests \cup {Cleanup} : InLine(q, y) => InLine(q, y)'
      BY <2>0, <2>2, <2>3
    <3>2. QED
      BY <2>3, <3>1, SameQueues
  <2>4. CASE /\ cleaner[p] = Null
             /\ cleaner' = [cleaner EXCEPT ![p] = started]
             /\ queue' = [queue EXCEPT ![p] = Append(@, Cleanup)]
    <3>1. started # Null /\ started.pc = "queued"
      BY <2>0, NullAssumption DEF Cleaner
    <3> HIDE DEF started
    <3>2. \A q \in Processes : cleaner'[q] = IF q = p THEN started ELSE cleaner[q]
      BY <2>4 DEF Inv, Typed
    <3>3. ~ InLine(p, Cleanup) /\ InLine(p, Cleanup)'
      BY <2>4, <3>1, <3>2
    <3>4. \A q \in Processes, y \in Requests \cup {Cleanup} : InLine(q, y) => InLine(q, y)'
      BY <2>0, <2>2, <2>4, <3>2
    <3>5. QED
      BY <2>4, <3>3, <3>4, QueueJoined
  <2>5. QED
    BY <1>4, <2>1, <2>3, <2>4 DEF Finish
<1>5. ASSUME NEW p \in Processes,
             TryLock(p) \/ Pick(p) \/ DeleteEnd(p) \/ CleanupFails(p) \/ \E b \in Buckets : Delete(p, b)
      PROVE  QueuesOK'
  <2>1. cleaner[p].pc # "queued" /\ UNCHANGED <<queue, requests>>
    BY <1>5 DEF TryLock, Pick, DeleteEnd, CleanupFails, Delete
  <2>2. \A q \in Processes \ {p} : cleaner'[q] = cleaner[q]
    BY <1>5 DEF TryLock, Pick, DeleteEnd, CleanupFails, Delete, Inv, Typed
  <2>3. \A q \in Processes, y \in Requests \cup {Cleanup} : InLine(q, y) => InLine(q, y)'
    BY <2>1, <2>2
  <2>4. QED
    BY <2>1, <2>3, SameQueues
<1>6. ASSUME NEW p \in Processes, Unlock(p) PROVE QueuesOK'
  <2>1. cleaner[p].pc # "queued" /\ UNCHANGED queue
    BY <1>6 DEF Unlock
  <2>2. \A q \in Processes \ {p} : cleaner'[q] = cleaner[q]
    BY <1>6 DEF Unlock, Inv, Typed
  <2>3. \A r \in Requests : requests[r].pc = "queued" => requests'[r] = requests[r]
    BY <1>6 DEF Unlock
  <2>4. \A q \in Processes, y \in Requests \cup {Cleanup} : InLine(q, y) => InLine(q, y)'
    BY <2>1, <2>2, <2>3
  <2>5. QED
    BY <2>1, <2>4, SameQueues
<1>7. CASE Tick \/ UNCHANGED vars
  <2>1. UNCHANGED <<queue, cleaner, requests>>
    BY <1>7 DEF Tick, vars
  <2>2. QED
    BY <2>1, SameQueues
<1>8. QED
  BY <1>1, <1>2, <1>3, <1>4, <1>5, <1>6, <1>7 DEF Next, Progress

-----------------------------------------------------------------------------
(* Every step keeps commits atomic.                                        *)

\* What a step leaves of the row of a bucket.
SameRow(b) ==
    /\ b \in DOMAIN rows' <=> b \in DOMAIN rows
    /\ b \in DOMAIN rows => rows'[b] = rows[b]

\* A consume answers from the row of its bucket alone.
LEMMA SameVerdict ==
  ASSUME NEW b, NEW limit, NEW now, SameRow(b)
  PROVE  Atomic!VerdictOn(b, limit, now)' = Atomic!VerdictOn(b, limit, now)
BY DEF SameRow, Atomic!VerdictOn, Atomic!Opened, Atomic!Ended, Atomic!Counted, Atomic!Verdict

\* Steps after which no one is at its commit who was not there before.
LEMMA CommitsKept ==
  ASSUME Inv,
         \A r \in Requests : At(r)' = "commit" =>
            requests'[r] = requests[r] /\ SameRow(requests[r].bucket),
         \A p \in Processes : cleaner'[p] # Null =>
            \A b \in cleaner'[p].deleted : cleaner[p] # Null /\ b \in cleaner[p].deleted
  PROVE  CommitsOK'
<1> SUFFICES ASSUME NEW r \in Requests, At(r)' = "commit"
             PROVE  /\ requests'[r].plan =
                         Atomic!VerdictOn(requests[r].bucket, Limit[r], requests[r].now)'
                    /\ \A s \in Requests :
                          At(s)' = "commit" /\ requests'[s].bucket = requests'[r].bucket => s = r
                    /\ \A p \in Processes :
                          cleaner'[p] # Null => requests'[r].bucket \notin cleaner'[p].deleted
  BY DEF CommitsOK
<1>1. /\ requests'[r] = requests[r] /\ At(r) = "commit" /\ SameRow(requests[r].bucket)
      /\ requests[r].plan = Atomic!VerdictOn(requests[r].bucket, Limit[r], requests[r].now)
  BY DEF At, Inv, CommitsOK
<1>2. PICK b : b = requests[r].bucket
  OBVIOUS
<1>3. PICK now : now = requests[r].now
  OBVIOUS
<1>4. Atomic!VerdictOn(b, Limit[r], now)' = Atomic!VerdictOn(b, Limit[r], now)
  BY <1>1, <1>2, SameVerdict
<1>5. requests'[r].bucket = b /\ requests'[r].now = now /\ requests'[r].plan = requests[r].plan
  BY <1>1, <1>2, <1>3
<1>6. requests'[r].plan = Atomic!VerdictOn(requests[r].bucket, Limit[r], requests[r].now)'
  BY <1>1, <1>2, <1>3, <1>4, <1>5
<1>7. QED
  BY <1>1, <1>6 DEF At, Inv, CommitsOK

\* A request plans its commit with the key of its bucket in hand.
LEMMA CommitsJoined ==
  ASSUME Inv, NEW r \in Requests, NEW b, NEW now, NEW plan, At(r) # "commit",
         b = requests[r].bucket, now = requests[r].now,
         plan = Atomic!VerdictOn(b, Limit[r], now), ~ Locked(b),
         Plans(r, plan), UNCHANGED <<rows, cleaner>>
  PROVE  CommitsOK'
<1>1. /\ requests' = [requests EXCEPT ![r].pc = "commit", ![r].plan = plan]
      /\ requests \in [Requests -> Request]
  BY DEF Plans, Inv, Typed, RequestsTyped
<1>2. /\ requests'[r].pc = "commit" /\ requests'[r].bucket = b
      /\ requests'[r].now = now /\ requests'[r].plan = plan
      /\ \A s \in Requests \ {r} : requests'[s] = requests[s]
  BY <1>1 DEF Request
<1>3. \A c : SameRow(c)
  BY DEF SameRow
<1>4. ASSUME NEW s \in Requests, At(s)' = "commit"
      PROVE  requests'[s].plan = Atomic!VerdictOn(requests[s].bucket, Limit[s], requests[s].now)'
  <2>1. PICK c : c = requests'[s].bucket
    OBVIOUS
  <2>2. PICK t : t = requests'[s].now
    OBVIOUS
  <2>3. Atomic!VerdictOn(c, Limit[s], t)' = Atomic!VerdictOn(c, Limit[s], t)
    BY <1>3, SameVerdict
  <2>4. requests'[s].plan = Atomic!VerdictOn(c, Limit[s], t)
    BY <1>2, <1>4, <2>1, <2>2 DEF At, Inv, CommitsOK
  <2>5. QED
    BY <2>1, <2>2, <2>3, <2>4
<1>5. ASSUME NEW s \in Requests \ {r}, At(s)' = "commit"
      PROVE  requests'[s].bucket # b
  BY <1>2, <1>5 DEF At, Locked
<1>6. QED
  BY <1>2, <1>4, <1>5 DEF At, Locked, Inv, CommitsOK

\* Only SELECT, INSERT and DELETE take a key, and only one that is free; only
\* COMMIT and the end of a DELETE change rows, those whose keys they hold.
LEMMA CommitsStep == ASSUME Inv, [Next]_vars PROVE CommitsOK'
<1> USE DEF At
<1>1. requests \in [Requests -> Request] /\ cleaner \in [Processes -> Cleaner \cup {Null}]
  BY DEF Inv, Typed, RequestsTyped
<1>2. ASSUME NEW p \in Processes, NEW b \in Buckets, Arrive(p, b) PROVE CommitsOK'
  BY <1>1, <1>2, CommitsKept DEF Arrive, SameRow
<1>3. ASSUME NEW p \in Processes, Connect(p) PROVE CommitsOK'
  <2>1. UNCHANGED rows
    BY <1>3 DEF Connect
  <2>2. CASE Head(queue[p]) = Cleanup
    <3>1. cleaner' = [cleaner EXCEPT ![p].pc = "lock"] /\ UNCHANGED requests
      BY <1>3, <2>2 DEF Connect
    <3>2. cleaner[p] \in Cleaner
      <4>1. Head(queue[p]) \in Standing(queue[p])
        BY <1>3, Leaves DEF Connect, Inv, Typed, QueuesOK
      <4>2. QED
        BY <1>1, <2>2, <4>1 DEF Inv, QueuesOK, InLine, Cleaning
    <3>3. QED
      BY <1>1, <2>1, <3>1, <3>2, NullAssumption, CommitsKept DEF SameRow, Cleaner
  <2>3. CASE Head(queue[p]) # Cleanup
    <3>1. Goes(Head(queue[p]), "select") /\ UNCHANGED cleaner
      BY <1>3, <2>3 DEF Connect
    <3>2. \A r \in Requests : At(r)' = "commit" => requests'[r] = requests[r]
      BY <1>1, <3>1 DEF Goes, Request
    <3>3. QED
      BY <2>1, <3>1, <3>2, CommitsKept DEF SameRow
  <2>4. QED
    BY <2>2, <2>3
<1>4. ASSUME NEW r \in Requests, Select(r) PROVE CommitsOK'
  <2>1. CASE requests[r].bucket \in DOMAIN rows
    <3>1. PICK b : b = requests[r].bucket
      OBVIOUS
    <3>2. PICK now : now = requests[r].now
      OBVIOUS
    <3>3. PICK plan : plan = Atomic!VerdictOn(b, Limit[r], now)
      OBVIOUS
    <3>4. At(r) # "commit" /\ ~ Locked(b) /\ Plans(r, plan) /\ UNCHANGED <<rows, cleaner>>
      BY <1>4, <2>1, <3>1, <3>2, <3>3 DEF Select
    <3>5. QED
      BY <3>1, <3>2, <3>3, <3>4, CommitsJoined
  <2>2. CASE requests[r].bucket \notin DOMAIN rows
    <3>1. Goes(r, "insert") /\ UNCHANGED <<rows, cleaner>>
      BY <1>4, <2>2 DEF Select
    <3>2. \A s \in Requests : At(s)' = "commit" => requests'[s] = requests[s]
      BY <1>1, <3>1 DEF Goes, Request
    <3>3. QED
      BY <3>1, <3>2, CommitsKept DEF SameRow
  <2>3. QED
    BY <2>1, <2>2
<1>5. ASSUME NEW r \in Requests, Insert(r) PROVE CommitsOK'
  <2>1. CASE requests[r].bucket \notin DOMAIN rows
    <3>1. PICK b : b = requests[r].bucket
      OBVIOUS
    <3>2. PICK now : now = requests[r].now
      OBVIOUS
    <3>3. PICK plan : plan = Atomic!Opened(now)
      OBVIOUS
    <3>4. plan = Atomic!VerdictOn(b, Limit[r], now)
      BY <2>1, <3>1, <3>3 DEF Atomic!VerdictOn
    <3>5. At(r) # "commit" /\ ~ Locked(b) /\ Plans(r, plan) /\ UNCHANGED <<rows, cleaner>>
      BY <1>5, <2>1, <3>1, <3>2, <3>3 DEF Insert
    <3>6. QED
      BY <3>1, <3>2, <3>4, <3>5, CommitsJoined
  <2>2. CASE requests[r].bucket \in DOMAIN rows
    <3>1. Fails(r) /\ UNCHANGED <<rows, cleaner>>
      BY <1>5, <2>2 DEF Insert
    <3>2. \A s \in Requests : At(s)' = "commit" => requests'[s] = requests[s]
      BY <1>1, <3>1 DEF Fails, Request
    <3>3. QED
      BY <3>1, <3>2, CommitsKept DEF SameRow
  <2>3. QED
    BY <2>1, <2>2
<1>6. ASSUME NEW r \in Requests, Commit(r) PROVE CommitsOK'
  <2>1. requests[r].bucket \in Buckets /\ requests[r].plan \in Answer
    BY <1>6 DEF Commit, Inv, Typed, RequestsTyped, Arrived
  <2>2. \A c : c # requests[r].bucket => SameRow(c)
    BY <1>6, <2>1, RowsType DEF Commit, Inv, SameRow
  <2>3. ASSUME NEW s \in Requests, At(s)' = "commit"
        PROVE  requests'[s] = requests[s] /\ requests[s].bucket # requests[r].bucket
    BY <1>1, <1>6, <2>3 DEF Commit, Goes, Inv, CommitsOK
  <2>4. QED
    BY <1>6, <2>2, <2>3, CommitsKept DEF Commit
<1>7. ASSUME NEW r \in Requests, Fail(r) \/ AnswerLost(r) \/ Finish(r) PROVE CommitsOK'
  <2>1. \A s \in Requests : At(s)' = "commit" => requests'[s] = requests[s]
    <3>1. Fails(r) \/ \E pc \in {"failed", "joined", "done"} : Goes(r, pc)
      BY <1>7 DEF Fail, AnswerLost, Finish
    <3>2. QED
      BY <1>1, <3>1 DEF Fails, Goes, Request
  <2>2. UNCHANGED cleaner
        \/ \E p \in Processes, now \in Times : cleaner' = [cleaner EXCEPT ![p] =
              [pc |-> "queued", now |-> now, targets |-> {}, deleted |-> {}, outcome |-> "done"]]
    BY <1>7 DEF Fail, AnswerLost, Finish, Inv, Typed, RequestsTyped, Arrived
  <2>3. \A p \in Processes : cleaner'[p] # Null =>
            \A b \in cleaner'[p].deleted : cleaner[p] # Null /\ b \in cleaner[p].deleted
    BY <1>1, <2>2
  <2>4. UNCHANGED rows
    BY <1>7 DEF Fail, AnswerLost, Finish
  <2>5. QED
    BY <2>1, <2>3, <2>4, CommitsKept DEF SameRow
<1>8. ASSUME NEW p \in Processes, TryLock(p) \/ Pick(p) \/ CleanupFails(p) \/ Unlock(p)
      PROVE  CommitsOK'
  <2>1. cleaner[p] \in Cleaner
    BY <1>1, <1>8 DEF TryLock, Pick, CleanupFails, Unlock, Cleaning
  <2>2. \A q \in Processes : cleaner'[q] # Null =>
            \A b \in cleaner'[q].deleted : cleaner[q] # Null /\ b \in cleaner[q].deleted
    BY <1>1, <1>8, <2>1, NullAssumption DEF TryLock, Pick, CleanupFails, Unlock, Cleaner
  <2>3. \A r \in Requests : At(r)' = "commit" => requests'[r] = requests[r]
    <3>1. CASE Unlock(p)
      <4>1. cleaner[p].outcome # "commit"
        BY <2>1 DEF Cleaner
      <4>2. QED
        BY <1>1, <3>1, <4>1 DEF Unlock, Request
    <3>2. QED
      BY <1>8, <3>1 DEF TryLock, Pick, CleanupFails
  <2>4. UNCHANGED rows
    BY <1>8 DEF TryLock, Pick, CleanupFails, Unlock
  <2>5. QED
    BY <2>2, <2>3, <2>4, CommitsKept DEF SameRow
<1>9. ASSUME NEW p \in Processes, NEW b \in Buckets, Delete(p, b) PROVE CommitsOK'
  <2>1. ~ Locked(b) /\ UNCHANGED <<rows, requests>>
    BY <1>9 DEF Delete
  <2>2. \A q \in Processes : cleaner'[q] # Null =>
            \A c \in cleaner'[q].deleted : c = b \/ (cleaner[q] # Null /\ c \in cleaner[q].deleted)
    <3>1. cleaner[p] \in Cleaner
      BY <1>1, <1>9 DEF Delete, Cleaning
    <3>2. QED
      BY <1>1, <1>9, <3>1, NullAssumption DEF Delete, Cleaner
  <2>3. \A r \in Requests : At(r) = "commit" => requests[r].bucket # b
    BY <2>1 DEF Locked
  <2>4. ASSUME NEW r \in Requests, At(r) = "commit"
        PROVE  requests[r].plan = Atomic!VerdictOn(requests[r].bucket, Limit[r], requests[r].now)'
    <3>1. PICK c : c = requests[r].bucket
      OBVIOUS
    <3>2. PICK t : t = requests[r].now
      OBVIOUS
    <3>3. Atomic!VerdictOn(c, Limit[r], t)' = Atomic!VerdictOn(c, Limit[r], t)
      BY <2>1, SameVerdict DEF SameRow
    <3>4. QED
      BY <2>1, <2>4, <3>1, <3>2, <3>3 DEF Inv, CommitsOK
  <2>5. QED
    BY <2>1, <2>2, <2>3, <2>4 DEF Inv, CommitsOK
<1>10. ASSUME NEW p \in Processes, DeleteEnd(p) PROVE CommitsOK'
  <2>1. cleaner[p] \in Cleaner /\ cleaner[p] # Null /\ UNCHANGED requests
    BY <1>1, <1>10 DEF DeleteEnd, Cleaning
  <2>2. \A r \in Requests : At(r) = "commit" => SameRow(requests[r].bucket)
    BY <1>10, <2>1 DEF DeleteEnd, SameRow, Inv, CommitsOK
  <2>3. \A q \in Processes : cleaner'[q] # Null =>
            \A b \in cleaner'[q].deleted : cleaner[q] # Null /\ b \in cleaner[q].deleted
    BY <1>1, <1>10, <2>1 DEF DeleteEnd, Cleaner
  <2>4. QED
    BY <2>1, <2>2, <2>3, CommitsKept
<1>11. CASE Tick \/ UNCHANGED vars
  BY <1>11, CommitsKept DEF Tick, vars, SameRow
<1>12. QED
  BY <1>2, <1>3, <1>4, <1>5, <1>6, <1>7, <1>8, <1>9, <1>10, <1>11 DEF Next, Progress

-----------------------------------------------------------------------------
(* Every step keeps the advisory lock with the cleanup that deletes.       *)

\* Only a cleanup that took the advisory lock goes on to delete.
LEMMA TurnStep == ASSUME Inv, [Next]_vars PROVE TurnOK'
<1> USE DEF Cleaning
<1>1. cleaner \in [Processes -> Cleaner \cup {Null}]
  BY DEF Inv, Typed
<1>2. ASSUME NEW p \in Processes, TryLock(p) PROVE TurnOK'
  <2>1. cleaner[p] \in Cleaner /\ cleaner[p].pc = "lock"
    BY <1>1, <1>2 DEF TryLock
  <2>2. \A q \in Processes \ {p} : cleaner'[q] = cleaner[q]
    BY <1>1, <1>2 DEF TryLock
  <2>3. CASE turn = Null
    <3>1. turn' = p
      BY <1>2, <2>3 DEF TryLock
    <3>2. \A q \in Processes : ~ Cleaning(q, {"pick", "delete"})
      BY <2>3, NullAssumption DEF Inv, TurnOK
    <3>3. QED
      BY <2>2, <3>1, <3>2 DEF TurnOK
  <2>4. CASE turn # Null
    <3>1. cleaner'[p].pc = "unlock" /\ turn' = turn
      BY <1>1, <1>2, <2>1, <2>4 DEF TryLock, Cleaner
    <3>2. QED
      BY <2>2, <3>1 DEF TurnOK, Inv
  <2>5. QED
    BY <2>3, <2>4
<1>3. ASSUME NEW p \in Processes,
             Pick(p) \/ DeleteEnd(p) \/ \E b \in Buckets : Delete(p, b)
      PROVE  TurnOK'
  <2>1. Cleaning(p, {"pick", "delete"}) /\ UNCHANGED turn
    BY <1>3 DEF Pick, DeleteEnd, Delete
  <2>2. \A q \in Processes \ {p} : cleaner'[q] = cleaner[q]
    BY <1>1, <1>3 DEF Pick, DeleteEnd, Delete
  <2>3. QED
    BY <2>1, <2>2 DEF Inv, TurnOK
<1>4. ASSUME NEW p \in Processes, CleanupFails(p) PROVE TurnOK'
  <2>1. cleaner[p] \in Cleaner /\ UNCHANGED turn
    BY <1>1, <1>4 DEF CleanupFails
  <2>2. cleaner'[p].pc = "unlock" /\ \A q \in Processes \ {p} : cleaner'[q] = cleaner[q]
    BY <1>1, <1>4, <2>1 DEF CleanupFails, Cleaner
  <2>3. QED
    BY <2>1, <2>2 DEF Inv, TurnOK
<1>5. ASSUME NEW p \in Processes, Unlock(p) PROVE TurnOK'
  <2>1. cleaner' = [cleaner EXCEPT ![p] = Null] /\ turn' = IF turn = p THEN Null ELSE turn
    BY <1>5 DEF Unlock
  <2>2. \A q \in Processes : Cleaning(q, {"pick", "delete"})' => q # p /\ Cleaning(q, {"pick", "delete"})
    BY <1>1, <2>1
  <2>3. QED
    BY <2>1, <2>2 DEF Inv, TurnOK
<1>6. ASSUME NEW p \in Processes, Connect(p) PROVE TurnOK'
  <2>1. UNCHANGED turn /\ (UNCHANGED cleaner \/ cleaner' = [cleaner EXCEPT ![p].pc = "lock"])
    BY <1>6 DEF Connect
  <2>2. cleaner[p] \in Cleaner => [cleaner[p] EXCEPT !.pc = "lock"].pc = "lock"
    BY DEF Cleaner
  <2>3. CASE UNCHANGED cleaner
    BY <2>1, <2>3 DEF Inv, TurnOK
  <2>4. CASE cleaner' = [cleaner EXCEPT ![p].pc = "lock"] /\ Head(queue[p]) = Cleanup
    <3>1. Head(queue[p]) \in Standing(queue[p])
      BY <1>6, Leaves DEF Connect, Inv, Typed, QueuesOK
    <3>2. cleaner[p] \in Cleaner
      BY <1>1, <2>4, <3>1 DEF Inv, QueuesOK, InLine
    <3>3. cleaner'[p].pc = "lock" /\ \A q \in Processes \ {p} : cleaner'[q] = cleaner[q]
      BY <1>1, <2>2, <2>4, <3>2
    <3>4. QED
      BY <2>1, <3>3 DEF Inv, TurnOK
  <2>5. QED
    BY <1>6, <2>3, <2>4 DEF Connect
<1>7. ASSUME NEW r \in Requests, Finish(r) PROVE TurnOK'
  <2>1. UNCHANGED turn
    BY <1>7 DEF Finish
  <2>2. \/ UNCHANGED cleaner
        \/ \E p \in Processes, now \in Times : cleaner' = [cleaner EXCEPT ![p] =
              [pc |-> "queued", now |-> now, targets |-> {}, deleted |-> {}, outcome |-> "done"]]
    BY <1>7 DEF Finish, At, Inv, Typed, RequestsTyped, Arrived
  <2>3. \A q \in Processes : Cleaning(q, {"pick", "delete"})' => Cleaning(q, {"pick", "delete"})
    BY <1>1, <2>2
  <2>4. QED
    BY <2>1, <2>3 DEF Inv, TurnOK
<1>8. ASSUME UNCHANGED <<cleaner, turn>> PROVE TurnOK'
  BY <1>8 DEF Inv, TurnOK
<1>9. CASE UNCHANGED <<cleaner, turn>>
  BY <1>8, <1>9
<1>10. QED
  BY <1>2, <1>3, <1>4, <1>5, <1>6, <1>7, <1>9
  DEF Next, Progress, vars, Arrive, Select, Insert, Commit, Fail, AnswerLost, Tick

-----------------------------------------------------------------------------
(* The theorems.                                                           *)

\* The invariant holds when the processes start.
LEMMA InvInit == ASSUME Init PROVE Inv
BY TypedInit DEF Init, Inv, QueuesOK, Orderly, Standing, CommitsOK, TurnOK, At, Cleaning

\* The invariant of the Postgres limiter: types; every waiter stands once in
\* the queue of one pool; commits are atomic; who deletes holds the lock.
THEOREM AlwaysInv == Spec => []Inv
<1>1. Init => Inv
  BY InvInit
<1>2. Inv /\ [Next]_vars => Inv'
  BY TypedStep, QueueStep, CommitsStep, TurnStep DEF Inv
<1>3. QED
  BY <1>1, <1>2, PTL DEF Spec

\* Of all processes at most one deletes windows at a time, however their
\* cleanups interleave and fail (runCleanup, pg_try_advisory_lock).
THEOREM TurnsAreTaken == Spec => []CleanersTakeTurns
<1>1. Inv => CleanersTakeTurns
  BY DEF Inv, TurnOK, CleanersTakeTurns
<1>2. QED
  BY <1>1, AlwaysInv, PTL

\* What a request has answered, or will once it is told that it committed.
Answered(r) ==
    IF At(r) \in {"committed", "joined", "done", "failed"} THEN requests[r].plan ELSE Null

\* Steps that change neither the table nor an answer.
LEMMA Stutters ==
  ASSUME UNCHANGED rows, \A r \in Requests : Answered(r)' = Answered(r)
  PROVE  UNCHANGED Atomic!limiterVars
BY DEF Answered, At, Atomic!limiterVars

\* A COMMIT is the moment of its consume.
LEMMA CommitConsumes ==
  ASSUME Inv, NEW r \in Requests, Commit(r)
  PROVE  Atomic!Next
<1>1. PICK b \in Buckets : b = requests[r].bucket
  BY DEF Commit, At, Inv, Typed, RequestsTyped, Arrived
<1>2. PICK now \in Times : now = requests[r].now
  BY DEF Commit, At, Inv, Typed, RequestsTyped, Arrived
<1>3. requests[r].plan = Atomic!VerdictOn(b, Limit[r], now) /\ At(r) = "commit"
  BY <1>1, <1>2 DEF Commit, Inv, CommitsOK
<1>4. /\ requests'[r].pc = "committed" /\ requests'[r].plan = requests[r].plan
      /\ \A s \in Requests \ {r} : requests'[s] = requests[s]
  BY DEF Commit, Goes, Inv, Typed, RequestsTyped, Request
<1>5. rows' = Atomic!After(b, Atomic!VerdictOn(b, Limit[r], now))
  BY <1>1, <1>3 DEF Commit
<1>6. Atomic!Consume(r, b, now)
  BY <1>3, <1>4, <1>5 DEF Atomic!Consume, At
<1>7. QED
  BY <1>6 DEF Atomic!Next

\* COMMIT is Consume, the end of a DELETE is Forget, all else stutters.
LEMMA AtomicStep == ASSUME Inv, [Next]_vars PROVE [Atomic!Next]_(Atomic!limiterVars)
<1>1. requests \in [Requests -> Request]
  BY DEF Inv, Typed, RequestsTyped
<1>2. ASSUME NEW r \in Requests, Commit(r) PROVE Atomic!Next
  BY <1>2, CommitConsumes
<1>3. ASSUME NEW p \in Processes, DeleteEnd(p) PROVE Atomic!Next
  <2>1. PICK deleted \in SUBSET Buckets : deleted = cleaner[p].deleted
    BY <1>3 DEF DeleteEnd, Cleaning, Inv, Typed, Cleaner
  <2>2. Atomic!Forget(deleted)
    BY <1>3, <2>1 DEF DeleteEnd, Atomic!Forget, At
  <2>3. QED
    BY <2>2 DEF Atomic!Next
<1>4. ASSUME NEW p \in Processes, NEW b \in Buckets, Arrive(p, b)
      PROVE  UNCHANGED Atomic!limiterVars
  BY <1>1, <1>4, Stutters DEF Arrive, Answered, At
<1>5. ASSUME NEW p \in Processes, Connect(p) PROVE UNCHANGED Atomic!limiterVars
  <2>1. CASE Head(queue[p]) = Cleanup
    BY <1>5, <2>1, Stutters DEF Connect, Answered, At
  <2>2. CASE Head(queue[p]) # Cleanup
    <3>1. PICK r \in Requests : r = Head(queue[p]) /\ At(r) = "queued"
      BY <1>5, <2>2, Leaves DEF Connect, Inv, Typed, QueuesOK, InLine
    <3>2. Goes(r, "select")
      BY <1>5, <2>2, <3>1 DEF Connect
    <3>3. QED
      BY <1>1, <1>5, <3>1, <3>2, Stutters DEF Connect, Goes, Answered, At, Request
  <2>3. QED
    BY <2>1, <2>2
<1>6. ASSUME NEW r \in Requests, Select(r) \/ Insert(r) \/ Fail(r)
      PROVE  UNCHANGED Atomic!limiterVars
  <2>1. /\ UNCHANGED rows
        /\ At(r) \in {"select", "insert", "commit"}
        /\ Goes(r, "insert") \/ Fails(r) \/ \E plan : Plans(r, plan)
    BY <1>6 DEF Select, Insert, Fail
  <2>2. \A s \in Requests : Answered(s)' = Answered(s)
    BY <1>1, <2>1 DEF Goes, Fails, Plans, Answered, At, Request
  <2>3. QED
    BY <2>1, <2>2, Stutters
<1>7. ASSUME NEW r \in Requests, AnswerLost(r) \/ Finish(r) PROVE UNCHANGED Atomic!limiterVars
  <2>1. /\ UNCHANGED rows
        /\ At(r) = "committed"
        /\ \E pc \in {"failed", "joined", "done"} : Goes(r, pc)
    BY <1>7 DEF AnswerLost, Finish
  <2>2. \A s \in Requests : Answered(s)' = Answered(s)
    BY <1>1, <2>1 DEF Goes, Answered, At, Request
  <2>3. QED
    BY <2>1, <2>2, Stutters
<1>8. ASSUME NEW p \in Processes, Unlock(p) PROVE UNCHANGED Atomic!limiterVars
  <2>1. cleaner[p].outcome \in {"done", "failed"}
    BY <1>8 DEF Unlock, Cleaning, Inv, Typed, Cleaner
  <2>2. \A s \in Requests : Answered(s)' = Answered(s)
    BY <1>1, <1>8, <2>1 DEF Unlock, Answered, At, Request
  <2>3. QED
    BY <1>8, <2>2, Stutters DEF Unlock
<1>9. CASE UNCHANGED <<rows, requests>>
  BY <1>9, Stutters DEF Answered, At
<1>10. QED
  BY <1>2, <1>3, <1>4, <1>5, <1>6, <1>7, <1>8, <1>9
  DEF Next, Progress, vars, TryLock, Pick, Delete, CleanupFails, Tick

\* Whatever the interleaving of queries, failures and cleanups, every consume
\* that is answered took effect at once, at its COMMIT, on the window of that
\* moment: no count is lost and no place is given away twice (consume).
THEOREM PostgresIsAtomic == Spec => ConsumesAreAtomic
<1>1. Init => Atomic!Init
  BY DEF Init, At, Atomic!Init
<1>2. Inv /\ [Next]_vars => [Atomic!Next]_(Atomic!limiterVars)
  BY AtomicStep
<1>3. QED
  BY <1>1, <1>2, AlwaysInv, PTL DEF Spec, ConsumesAreAtomic, Atomic!Spec
=============================================================================
