---------------------------- MODULE ReadApiProofs ---------------------------
(***************************************************************************)
(* The paged reads for every number of clients and records, any page       *)
(* sizes, limits and windows: pages miss nothing, who stops by the total   *)
(* misses little, ascending pages of transactions are the list itself, and *)
(* what the in-memory rate limiter promises.                               *)
(***************************************************************************)
EXTENDS ReadApi, FiniteSetTheorems, SequenceTheorems, TLAPS

-----------------------------------------------------------------------------
(* Lists.  A record's rank is the number of visible records before it; it  *)
(* is the record's place in the sorted list.                               *)

LogEntry == [at : Times, users : SUBSET Users, lists : SUBSET {"transactions", "audit-logs"}]

Ahead(records, order, i) == {j \in records : Before(order, j, i)}

Rank(records, order, i) == Cardinality(Ahead(records, order, i))

LEMMA LogTyped ==
  ASSUME log \in Seq(LogEntry)
  PROVE  /\ Len(log) \in Nat /\ DOMAIN log = 1 .. Len(log)
         /\ \A i \in DOMAIN log : log[i].at \in Nat /\ log[i].users \subseteq Users
<1>1. DOMAIN log = 1 .. Len(log) /\ Len(log) \in Nat
  BY LenProperties
<1>2. \A i \in DOMAIN log : log[i] \in LogEntry
  BY <1>1, ElementOfSeq
<1>3. Times \subseteq Nat
  BY BoundAssumption DEF Times
<1>4. QED
  BY <1>1, <1>2, <1>3 DEF LogEntry

\* Either order puts any two records one after the other.
LEMMA BeforeIsOrder ==
  ASSUME log \in Seq(LogEntry), NEW order
  PROVE  /\ \A i \in DOMAIN log : ~ Before(order, i, i)
         /\ \A i, j \in DOMAIN log : i # j => Before(order, i, j) \/ Before(order, j, i)
         /\ \A i, j, k \in DOMAIN log : Before(order, i, j) /\ Before(order, j, k) => Before(order, i, k)
<1>1. DOMAIN log \subseteq Nat /\ \A i \in DOMAIN log : log[i].at \in Nat
  BY LogTyped
<1>2. QED
  BY <1>1 DEF Before

LEMMA RanksDiffer ==
  ASSUME log \in Seq(LogEntry), NEW order, NEW records \in SUBSET DOMAIN log
  PROVE  /\ IsFiniteSet(records) /\ Cardinality(records) \in Nat
         /\ \A i \in DOMAIN log : IsFiniteSet(Ahead(records, order, i)) /\ Rank(records, order, i) \in Nat
         /\ \A i \in records : Rank(records, order, i) < Cardinality(records)
         /\ \A i, j \in records : i # j => Rank(records, order, i) # Rank(records, order, j)
<1>1. IsFiniteSet(records) /\ Cardinality(records) \in Nat
  <2>1. PICK n \in Nat : n = Len(log) /\ DOMAIN log = 1 .. n
    BY LogTyped
  <2>2. IsFiniteSet(1 .. n)
    BY FS_Interval
  <2>3. IsFiniteSet(records)
    BY <2>1, <2>2, FS_Subset
  <2>4. QED
    BY <2>3, FS_CardinalityType
<1>2. \A i \in DOMAIN log : IsFiniteSet(Ahead(records, order, i)) /\ Rank(records, order, i) \in Nat
  BY <1>1, FS_Subset, FS_CardinalityType DEF Ahead, Rank
<1>3. ASSUME NEW i \in records
      PROVE  Rank(records, order, i) < Cardinality(records)
  <2>1. Ahead(records, order, i) \in SUBSET records /\ Ahead(records, order, i) # records
    BY BeforeIsOrder DEF Ahead
  <2>2. QED
    BY <1>1, <1>2, <2>1, FS_Subset DEF Rank
<1>4. ASSUME NEW i \in records, NEW j \in records, Before(order, i, j)
      PROVE  Rank(records, order, i) # Rank(records, order, j)
  <2>1. Ahead(records, order, i) \in SUBSET Ahead(records, order, j)
    BY <1>4, BeforeIsOrder DEF Ahead
  <2>2. i \in Ahead(records, order, j) /\ i \notin Ahead(records, order, i)
    BY <1>4, BeforeIsOrder DEF Ahead
  <2>3. QED
    BY <1>2, <2>1, <2>2, FS_Subset DEF Rank
<1>5. QED
  BY <1>1, <1>2, <1>3, <1>4, BeforeIsOrder

\* The sorted list has every record at its rank, and nothing else.
LEMMA SortedPlaces ==
  ASSUME log \in Seq(LogEntry), NEW order, NEW records \in SUBSET DOMAIN log
  PROVE  /\ Sorted(records, order) \in Seq(records)
         /\ Len(Sorted(records, order)) = Cardinality(records)
         /\ \A n \in 1 .. Cardinality(records) :
               /\ Sorted(records, order)[n] \in records
               /\ Rank(records, order, Sorted(records, order)[n]) = n - 1
         /\ \A i \in records : Sorted(records, order)[Rank(records, order, i) + 1] = i
<1> DEFINE rank == [i \in records |-> Rank(records, order, i)]
           list == Sorted(records, order)
<1>1. PICK c \in Nat : c = Cardinality(records) /\ IsFiniteSet(records)
  BY RanksDiffer
<1>2. \A i \in records : Rank(records, order, i) \in 0 .. c - 1
  BY <1>1, RanksDiffer
<1>3. rank \in Injection(records, 0 .. c - 1)
  <2>1. rank \in [records -> 0 .. c - 1]
    BY <1>2
  <2>2. \A i, j \in records : rank[i] = rank[j] => i = j
    BY RanksDiffer
  <2>3. QED
    BY <2>1, <2>2 DEF Injection, IsInjective
<1>4. IsFiniteSet(0 .. c - 1) /\ Cardinality(0 .. c - 1) = c
  <2>1. c - 1 \in Int /\ (IF 0 > c - 1 THEN 0 ELSE c - 1 - 0 + 1) = c
    BY <1>1
  <2>2. QED
    BY <2>1, FS_Interval
<1>5. rank \in Surjection(records, 0 .. c - 1)
  <2> HIDE DEF rank
  <2> QED BY <1>1, <1>3, <1>4, FS_Injection
<1>6. \A n \in 1 .. c : \E i \in records : Rank(records, order, i) = n - 1
  <2>1. \A k \in 0 .. c - 1 : \E i \in records : rank[i] = k
    <3> HIDE DEF rank
    <3> QED BY <1>5 DEF Surjection
  <2>2. \A n \in 1 .. c : n - 1 \in 0 .. c - 1
    BY <1>1
  <2>3. QED
    BY <2>1, <2>2
<1>7. \A n \in 1 .. c : list[n] \in records /\ Rank(records, order, list[n]) = n - 1
  BY <1>1, <1>6 DEF Sorted, Rank, Ahead
<1>8. list \in [1 .. c -> records]
  BY <1>1, <1>7 DEF Sorted
<1>9. list \in Seq(records) /\ Len(list) = c
  <2>1. list \in Seq(records)
    <3> HIDE DEF list
    <3> QED BY <1>1, <1>8
  <2>2. QED
    BY <1>1, <1>8, <2>1, LenProperties
<1>10. ASSUME NEW i \in records PROVE list[Rank(records, order, i) + 1] = i
  <2>1. Rank(records, order, i) + 1 \in 1 .. c
    BY <1>1, <1>2
  <2>2. list[Rank(records, order, i) + 1] \in records
        /\ Rank(records, order, list[Rank(records, order, i) + 1]) = Rank(records, order, i)
    BY <1>2, <1>7, <2>1
  <2>3. QED
    BY <2>2, RanksDiffer
<1>11. QED
  BY <1>1, <1>7, <1>9, <1>10

-----------------------------------------------------------------------------
(* Types, and what a request does to the windows.                          *)

AllBuckets == {Bucket(r) : r \in Readers}

Reader ==
    [pc : {"idle", "ask", "count", "list", "done"}, page : Nat, total : Nat,
     start : SUBSET Nat, known : SUBSET Nat, late : Nat, seen : Seq(Nat),
     deniedBy : Nat \cup {Null}, denials : Nat, retryAt : Nat]

ReadTyped ==
    /\ clock \in Times /\ steady \in BOOLEAN
    /\ log \in Seq(LogEntry)
    /\ expiring \in Times \cup {Null}
    /\ DOMAIN windows \subseteq AllBuckets
    /\ \A b \in DOMAIN windows : windows[b].count \in Nat \ {0} /\ windows[b].resetAt \in Nat
    /\ grants \in [AllBuckets -> [Times -> Nat]]
    /\ readers \in [Readers -> Reader]

\* The request of r on its bucket is let through, in a new window or in the one
\* on record, with what the window has then.
LetThrough(r, w) ==
    LET b == Bucket(r) IN
    \/ /\ b \in DOMAIN windows => clock >= windows[b].resetAt
       /\ w.count = 1 /\ w.resetAt = clock + Window
    \/ /\ b \in DOMAIN windows /\ clock < windows[b].resetAt
       /\ windows[b].count < LimitOf(r)
       /\ w.count = windows[b].count + 1 /\ w.resetAt = windows[b].resetAt

LEMMA LimitsType ==
  /\ \A r \in Readers : LimitOf(r) \in Nat \ {0} /\ PageSize(r) \in Nat \ {0}
  /\ {Window, Second} \subseteq Nat \ {0}
  /\ Times \subseteq Nat
BY LimitsAssumption, ReadersAssumption, BoundAssumption DEF LimitOf, PageSize, LeastOf, Times

\* After a request: it was denied by the window on record and changes none, or
\* it was let through; then other windows are as before or had ended.
LEMMA AskEffect ==
  ASSUME ReadTyped, NEW r \in Readers, Ask(r)
  PROVE  \/ /\ Bucket(r) \in DOMAIN windows /\ clock < windows[Bucket(r)].resetAt
            /\ UNCHANGED <<windows, grants>>
            /\ readers' = [readers EXCEPT
                  ![r].deniedBy = windows[Bucket(r)].resetAt,
                  ![r].denials = IF readers[r].deniedBy = windows[Bucket(r)].resetAt
                                 THEN readers[r].denials + 1 ELSE 1,
                  ![r].retryAt = clock + Second * RetryAfter(windows[Bucket(r)].resetAt, clock)]
         \/ /\ \E w : /\ LetThrough(r, w)
                      /\ Bucket(r) \in DOMAIN windows' =>
                            windows'[Bucket(r)].count = w.count /\ windows'[Bucket(r)].resetAt = w.resetAt
                      /\ Bucket(r) \notin DOMAIN windows' => clock >= w.resetAt
            /\ DOMAIN windows' \subseteq DOMAIN windows \cup {Bucket(r)}
            /\ \A c \in DOMAIN windows \ {Bucket(r)} :
                  IF c \in DOMAIN windows' THEN windows'[c] = windows[c] ELSE clock >= windows[c].resetAt
            /\ grants' = [grants EXCEPT ![Bucket(r)][clock] = @ + 1]
            /\ readers' = [readers EXCEPT
                  ![r].pc = IF r.scope = "audit-logs" THEN "count" ELSE "list",
                  ![r].deniedBy = Null, ![r].denials = 0, ![r].retryAt = 0]
<1> DEFINE b == Bucket(r)
<1>1. PICK v : v = Limiter!VerdictOn(b, LimitOf(r), clock)
  OBVIOUS
<1>2. CASE ~ v.allowed
  <2>1. b \in DOMAIN windows /\ clock < windows[b].resetAt /\ v.resetAt = windows[b].resetAt
    <3>1. clock \in Nat /\ \A c \in DOMAIN windows : windows[c].resetAt \in Nat
      BY LimitsType DEF ReadTyped
    <3>2. QED
      BY <1>1, <1>2, <3>1 DEF Limiter!VerdictOn, Limiter!Opened, Limiter!Ended, Limiter!Counted, Limiter!Verdict
  <2>2. windows' = windows
    BY <1>1, <1>2 DEF Ask, WindowsAfter, Limiter!After
  <2>3. QED
    BY <1>1, <1>2, <2>1, <2>2 DEF Ask
<1>3. CASE v.allowed
  <2>1. PICK after : after = Limiter!After(b, v)
    OBVIOUS
  <2>2. /\ DOMAIN after = DOMAIN windows \cup {b}
        /\ after[b].count = v.count /\ after[b].resetAt = v.resetAt
        /\ \A c \in DOMAIN windows \ {b} : after[c] = windows[c]
    BY <1>3, <2>1 DEF Limiter!After
  <2>3. LetThrough(r, v)
    <3>1. clock \in Nat /\ \A c \in DOMAIN windows : windows[c].resetAt \in Nat /\ windows[c].count \in Nat
      BY LimitsType DEF ReadTyped
    <3>2. QED
      BY <1>1, <1>3, <3>1, LimitsType DEF LetThrough, Limiter!VerdictOn, Limiter!Opened, Limiter!Ended,
         Limiter!Counted, Limiter!Verdict
  <2>4. windows' = after \/ windows' = Without({c \in DOMAIN after : Limiter!Ended(after[c], clock)}, after)
    BY <1>1, <1>3, <2>1 DEF Ask, WindowsAfter, Cleared
  <2>5. /\ DOMAIN windows' \subseteq DOMAIN after
        /\ \A c \in DOMAIN after :
              IF c \in DOMAIN windows' THEN windows'[c] = after[c] ELSE clock >= after[c].resetAt
    BY <2>4 DEF Without, Limiter!Ended
  <2>6. /\ grants' = [grants EXCEPT ![b][clock] = @ + 1]
        /\ readers' = [readers EXCEPT
              ![r].pc = IF r.scope = "audit-logs" THEN "count" ELSE "list",
              ![r].deniedBy = Null, ![r].denials = 0, ![r].retryAt = 0]
    BY <1>1, <1>3 DEF Ask
  <2>7. QED
    BY <2>2, <2>3, <2>5, <2>6
<1>4. QED
  BY <1>2, <1>3

\* A page holds the visible records whose ranks lie on it.
LEMMA PageHolds ==
  ASSUME log \in Seq(LogEntry), NEW r \in Readers, NEW page \in Nat \ {0}
  PROVE  LET list == Sorted(Visible(r), r.order)
             first == (page - 1) * PageSize(r)
             last == LeastOf(page * PageSize(r), Cardinality(Visible(r)))
         IN  /\ Page(r, page) \in Seq(Visible(r))
             /\ Len(Page(r, page)) = IF first < last THEN last - first ELSE 0
             /\ \A k \in 1 .. last - first : Page(r, page)[k] = list[first + k]
<1> DEFINE V == Visible(r)
           list == Sorted(V, r.order)
<1>1. V \subseteq DOMAIN log
  BY DEF Visible
<1>2. PICK c \in Nat : c = Cardinality(V)
  BY <1>1, RanksDiffer
<1>3. list \in Seq(V) /\ Len(list) = c /\ \A n \in 1 .. c : list[n] \in V
  BY <1>1, <1>2, SortedPlaces
<1>4. PICK s \in Nat \ {0} : s = PageSize(r)
  BY LimitsType
<1>5. PICK first \in Nat : first = (page - 1) * s
  OBVIOUS
<1>6. PICK last \in Nat : last = LeastOf(page * s, c) /\ last <= c
  BY <1>2 DEF LeastOf
<1>7. \A i \in first + 1 .. last : list[i] \in V
  BY <1>3, <1>6
<1>8. Page(r, page) = SubSeq(list, first + 1, last)
  BY <1>2, <1>3, <1>4, <1>5, <1>6 DEF Page, Slice
<1>9. /\ SubSeq(list, first + 1, last) \in Seq(V)
      /\ Len(SubSeq(list, first + 1, last)) = IF first + 1 <= last THEN last - (first + 1) + 1 ELSE 0
      /\ \A k \in 1 .. last - (first + 1) + 1 : SubSeq(list, first + 1, last)[k] = list[first + 1 + k - 1]
  <2> HIDE DEF list, V
  <2>1. first + 1 \in Int /\ last \in Int
    OBVIOUS
  <2>2. QED
    BY <1>7, <2>1, SubSeqProperties
<1>10. QED
  <2> HIDE DEF list, V
  <2>1. /\ Page(r, page) \in Seq(V)
        /\ Len(Page(r, page)) = IF first < last THEN last - first ELSE 0
        /\ \A k \in 1 .. last - first : Page(r, page)[k] = list[first + k]
    <3>1. Len(Page(r, page)) = IF first < last THEN last - first ELSE 0
      BY <1>8, <1>9
    <3>2. ASSUME NEW k \in 1 .. last - first PROVE Page(r, page)[k] = list[first + k]
      <4>1. k \in 1 .. last - (first + 1) + 1 /\ first + 1 + k - 1 = first + k
        OBVIOUS
      <4>2. QED
        BY <1>8, <1>9, <4>1
    <3>3. QED
      BY <1>8, <1>9, <3>1, <3>2
  <2>2. QED
    BY <1>2, <1>4, <1>5, <1>6, <2>1 DEF list, V

\* Where a client stands between its requests.
Reading(r) == readers[r].pc \in {"ask", "count", "list"}

PagesNumbered == \A r \in Readers : Reading(r) => readers[r].page >= 1

\* The steps that add a record.
Adding ==
    \/ \E users \in SUBSET Users : Post(users) \/ \E now \in Times : Sweep(users, now)
    \/ Mark

\* Each adds one record and disturbs no client; transactions have the time of
\* the clock.
LEMMA AddsOne ==
  ASSUME ReadTyped, Adding
  PROVE  /\ \E entry \in LogEntry : /\ log' = Append(log, entry)
                                    /\ "transactions" \in entry.lists => entry.at = clock
         /\ UNCHANGED <<clock, steady, windows, grants, readers>>
         /\ expiring' \in Times \cup {Null}
<1>1. clock \in Times /\ expiring \in Times \cup {Null}
  BY DEF ReadTyped
<1>2. \A users \in SUBSET Users : Posted(users) \in LogEntry /\ Posted(users).at = clock
  BY <1>1 DEF Posted, LogEntry
<1>3. CASE \E users \in SUBSET Users : Post(users)
  BY <1>1, <1>2, <1>3 DEF Post, Adds
<1>4. CASE \E users \in SUBSET Users, now \in Times : Sweep(users, now)
  BY <1>2, <1>4 DEF Sweep, Adds
<1>5. CASE Mark
  <2>1. PICK entry : entry = [at |-> expiring, users |-> {}, lists |-> {"audit-logs"}]
    OBVIOUS
  <2>2. entry \in LogEntry /\ "transactions" \notin entry.lists
    BY <1>1, <1>5, <2>1 DEF Mark, LogEntry
  <2>3. QED
    BY <1>5, <2>1, <2>2 DEF Mark, Adds
<1>6. QED
  BY <1>3, <1>4, <1>5 DEF Adding

LEMMA TypedStep ==
  ASSUME ReadTyped, PagesNumbered, [Next]_vars
  PROVE  ReadTyped' /\ PagesNumbered'
<1>1. /\ \A r \in Readers : readers[r] \in Reader
      /\ clock \in Nat /\ Len(log) \in Nat /\ DOMAIN log \subseteq Nat
      /\ Window \in Nat \ {0} /\ Second \in Nat \ {0}
  <2>1. Len(log) \in Nat /\ DOMAIN log \subseteq Nat
    BY LogTyped DEF ReadTyped
  <2>2. QED
    BY <2>1, LimitsType DEF ReadTyped
<1>2. ASSUME NEW r \in Readers, Start(r) PROVE ReadTyped' /\ PagesNumbered'
  <2>1. Visible(r) \in SUBSET Nat
    BY <1>1 DEF Visible
  <2>2. [readers[r] EXCEPT !.pc = "ask", !.page = 1, !.start = Visible(r)] \in Reader
    BY <1>1, <2>1 DEF Reader
  <2>3. readers' = [readers EXCEPT ![r] = [readers[r] EXCEPT !.pc = "ask", !.page = 1, !.start = Visible(r)]]
    BY <1>2 DEF Start
  <2>4. readers' \in [Readers -> Reader]
    BY <2>2, <2>3 DEF ReadTyped
  <2>5. readers'[r].page = 1 /\ \A q \in Readers : q # r => readers'[q] = readers[q]
    BY <1>1, <2>3 DEF ReadTyped, Reader
  <2>6. PagesNumbered'
    BY <2>5 DEF PagesNumbered, Reading
  <2>7. QED
    BY <1>2, <2>4, <2>6 DEF Start, ReadTyped, LogEntry
<1>3. ASSUME NEW r \in Readers, Ask(r) PROVE ReadTyped' /\ PagesNumbered'
  <2>1. readers[r].pc = "ask" /\ UNCHANGED <<clock, steady, log, expiring>>
    BY <1>3 DEF Ask
  <2>2. Bucket(r) \in AllBuckets
    BY DEF AllBuckets
  <2>3. CASE /\ UNCHANGED <<windows, grants>>
             /\ Bucket(r) \in DOMAIN windows /\ clock < windows[Bucket(r)].resetAt
             /\ readers' = [readers EXCEPT
                  ![r].deniedBy = windows[Bucket(r)].resetAt,
                  ![r].denials = IF readers[r].deniedBy = windows[Bucket(r)].resetAt
                                 THEN readers[r].denials + 1 ELSE 1,
                  ![r].retryAt = clock + Second * RetryAfter(windows[Bucket(r)].resetAt, clock)]
    <3>1. PICK d \in Nat, n \in Nat, t \in Nat :
             readers' = [readers EXCEPT ![r].deniedBy = d, ![r].denials = n, ![r].retryAt = t]
      <4>1. windows[Bucket(r)].resetAt \in Nat
        BY <2>3 DEF ReadTyped
      <4>2. RetryAfter(windows[Bucket(r)].resetAt, clock) \in Nat
        BY <1>1, <2>3, <4>1 DEF RetryAfter
      <4>3. clock + Second * RetryAfter(windows[Bucket(r)].resetAt, clock) \in Nat
        BY <1>1, <4>2
      <4>4. readers[r].denials \in Nat
        BY <1>1 DEF Reader
      <4>5. (IF readers[r].deniedBy = windows[Bucket(r)].resetAt THEN readers[r].denials + 1 ELSE 1) \in Nat
        BY <4>4
      <4>6. QED
        BY <2>3, <4>1, <4>3, <4>5
    <3>2. [readers[r] EXCEPT !.deniedBy = d, !.denials = n, !.retryAt = t] \in Reader
      BY <1>1 DEF Reader
    <3>3. readers' = [readers EXCEPT ![r] = [readers[r] EXCEPT !.deniedBy = d, !.denials = n, !.retryAt = t]]
      BY <3>1
    <3>4. readers' \in [Readers -> Reader] /\ PagesNumbered'
      BY <1>1, <3>2, <3>3 DEF ReadTyped, PagesNumbered, Reading, Reader
    <3>5. QED
      BY <2>1, <2>3, <3>4 DEF ReadTyped, LogEntry
  <2>4. ASSUME NEW w, LetThrough(r, w),
               Bucket(r) \in DOMAIN windows' =>
                  windows'[Bucket(r)].count = w.count /\ windows'[Bucket(r)].resetAt = w.resetAt,
               DOMAIN windows' \subseteq DOMAIN windows \cup {Bucket(r)},
               \A c \in DOMAIN windows \ {Bucket(r)} :
                  IF c \in DOMAIN windows' THEN windows'[c] = windows[c] ELSE clock >= windows[c].resetAt,
               grants' = [grants EXCEPT ![Bucket(r)][clock] = @ + 1],
               readers' = [readers EXCEPT
                  ![r].pc = IF r.scope = "audit-logs" THEN "count" ELSE "list",
                  ![r].deniedBy = Null, ![r].denials = 0, ![r].retryAt = 0]
        PROVE  ReadTyped' /\ PagesNumbered'
    <3>1. w.count \in Nat \ {0} /\ w.resetAt \in Nat
      BY <1>1, <2>4 DEF LetThrough, ReadTyped
    <3>2. /\ DOMAIN windows' \subseteq AllBuckets
          /\ \A b \in DOMAIN windows' : windows'[b].count \in Nat \ {0} /\ windows'[b].resetAt \in Nat
      BY <2>2, <2>4, <3>1 DEF ReadTyped
    <3>3. grants' \in [AllBuckets -> [Times -> Nat]]
      BY <2>2, <2>4 DEF ReadTyped
    <3>4. PICK pc \in {"count", "list"} : pc = IF r.scope = "audit-logs" THEN "count" ELSE "list"
      OBVIOUS
    <3>5. [readers[r] EXCEPT !.pc = pc, !.deniedBy = Null, !.denials = 0, !.retryAt = 0] \in Reader
      BY <1>1 DEF Reader
    <3>6. readers' = [readers EXCEPT ![r] =
              [readers[r] EXCEPT !.pc = pc, !.deniedBy = Null, !.denials = 0, !.retryAt = 0]]
      BY <2>4, <3>4
    <3>7. readers' \in [Readers -> Reader] /\ PagesNumbered'
      BY <1>1, <2>1, <3>5, <3>6 DEF ReadTyped, PagesNumbered, Reading, Reader
    <3>8. QED
      BY <2>1, <3>2, <3>3, <3>7 DEF ReadTyped, LogEntry
  <2>5. QED
    BY <1>3, <2>3, <2>4, AskEffect
<1>4. ASSUME NEW r \in Readers, Count(r) PROVE ReadTyped' /\ PagesNumbered'
  <2>1. Cardinality(Visible(r)) \in Nat
    <3>1. Visible(r) \in SUBSET DOMAIN log
      BY DEF Visible
    <3>2. QED
      BY <3>1, RanksDiffer DEF ReadTyped
  <2>8. Visible(r) \in SUBSET Nat
    BY <1>1 DEF Visible
  <2>2. [readers[r] EXCEPT !.pc = "list", !.total = Total(r), !.known = Visible(r)] \in Reader
    BY <1>1, <2>1, <2>8 DEF Reader, Total
  <2>3. readers' = [readers EXCEPT ![r] =
            [readers[r] EXCEPT !.pc = "list", !.total = Total(r), !.known = Visible(r)]]
    BY <1>4 DEF Count
  <2>4. readers' \in [Readers -> Reader]
    BY <1>1, <2>2, <2>3 DEF ReadTyped
  <2>5. \A q \in Readers : readers'[q].page = readers[q].page /\ (Reading(q)' => Reading(q))
    BY <1>1, <1>4, <2>3 DEF ReadTyped, Reading, Reader, Count
  <2>6. PagesNumbered'
    BY <2>5 DEF PagesNumbered
  <2>7. QED
    BY <1>4, <2>4, <2>6 DEF Count, ReadTyped, LogEntry
<1>5. ASSUME NEW r \in Readers, List(r) PROVE ReadTyped' /\ PagesNumbered'
  <2>1. readers[r].page \in Nat \ {0}
    BY <1>1, <1>5 DEF List, PagesNumbered, Reading, Reader
  <2>2. Page(r, readers[r].page) \in Seq(Nat)
    <3>1. Page(r, readers[r].page) \in Seq(Visible(r))
      BY <2>1, PageHolds DEF ReadTyped
    <3>2. Visible(r) \subseteq Nat
      BY <1>1 DEF Visible
    <3>3. QED
      BY <3>1, <3>2, SeqMonotonic
  <2>3. PICK seen \in Seq(Nat) : seen = readers[r].seen \o Page(r, readers[r].page)
    BY <1>1, <2>2, ConcatProperties DEF Reader
  <2>12. PICK late \in Nat : late = Cardinality(Visible(r) \ readers[r].known)
    <3>1. Visible(r) \ readers[r].known \in SUBSET DOMAIN log
      BY DEF Visible
    <3>2. QED
      BY <3>1, RanksDiffer DEF ReadTyped
  <2>4. PICK pc \in {"ask", "done"}, page \in Nat \ {0} :
           readers' = [readers EXCEPT ![r].pc = pc, ![r].page = page, ![r].total = 0,
                                      ![r].known = {}, ![r].late = late, ![r].seen = seen]
    <3>1. PICK page \in {readers[r].page, readers[r].page + 1}, pc \in {"ask", "done"} :
             readers' = [readers EXCEPT ![r].pc = pc, ![r].page = page, ![r].total = 0,
                                        ![r].known = {}, ![r].late = late, ![r].seen = seen]
      BY <1>5, <2>3, <2>12 DEF List
    <3>2. page \in Nat \ {0}
      BY <2>1
    <3>3. QED
      BY <3>1, <3>2
  <2>5. [readers[r] EXCEPT !.pc = pc, !.page = page, !.total = 0,
                           !.known = {}, !.late = late, !.seen = seen] \in Reader
    BY <1>1 DEF Reader
  <2>6. readers' = [readers EXCEPT ![r] = [readers[r] EXCEPT !.pc = pc, !.page = page, !.total = 0,
                                                             !.known = {}, !.late = late, !.seen = seen]]
    BY <2>4
  <2>7. readers' \in [Readers -> Reader]
    BY <1>1, <2>5, <2>6 DEF ReadTyped
  <2>8. \A q \in Readers : q # r => readers'[q] = readers[q]
    BY <2>6 DEF ReadTyped
  <2>9. readers'[r].page = page
    BY <1>1, <2>6 DEF ReadTyped, Reader
  <2>10. PagesNumbered'
    BY <2>8, <2>9 DEF PagesNumbered, Reading
  <2>11. QED
    BY <1>5, <2>7, <2>10 DEF List, ReadTyped, LogEntry
<1>6. CASE Adding
  <2>1. PICK entry \in LogEntry : log' = Append(log, entry)
    BY <1>6, AddsOne
  <2>2. log' \in Seq(LogEntry)
    BY <2>1, AppendProperties DEF ReadTyped
  <2>3. UNCHANGED <<clock, steady, windows, grants, readers>> /\ expiring' \in Times \cup {Null}
    BY <1>6, AddsOne
  <2>4. QED
    BY <2>2, <2>3 DEF ReadTyped, PagesNumbered, Reading, LogEntry
<1>7. CASE Tick
  <2>1. clock' \in Times
    BY <1>1, <1>7, BoundAssumption DEF Tick, Times
  <2>2. QED
    BY <1>7, <2>1 DEF Tick, ReadTyped, PagesNumbered, Reading, LogEntry
<1>8. CASE SetBack
  <2>1. clock' \in Times
    BY <1>8, BoundAssumption DEF SetBack, Times
  <2>2. QED
    BY <1>8, <2>1 DEF SetBack, ReadTyped, PagesNumbered, Reading, LogEntry
<1>9. CASE UNCHANGED vars
  BY <1>9 DEF vars, ReadTyped, PagesNumbered, Reading, LogEntry
<1>10. QED
  BY <1>2, <1>3, <1>4, <1>5, <1>6, <1>7, <1>8, <1>9 DEF Next, Adding

-----------------------------------------------------------------------------
(* Retry-After.                                                            *)

\* Who was denied comes back when the window that denied it has ended.
DeniedOnce ==
    \A r \in Readers :
        IF readers[r].deniedBy = Null THEN readers[r].denials = 0
        ELSE readers[r].denials <= 1 /\ readers[r].retryAt >= readers[r].deniedBy

\* Waiting the seconds of Retry-After reaches the end of the window.
LEMMA RetryAfterReaches ==
  ASSUME NEW now \in Nat, NEW resetAt \in Nat, now < resetAt
  PROVE  now + Second * RetryAfter(resetAt, now) >= resetAt
<1>1. PICK s \in Nat \ {0} : s = Second
  BY LimitsType
<1>2. PICK x \in Nat : x = resetAt - now + s - 1
  BY <1>1
<1>3. PICK q \in Int, m \in 0 .. s - 1 : q = x \div s /\ x = s * q + m
  BY <1>1, <1>2
<1>4. s * q >= x - (s - 1)
  <2>1. s * q \in Int
    BY <1>1, <1>3
  <2>2. QED
    BY <1>1, <1>2, <1>3, <2>1
<1>5. q >= 1
  <2>1. s * q >= 1
    BY <1>1, <1>2, <1>3, <1>4
  <2>2. CASE q <= 0
    <3>1. s * q <= 0
      BY <1>1, <1>3, <2>2
    <3>2. QED
      BY <1>1, <1>3, <2>1, <3>1
  <2>3. QED
    BY <1>3, <2>2
<1>6. RetryAfter(resetAt, now) = q
  BY <1>1, <1>2, <1>3, <1>5 DEF RetryAfter
<1>7. s * q \in Int
  BY <1>1, <1>3
<1>8. QED
  BY <1>1, <1>2, <1>4, <1>6, <1>7

LEMMA DeniedStep ==
  ASSUME ReadTyped, DeniedOnce, [Next]_vars
  PROVE  DeniedOnce'
<1>1. \A r \in Readers : readers[r] \in Reader
  BY DEF ReadTyped
<1>2. ASSUME NEW r \in Readers, Ask(r) PROVE DeniedOnce'
  <2>1. CASE /\ Bucket(r) \in DOMAIN windows /\ clock < windows[Bucket(r)].resetAt
             /\ readers' = [readers EXCEPT
                  ![r].deniedBy = windows[Bucket(r)].resetAt,
                  ![r].denials = IF readers[r].deniedBy = windows[Bucket(r)].resetAt
                                 THEN readers[r].denials + 1 ELSE 1,
                  ![r].retryAt = clock + Second * RetryAfter(windows[Bucket(r)].resetAt, clock)]
    <3>1. PICK resetAt \in Nat : resetAt = windows[Bucket(r)].resetAt
      BY <2>1 DEF ReadTyped
    <3>2. clock \in Nat /\ clock >= readers[r].retryAt
      BY <1>2, LimitsType DEF Ask, ReadTyped
    <3>3. readers[r].deniedBy # resetAt
      <4>1. readers[r].deniedBy \in Nat => readers[r].deniedBy <= clock
        <5>1. readers[r].retryAt \in Nat
          BY <1>1 DEF Reader
        <5>2. QED
          BY <3>2, <5>1, NullAssumption DEF DeniedOnce
      <4>2. QED
        BY <2>1, <3>1, <3>2, <4>1
    <3>4. clock + Second * RetryAfter(resetAt, clock) >= resetAt
      BY <2>1, <3>1, <3>2, RetryAfterReaches
    <3>5. /\ readers'[r].deniedBy = resetAt /\ readers'[r].denials = 1
          /\ readers'[r].retryAt >= resetAt
          /\ \A q \in Readers : q # r => readers'[q] = readers[q]
      BY <1>1, <2>1, <3>1, <3>3, <3>4 DEF ReadTyped, Reader
    <3>6. QED
      BY <3>5, NullAssumption DEF DeniedOnce
  <2>2. CASE readers' = [readers EXCEPT
                ![r].pc = IF r.scope = "audit-logs" THEN "count" ELSE "list",
                ![r].deniedBy = Null, ![r].denials = 0, ![r].retryAt = 0]
    <3>1. /\ readers'[r].deniedBy = Null /\ readers'[r].denials = 0
          /\ \A q \in Readers : q # r => readers'[q] = readers[q]
      BY <1>1, <2>2 DEF ReadTyped, Reader
    <3>2. QED
      BY <3>1 DEF DeniedOnce
  <2>3. QED
    BY <1>2, <2>1, <2>2, AskEffect
<1>3. CASE \A q \in Readers : /\ readers'[q].deniedBy = readers[q].deniedBy
                              /\ readers'[q].denials = readers[q].denials
                              /\ readers'[q].retryAt = readers[q].retryAt
  BY <1>3 DEF DeniedOnce
<1>4. ASSUME NEW r \in Readers, Start(r) \/ Count(r) \/ List(r)
      PROVE  \A q \in Readers : /\ readers'[q].deniedBy = readers[q].deniedBy
                                /\ readers'[q].denials = readers[q].denials
                                /\ readers'[q].retryAt = readers[q].retryAt
  <2>1. CASE Start(r)
    BY <1>1, <2>1 DEF Start, ReadTyped, Reader
  <2>2. CASE Count(r)
    BY <1>1, <2>2 DEF Count, ReadTyped, Reader
  <2>3. CASE List(r)
    BY <1>1, <2>3 DEF List, ReadTyped, Reader
  <2>4. QED
    BY <1>4, <2>1, <2>2, <2>3
<1>5. CASE Adding \/ Tick \/ SetBack \/ UNCHANGED vars
  <2>1. UNCHANGED readers
    BY <1>5, AddsOne DEF Tick, SetBack, vars
  <2>2. QED
    BY <2>1 DEF DeniedOnce
<1>6. QED
  BY <1>2, <1>3, <1>4, <1>5 DEF Next, Adding

-----------------------------------------------------------------------------
(* The rate.                                                               *)

\* Bucket b was granted what its window has counted, which is within the limit
\* of one of those who share it.
WindowOK(b) ==
    LET granted == Granted(b, windows[b].resetAt - Window, windows[b].resetAt) IN
    /\ windows[b].resetAt >= Window
    /\ windows[b].resetAt <= clock + Window
    /\ IsFiniteSet(granted) /\ Cardinality(granted) = windows[b].count
    /\ \E r \in Readers : Bucket(r) = b /\ windows[b].count <= LimitOf(r)

\* Nothing was granted on b that a window which opens now would count.
GrantsPast(b) ==
    \A t \in Times :
        grants[b][t] > 0 => t <= clock /\ IF b \in DOMAIN windows THEN t < windows[b].resetAt ELSE t < clock

RateOK == steady => \A b \in AllBuckets : (b \in DOMAIN windows => WindowOK(b)) /\ GrantsPast(b)

\* One request more is one more of those granted at this moment.
LEMMA GrantedMore ==
  ASSUME ReadTyped, NEW b \in AllBuckets, NEW first \in Int, NEW after \in Int,
         first <= clock, clock < after,
         grants' = [grants EXCEPT ![b][clock] = @ + 1],
         IsFiniteSet(Granted(b, first, after))
  PROVE  /\ IsFiniteSet(Granted(b, first, after)')
         /\ Cardinality(Granted(b, first, after)') = Cardinality(Granted(b, first, after)) + 1
<1> DEFINE one == <<clock, grants[b][clock] + 1>>
<1>1. clock \in Times /\ grants[b] \in [Times -> Nat]
  BY DEF ReadTyped
<1>2. grants'[b] = [grants[b] EXCEPT ![clock] = @ + 1]
  BY DEF ReadTyped
<1>3. \A t \in Times : grants'[b][t] = IF t = clock THEN grants[b][t] + 1 ELSE grants[b][t]
  BY <1>1, <1>2
<1>4. \A t \in Times : {t} \X (1 .. grants'[b][t]) =
          IF t = clock THEN ({t} \X (1 .. grants[b][t])) \cup {one} ELSE {t} \X (1 .. grants[b][t])
  BY <1>1, <1>3
<1>5. \A t \in Times : one \in {t} \X (1 .. grants[b][t]) => FALSE
  BY <1>1
<1>6. Granted(b, first, after)' = Granted(b, first, after) \cup {one}
  <2> HIDE DEF one
  <2> QED BY <1>1, <1>4 DEF Granted
<1>7. one \notin Granted(b, first, after)
  <2> HIDE DEF one
  <2> QED BY <1>5 DEF Granted
<1>8. QED
  <2> HIDE DEF one
  <2> QED BY <1>6, <1>7, FS_AddElement

LEMMA GrantedSame ==
  ASSUME NEW b, grants'[b] = grants[b], NEW first, NEW after
  PROVE  Granted(b, first, after)' = Granted(b, first, after)
BY DEF Granted

LEMMA RateStep ==
  ASSUME ReadTyped, RateOK, [Next]_vars
  PROVE  RateOK'
<1>1. SUFFICES ASSUME steady' PROVE \A b \in AllBuckets : ((b \in DOMAIN windows => WindowOK(b)) /\ GrantsPast(b))'
  BY DEF RateOK, AllBuckets
<1>2. /\ clock \in Nat /\ clock \in Times /\ Window \in Nat \ {0}
      /\ \A b \in DOMAIN windows : windows[b].count \in Nat /\ windows[b].resetAt \in Nat
  BY LimitsType DEF ReadTyped
<1>3. ASSUME NEW b \in AllBuckets, steady, UNCHANGED <<windows, grants>>, clock' \in Nat, clock' >= clock
      PROVE  ((b \in DOMAIN windows => WindowOK(b)) /\ GrantsPast(b))'
  <2>1. (b \in DOMAIN windows => WindowOK(b)) /\ GrantsPast(b)
    BY <1>3 DEF RateOK
  <2>2. GrantsPast(b)'
    BY <1>2, <1>3, <2>1, LimitsType DEF GrantsPast
  <2>3. ASSUME b \in DOMAIN windows' PROVE WindowOK(b)'
    <3>1. Granted(b, windows[b].resetAt - Window, windows[b].resetAt)' =
            Granted(b, windows[b].resetAt - Window, windows[b].resetAt)
      BY <1>3 DEF Granted
    <3>2. QED
      BY <1>2, <1>3, <2>1, <2>3, <3>1 DEF WindowOK
  <2>4. QED
    BY <2>2, <2>3
<1>4. ASSUME NEW r \in Readers, Ask(r)
      PROVE  \A b \in AllBuckets : ((b \in DOMAIN windows => WindowOK(b)) /\ GrantsPast(b))'
  <2>1. steady /\ clock' = clock
    BY <1>1, <1>4 DEF Ask
  <2>2. CASE UNCHANGED <<windows, grants>>
    BY <1>2, <1>3, <2>1, <2>2
  <2>3. ASSUME NEW w, LetThrough(r, w),
               Bucket(r) \in DOMAIN windows' =>
                  windows'[Bucket(r)].count = w.count /\ windows'[Bucket(r)].resetAt = w.resetAt,
               Bucket(r) \notin DOMAIN windows' => clock >= w.resetAt,
               DOMAIN windows' \subseteq DOMAIN windows \cup {Bucket(r)},
               \A c \in DOMAIN windows \ {Bucket(r)} :
                  IF c \in DOMAIN windows' THEN windows'[c] = windows[c] ELSE clock >= windows[c].resetAt,
               grants' = [grants EXCEPT ![Bucket(r)][clock] = @ + 1],
               NEW b \in AllBuckets
        PROVE  ((b \in DOMAIN windows => WindowOK(b)) /\ GrantsPast(b))'
    <3>1. (b \in DOMAIN windows => WindowOK(b)) /\ GrantsPast(b)
      BY <2>1 DEF RateOK
    <3>2. CASE b # Bucket(r)
      <4>1. grants'[b] = grants[b]
        BY <2>3, <3>2 DEF ReadTyped
      <4>2. GrantsPast(b)'
        BY <1>2, <2>1, <2>3, <3>1, <3>2, <4>1, LimitsType DEF GrantsPast
      <4>3. ASSUME b \in DOMAIN windows' PROVE WindowOK(b)'
        <5>1. b \in DOMAIN windows /\ windows'[b] = windows[b]
          BY <2>3, <3>2, <4>3
        <5>2. Granted(b, windows[b].resetAt - Window, windows[b].resetAt)' =
                Granted(b, windows[b].resetAt - Window, windows[b].resetAt)
          BY <4>1, <5>1 DEF Granted
        <5>3. QED
          BY <2>1, <3>1, <5>1, <5>2 DEF WindowOK
      <4>4. QED
        BY <4>2, <4>3
    <3>3. CASE b = Bucket(r)
      <4>1. w.resetAt \in Nat /\ clock < w.resetAt /\ w.resetAt <= clock + Window /\ w.resetAt >= Window
        BY <1>2, <2>3, <3>1, <3>3 DEF LetThrough, WindowOK
      <4>2. b \in DOMAIN windows' /\ windows'[b].count = w.count /\ windows'[b].resetAt = w.resetAt
        BY <1>2, <2>3, <3>3, <4>1
      <4>3. \A t \in Times : grants'[b][t] > 0 => grants[b][t] > 0 \/ t = clock
        BY <1>2, <2>3, <3>3 DEF ReadTyped
      <4>4. GrantsPast(b)'
        <5>1. \A t \in Times : grants[b][t] > 0 => t <= clock
          BY <3>1 DEF GrantsPast
        <5>2. ASSUME NEW t \in Times, grants'[b][t] > 0
              PROVE  t \in Nat /\ t <= clock /\ t < w.resetAt
          <6>1. t \in Nat /\ clock \in Nat
            BY LimitsType DEF ReadTyped
          <6>2. t <= clock
            BY <4>3, <5>1, <5>2, <6>1
          <6>3. QED
            BY <4>1, <6>1, <6>2
        <5>3. QED
          BY <2>1, <4>2, <5>2 DEF GrantsPast
      <4>5. PICK first \in Int : first = w.resetAt - Window /\ first <= clock
        BY <1>2, <4>1
      <4>6. /\ IsFiniteSet(Granted(b, first, w.resetAt))
            /\ Cardinality(Granted(b, first, w.resetAt)) = w.count - 1
            /\ w.count \in Nat /\ w.count <= LimitOf(r)
        <5>1. CASE /\ b \in DOMAIN windows => clock >= windows[b].resetAt
                   /\ w.count = 1 /\ w.resetAt = clock + Window
          <6>1. first = clock
            BY <1>2, <4>5, <5>1
          <6>2. \A t \in Times : t >= clock => 1 .. grants[b][t] = {}
            <7>1. \A t \in Times : t >= clock => ~ grants[b][t] > 0
              BY <1>2, <3>1, <5>1, LimitsType DEF GrantsPast
            <7>2. \A t \in Times : grants[b][t] \in Nat
              BY DEF ReadTyped
            <7>3. QED
              BY <7>1, <7>2
          <6>3. Granted(b, first, w.resetAt) = {}
            BY <1>2, <6>1, <6>2, LimitsType DEF Granted
          <6>4. QED
            BY <5>1, <6>3, FS_EmptySet, LimitsType
        <5>2. CASE /\ b \in DOMAIN windows /\ clock < windows[b].resetAt
                   /\ windows[b].count < LimitOf(r)
                   /\ w.count = windows[b].count + 1 /\ w.resetAt = windows[b].resetAt
          BY <1>2, <3>1, <4>5, <5>2, LimitsType DEF WindowOK
        <5>3. QED
          BY <2>3, <3>3, <5>1, <5>2 DEF LetThrough
      <4>7. /\ IsFiniteSet(Granted(b, first, w.resetAt)')
            /\ Cardinality(Granted(b, first, w.resetAt)') = Cardinality(Granted(b, first, w.resetAt)) + 1
        <5>1. grants' = [grants EXCEPT ![b][clock] = @ + 1]
          BY <2>3, <3>3
        <5>2. PICK after \in Int : after = w.resetAt /\ clock < after
          BY <4>1
        <5>3. IsFiniteSet(Granted(b, first, after))
          BY <4>6, <5>2
        <5>4. QED
          BY <4>5, <5>1, <5>2, <5>3, GrantedMore
      <4>8. Granted(b, windows[b].resetAt - Window, windows[b].resetAt)' = Granted(b, first, w.resetAt)'
        BY <4>2, <4>5 DEF Granted
      <4>9. WindowOK(b)'
        BY <2>1, <3>3, <4>1, <4>2, <4>6, <4>7, <4>8 DEF WindowOK
      <4>10. QED
        BY <4>2, <4>4, <4>9
    <3>4. QED
      BY <3>2, <3>3
  <2>4. QED
    BY <1>4, <2>2, <2>3, AskEffect
<1>5. ASSUME NEW r \in Readers, Start(r) \/ Count(r) \/ List(r)
      PROVE  steady /\ UNCHANGED <<windows, grants>> /\ clock' = clock
  BY <1>1, <1>5 DEF Start, Count, List
<1>6. ASSUME Adding PROVE steady /\ UNCHANGED <<windows, grants>> /\ clock' = clock
  BY <1>1, <1>6, AddsOne
<1>7. CASE Tick
  BY <1>1, <1>2, <1>3, <1>7 DEF Tick
<1>8. CASE SetBack
  BY <1>1, <1>8 DEF SetBack
<1>9. CASE UNCHANGED vars
  BY <1>1, <1>2, <1>3, <1>9 DEF vars
<1>10. QED
  BY <1>2, <1>3, <1>4, <1>5, <1>6, <1>7, <1>8, <1>9 DEF Next, Adding

-----------------------------------------------------------------------------
(* Pages that miss nothing.                                                *)

\* What there was when the client began is behind it or still ahead.
PagesOK ==
    \A r \in Readers :
        /\ readers[r].start \subseteq Visible(r)
        /\ Reading(r) =>
              \A i \in readers[r].start :
                  i \in Seen(r) \/ Rank(Visible(r), r.order, i) >= (readers[r].page - 1) * PageSize(r)
        /\ readers[r].pc = "done" /\ r.stop = "short" => readers[r].start \subseteq Seen(r)

\* A record that is added takes none away and moves none forward.
LEMMA RanksGrow ==
  ASSUME log \in Seq(LogEntry), NEW entry \in LogEntry, log' = Append(log, entry), NEW r
  PROVE  /\ Len(log') = Len(log) + 1 /\ DOMAIN log' = DOMAIN log \cup {Len(log) + 1}
         /\ \A i \in DOMAIN log : log'[i] = log[i]
         /\ log'[Len(log) + 1] = entry
         /\ Visible(r) \subseteq Visible(r)' /\ Visible(r)' \subseteq Visible(r) \cup {Len(log) + 1}
         /\ \A i \in Visible(r) : Rank(Visible(r), r.order, i)' >= Rank(Visible(r), r.order, i)
<1>2. /\ log' \in Seq(LogEntry) /\ Len(log') = Len(log) + 1
      /\ \A i \in 1 .. Len(log) : log'[i] = log[i]
      /\ log'[Len(log) + 1] = entry
  BY AppendProperties
<1>3. Len(log) \in Nat /\ DOMAIN log = 1 .. Len(log) /\ DOMAIN log' = 1 .. Len(log')
  BY <1>2, LenProperties
<1>4. DOMAIN log' = DOMAIN log \cup {Len(log) + 1} /\ \A i \in DOMAIN log : log'[i] = log[i]
  BY <1>2, <1>3
<1>5. Visible(r) \subseteq Visible(r)' /\ Visible(r)' \subseteq Visible(r) \cup {Len(log) + 1}
  BY <1>4 DEF Visible
<1>6. ASSUME NEW i \in Visible(r)
      PROVE  Rank(Visible(r), r.order, i)' >= Rank(Visible(r), r.order, i)
  <2>1. i \in DOMAIN log /\ Visible(r) \subseteq DOMAIN log
    BY DEF Visible
  <2>2. Ahead(Visible(r), r.order, i) \subseteq Ahead(Visible(r), r.order, i)'
    BY <1>4, <1>5, <2>1 DEF Ahead, Before
  <2>3. IsFiniteSet(Ahead(Visible(r), r.order, i)')
    <3>1. Ahead(Visible(r), r.order, i)' \subseteq 1 .. Len(log')
      BY <1>3, <1>4, <1>5, <2>1 DEF Ahead
    <3>2. IsFiniteSet(1 .. Len(log'))
      BY <1>2, <1>3, FS_Interval
    <3>3. QED
      BY <3>1, <3>2, FS_Subset
  <2>4. QED
    BY <2>2, <2>3, FS_Subset, FS_CardinalityType DEF Rank
<1>7. QED
  BY <1>2, <1>4, <1>5, <1>6

\* When a client that got items stops.
LastPage(r, items) ==
    IF r.stop = "total"
    THEN readers[r].page * PageSize(r) >= readers[r].total
    ELSE Len(items) < PageSize(r)

\* What a client does with a page: it keeps what it has seen and adds the page.
LEMMA ListReads ==
  ASSUME ReadTyped, PagesNumbered, NEW r \in Readers, List(r),
         NEW items, items = Page(r, readers[r].page)
  PROVE  /\ readers[r].pc = "list" /\ readers[r].page \in Nat \ {0}
         /\ readers[r].seen \in Seq(Nat) /\ items \in Seq(Nat)
         /\ readers'[r].start = readers[r].start
         /\ readers'[r].seen = readers[r].seen \o items
         /\ IF LastPage(r, items) THEN readers'[r].pc = "done"
            ELSE readers'[r].pc = "ask" /\ readers'[r].page = readers[r].page + 1
         /\ Seen(r)' = Seen(r) \cup Range(items)
         /\ \A q \in Readers : q # r => readers'[q] = readers[q]
<1>1. readers[r] \in Reader /\ readers[r].pc = "list"
  BY DEF ReadTyped, List
<1>2. readers[r].page \in Nat \ {0} /\ readers[r].seen \in Seq(Nat)
  BY <1>1 DEF PagesNumbered, Reading, Reader
<1>3. items \in Seq(Nat)
  <2>1. items \in Seq(Visible(r))
    BY <1>2, PageHolds DEF ReadTyped
  <2>2. Visible(r) \subseteq Nat
    BY LogTyped DEF Visible, ReadTyped
  <2>3. QED
    BY <2>1, <2>2, SeqMonotonic
<1>4. PICK seen : seen = readers[r].seen \o items
  OBVIOUS
<1>5. Range(seen) = Range(readers[r].seen) \cup Range(items)
  BY <1>2, <1>3, <1>4, RangeConcatenation
<1>6. readers' = [readers EXCEPT
         ![r].pc = IF LastPage(r, items) THEN "done" ELSE "ask",
         ![r].page = IF LastPage(r, items) THEN @ ELSE @ + 1,
         ![r].total = 0,
         ![r].known = {},
         ![r].late = Cardinality(Visible(r) \ readers[r].known),
         ![r].seen = seen]
  BY <1>4 DEF List, LastPage
<1>7. /\ readers'[r].start = readers[r].start
      /\ readers'[r].seen = seen
      /\ IF LastPage(r, items) THEN readers'[r].pc = "done"
         ELSE readers'[r].pc = "ask" /\ readers'[r].page = readers[r].page + 1
      /\ \A q \in Readers : q # r => readers'[q] = readers[q]
  BY <1>1, <1>6 DEF ReadTyped, Reader
<1>8. Seen(r)' = Seen(r) \cup Range(items)
  BY <1>5, <1>7 DEF Seen, Range
<1>9. QED
  BY <1>1, <1>2, <1>3, <1>4, <1>7, <1>8

\* The records of a rank on the page are on it; those of a higher rank wait.
LEMMA PageTakes ==
  ASSUME log \in Seq(LogEntry), NEW r \in Readers, NEW page \in Nat \ {0},
         NEW items, items = Page(r, page),
         NEW i \in Visible(r), Rank(Visible(r), r.order, i) >= (page - 1) * PageSize(r)
  PROVE  \/ i \in Range(items)
         \/ Rank(Visible(r), r.order, i) >= page * PageSize(r) /\ Len(items) = PageSize(r)
<1>1. PICK s \in Nat \ {0} : s = PageSize(r)
  BY LimitsType
<1>2. PICK first \in Nat : first = (page - 1) * s /\ page * s = first + s
  <2>1. page - 1 \in Nat /\ page = (page - 1) + 1
    OBVIOUS
  <2>2. PICK p \in Nat : p = page - 1 /\ page = p + 1
    BY <2>1
  <2>3. (p + 1) * s = p * s + s
    OBVIOUS
  <2>4. p * s \in Nat
    OBVIOUS
  <2>5. QED
    BY <2>2, <2>3, <2>4
<1>3. Visible(r) \in SUBSET DOMAIN log
  BY DEF Visible
<1>4. PICK c \in Nat : c = Cardinality(Visible(r))
  BY <1>3, RanksDiffer
<1>5. PICK k \in Nat : k = Rank(Visible(r), r.order, i) /\ k < c /\ k >= first
  BY <1>1, <1>2, <1>3, <1>4, RanksDiffer
<1>6. PICK last \in Nat : last = IF first + s <= c THEN first + s ELSE c
  OBVIOUS
<1>7. PICK list : list = Sorted(Visible(r), r.order)
  OBVIOUS
<1>8. list[k + 1] = i
  BY <1>3, <1>5, <1>7, SortedPlaces
<1>9. /\ items \in Seq(Visible(r))
      /\ Len(items) = IF first < last THEN last - first ELSE 0
      /\ \A n \in 1 .. last - first : items[n] = list[first + n]
  <2>1. last = LeastOf(page * PageSize(r), Cardinality(Visible(r)))
    BY <1>1, <1>2, <1>4, <1>6 DEF LeastOf
  <2>2. QED
    BY <1>1, <1>2, <1>7, <2>1, PageHolds
<1>10. DOMAIN items = 1 .. Len(items)
  BY <1>9, LenProperties
<1>11. CASE k < first + s
  <2>1. k + 1 - first \in 1 .. last - first /\ first < last
    BY <1>5, <1>6, <1>11
  <2>2. items[k + 1 - first] = list[k + 1] /\ k + 1 - first \in DOMAIN items
    <3>1. first + (k + 1 - first) = k + 1
      OBVIOUS
    <3>2. QED
      BY <1>9, <1>10, <2>1, <3>1
  <2>3. QED
    BY <1>8, <2>2 DEF Range
<1>12. CASE k >= first + s
  <2>1. last = first + s /\ first < last /\ last - first = s
    BY <1>5, <1>6, <1>12
  <2>2. Len(items) = s
    BY <1>9, <2>1
  <2>3. QED
    BY <1>1, <1>2, <1>5, <1>12, <2>2
<1>13. QED
  BY <1>11, <1>12

\* A request for leave to read changes nothing of what was read.
LEMMA AskReads ==
  ASSUME ReadTyped, NEW r \in Readers, Ask(r)
  PROVE  /\ readers'[r].start = readers[r].start /\ readers'[r].page = readers[r].page
         /\ readers'[r].seen = readers[r].seen /\ readers'[r].known = readers[r].known
         /\ readers[r].pc = "ask"
         /\ readers'[r].pc \in {"ask", IF r.scope = "audit-logs" THEN "count" ELSE "list"}
         /\ \A q \in Readers : q # r => readers'[q] = readers[q]
<1>1. readers[r].pc = "ask" /\ readers[r] \in Reader
  BY DEF Ask, ReadTyped
<1>2. ASSUME NEW d, NEW n, NEW t,
             readers' = [readers EXCEPT ![r].deniedBy = d, ![r].denials = n, ![r].retryAt = t]
      PROVE  /\ readers'[r].start = readers[r].start /\ readers'[r].page = readers[r].page
             /\ readers'[r].seen = readers[r].seen /\ readers'[r].known = readers[r].known
             /\ readers'[r].pc = "ask"
             /\ \A q \in Readers : q # r => readers'[q] = readers[q]
  BY <1>1, <1>2 DEF ReadTyped, Reader
<1>3. CASE readers' = [readers EXCEPT
              ![r].deniedBy = windows[Bucket(r)].resetAt,
              ![r].denials = IF readers[r].deniedBy = windows[Bucket(r)].resetAt
                             THEN readers[r].denials + 1 ELSE 1,
              ![r].retryAt = clock + Second * RetryAfter(windows[Bucket(r)].resetAt, clock)]
  BY <1>1, <1>2, <1>3
<1>4. CASE readers' = [readers EXCEPT
              ![r].pc = IF r.scope = "audit-logs" THEN "count" ELSE "list",
              ![r].deniedBy = Null, ![r].denials = 0, ![r].retryAt = 0]
  BY <1>1, <1>4 DEF ReadTyped, Reader
<1>5. QED
  BY <1>3, <1>4, AskEffect

\* After a reply the client has seen what there was when it began, but for
\* records of ranks behind the page; then the page was full.
LEMMA StartAfterPage ==
  ASSUME ReadTyped, PagesNumbered, PagesOK, NEW r \in Readers, List(r),
         NEW items, items = Page(r, readers[r].page), NEW i \in readers[r].start
  PROVE  \/ i \in Seen(r)'
         \/ Rank(Visible(r), r.order, i) >= readers[r].page * PageSize(r) /\ Len(items) = PageSize(r)
<1>1. /\ readers[r].pc = "list" /\ readers[r].page \in Nat \ {0}
      /\ Seen(r)' = Seen(r) \cup Range(items)
  BY ListReads
<1>2. i \in Visible(r)
  BY DEF PagesOK
<1>3. i \in Seen(r) \/ Rank(Visible(r), r.order, i) >= (readers[r].page - 1) * PageSize(r)
  BY <1>1 DEF PagesOK, Reading
<1>4. CASE i \in Seen(r)
  BY <1>1, <1>4
<1>5. CASE Rank(Visible(r), r.order, i) >= (readers[r].page - 1) * PageSize(r)
  BY <1>1, <1>2, <1>5, PageTakes DEF ReadTyped
<1>6. QED
  BY <1>3, <1>4, <1>5

\* What a client notes of a reply: how many records came after the count.
LEMMA ListCounts ==
  ASSUME ReadTyped, NEW r \in Readers, List(r)
  PROVE  /\ readers'[r].known = {} /\ readers'[r].pc \in {"ask", "done"}
         /\ readers'[r].late = Cardinality(Visible(r) \ readers[r].known)
<1>1. readers[r] \in Reader
  BY DEF ReadTyped
<1>2. PICK items : items = Page(r, readers[r].page)
  OBVIOUS
<1>3. PICK pc \in {"ask", "done"} : pc = IF LastPage(r, items) THEN "done" ELSE "ask"
  OBVIOUS
<1>4. readers' = [readers EXCEPT
         ![r].pc = pc,
         ![r].page = IF LastPage(r, items) THEN @ ELSE @ + 1,
         ![r].total = 0,
         ![r].known = {},
         ![r].late = Cardinality(Visible(r) \ readers[r].known),
         ![r].seen = @ \o items]
  BY <1>2, <1>3 DEF List, LastPage
<1>5. QED
  BY <1>1, <1>4 DEF ReadTyped, Reader

LEMMA PagesStep ==
  ASSUME ReadTyped, PagesNumbered, PagesOK, [Next]_vars
  PROVE  PagesOK'
<1>1. /\ log \in Seq(LogEntry) /\ clock \in Times
      /\ \A r \in Readers : readers[r] \in Reader
  BY DEF ReadTyped
<1>2. ASSUME NEW q \in Readers, readers'[q] = readers[q], UNCHANGED log
      PROVE  /\ readers'[q].start \subseteq Visible(q)'
             /\ Reading(q)' =>
                   \A i \in readers'[q].start :
                      i \in Seen(q)' \/ Rank(Visible(q), q.order, i)' >= (readers'[q].page - 1) * PageSize(q)
             /\ readers'[q].pc = "done" /\ q.stop = "short" => readers'[q].start \subseteq Seen(q)'
  <2>1. /\ Visible(q)' = Visible(q) /\ Seen(q)' = Seen(q) /\ Reading(q)' = Reading(q)
        /\ \A i : Rank(Visible(q), q.order, i)' = Rank(Visible(q), q.order, i)
    BY <1>2 DEF Visible, Seen, Reading, Rank, Ahead, Before
  <2>2. QED
    BY <1>2, <2>1 DEF PagesOK
<1>3. ASSUME NEW r \in Readers, Start(r) PROVE PagesOK'
  <2>1. /\ UNCHANGED log
        /\ \A q \in Readers : q # r => readers'[q] = readers[q]
        /\ readers'[r].start = Visible(r) /\ readers'[r].page = 1 /\ readers'[r].pc = "ask"
    BY <1>1, <1>3 DEF Start, ReadTyped, Reader
  <2>2. Visible(r)' = Visible(r) /\ \A i : Rank(Visible(r), r.order, i)' = Rank(Visible(r), r.order, i)
    BY <2>1 DEF Visible, Rank, Ahead, Before
  <2>3. \A i \in Visible(r) : Rank(Visible(r), r.order, i) >= (readers'[r].page - 1) * PageSize(r)
    <3>1. Visible(r) \in SUBSET DOMAIN log
      BY DEF Visible
    <3>2. \A i \in Visible(r) : Rank(Visible(r), r.order, i) \in Nat
      BY <1>1, <3>1, RanksDiffer
    <3>3. (readers'[r].page - 1) * PageSize(r) = 0
      BY <2>1, LimitsType
    <3>4. QED
      BY <3>2, <3>3
  <2>4. QED
    BY <1>2, <2>1, <2>2, <2>3 DEF PagesOK
<1>4. ASSUME NEW r \in Readers, Ask(r) \/ Count(r) PROVE PagesOK'
  <2>1. UNCHANGED log /\ Reading(r)
    BY <1>4 DEF Ask, Count, Reading
  <2>2. /\ readers'[r].start = readers[r].start /\ readers'[r].page = readers[r].page
        /\ readers'[r].seen = readers[r].seen /\ readers'[r].pc # "done"
        /\ \A q \in Readers : q # r => readers'[q] = readers[q]
    <3>1. CASE Ask(r)
      BY <3>1, AskReads
    <3>2. CASE Count(r)
      BY <1>1, <3>2 DEF Count, ReadTyped, Reader
    <3>3. QED
      BY <1>4, <3>1, <3>2
  <2>3. /\ Visible(r)' = Visible(r) /\ Seen(r)' = Seen(r)
        /\ \A i : Rank(Visible(r), r.order, i)' = Rank(Visible(r), r.order, i)
    BY <2>1, <2>2 DEF Visible, Seen, Rank, Ahead, Before
  <2>4. QED
    BY <1>2, <2>1, <2>2, <2>3 DEF PagesOK
<1>5. ASSUME NEW r \in Readers, List(r) PROVE PagesOK'
  <2>1. PICK items : items = Page(r, readers[r].page)
    OBVIOUS
  <2>2. /\ readers[r].pc = "list" /\ readers[r].page \in Nat \ {0}
        /\ readers[r].seen \in Seq(Nat) /\ items \in Seq(Nat)
        /\ readers'[r].start = readers[r].start
        /\ IF LastPage(r, items) THEN readers'[r].pc = "done"
           ELSE readers'[r].pc = "ask" /\ readers'[r].page = readers[r].page + 1
        /\ Seen(r)' = Seen(r) \cup Range(items)
        /\ \A q \in Readers : q # r => readers'[q] = readers[q]
    BY <1>5, <2>1, ListReads
  <2>3. UNCHANGED log
    BY <1>5 DEF List
  <2>4. Visible(r)' = Visible(r) /\ \A i : Rank(Visible(r), r.order, i)' = Rank(Visible(r), r.order, i)
    BY <2>3 DEF Visible, Rank, Ahead, Before
  <2>5. \A i \in readers[r].start :
           \/ i \in Seen(r)'
           \/ Rank(Visible(r), r.order, i) >= readers[r].page * PageSize(r) /\ Len(items) = PageSize(r)
    BY <1>5, <2>1, StartAfterPage
  <2>6. readers'[r].start \subseteq Visible(r)'
    BY <2>2, <2>4 DEF PagesOK
  <2>7. ASSUME Reading(r)'
        PROVE  \A i \in readers'[r].start :
                  i \in Seen(r)' \/ Rank(Visible(r), r.order, i)' >= (readers'[r].page - 1) * PageSize(r)
    <3>1. readers'[r].page - 1 = readers[r].page
      <4>1. readers'[r].pc # "done"
        BY <2>7 DEF Reading
      <4>2. readers'[r].page = readers[r].page + 1
        BY <2>2, <4>1
      <4>3. PICK page \in Nat : page = readers[r].page
        BY <2>2
      <4>4. page + 1 - 1 = page
        OBVIOUS
      <4>5. QED
        BY <4>2, <4>3, <4>4
    <3>2. QED
      BY <2>2, <2>4, <2>5, <3>1
  <2>8. ASSUME readers'[r].pc = "done", r.stop = "short" PROVE readers'[r].start \subseteq Seen(r)'
    <3>1. Len(items) < PageSize(r)
      BY <2>2, <2>8 DEF LastPage
    <3>2. Len(items) # PageSize(r)
      <4>1. Len(items) \in Nat
        BY <2>2, LenProperties
      <4>2. QED
        BY <3>1, <4>1, LimitsType
    <3>3. QED
      BY <2>2, <2>5, <3>2
  <2>9. QED
    BY <1>2, <2>2, <2>3, <2>6, <2>7, <2>8 DEF PagesOK
<1>6. ASSUME Adding PROVE PagesOK'
  <2>1. UNCHANGED readers /\ \E entry \in LogEntry : log' = Append(log, entry)
    BY <1>6, AddsOne
  <2>2. ASSUME NEW r \in Readers, NEW i \in readers[r].start,
               Rank(Visible(r), r.order, i) >= (readers[r].page - 1) * PageSize(r), Reading(r)
        PROVE  Rank(Visible(r), r.order, i)' >= (readers[r].page - 1) * PageSize(r)
    <3>1. i \in Visible(r) /\ Visible(r) \in SUBSET DOMAIN log /\ i \in DOMAIN log
      BY DEF PagesOK, Visible
    <3>2. Rank(Visible(r), r.order, i)' >= Rank(Visible(r), r.order, i)
      BY <1>1, <2>1, <3>1, RanksGrow
    <3>3. Rank(Visible(r), r.order, i) \in Nat
      BY <1>1, <3>1, RanksDiffer
    <3>4. Rank(Visible(r), r.order, i)' \in Int
      <4>1. DOMAIN log' = 1 .. Len(log') /\ Len(log') \in Nat
        <5>1. Len(log') = Len(log) + 1 /\ DOMAIN log' = DOMAIN log \cup {Len(log) + 1}
          BY <1>1, <2>1, RanksGrow
        <5>2. QED
          BY <1>1, <5>1, LogTyped
      <4>2. IsFiniteSet(DOMAIN log')
        BY <4>1, FS_Interval
      <4>3. Ahead(Visible(r), r.order, i)' \subseteq DOMAIN log'
        BY DEF Ahead, Visible
      <4>4. QED
        BY <4>2, <4>3, FS_Subset, FS_CardinalityType DEF Rank
    <3>5. (readers[r].page - 1) * PageSize(r) \in Int
      BY <1>1, LimitsType DEF Reader
    <3>6. QED
      BY <2>2, <3>2, <3>3, <3>4, <3>5
  <2>3. \A r \in Readers : Visible(r) \subseteq Visible(r)' /\ Seen(r)' = Seen(r) /\ Reading(r)' = Reading(r)
    BY <1>1, <2>1, RanksGrow DEF Seen, Reading
  <2>4. QED
    BY <2>1, <2>2, <2>3 DEF PagesOK
<1>7. CASE Tick \/ SetBack \/ UNCHANGED vars
  <2>1. UNCHANGED <<readers, log>>
    BY <1>7 DEF Tick, SetBack, vars
  <2>2. QED
    BY <1>2, <2>1 DEF PagesOK
<1>8. QED
  BY <1>3, <1>4, <1>5, <1>6, <1>7 DEF Next, Adding

-----------------------------------------------------------------------------
(* Stopping by the total.                                                  *)

\* The total is the number of the records that were there when it was read;
\* who stopped by it has missed no more than came in since.
TotalOK ==
    \A r \in Readers :
        /\ readers[r].known \subseteq Visible(r)
        /\ readers[r].pc = "list" /\ r.stop = "total" => readers[r].total = Cardinality(readers[r].known)
        /\ readers[r].pc = "done" /\ r.stop = "total" =>
              Cardinality(readers[r].start \ Seen(r)) <= readers[r].late

\* Of c visible records, at most c - k have rank k or a higher one.
LEMMA FewBehind ==
  ASSUME log \in Seq(LogEntry), NEW order, NEW records \in SUBSET DOMAIN log,
         NEW k \in Nat, NEW c \in Nat, c = Cardinality(records),
         NEW behind \in SUBSET records, \A i \in behind : Rank(records, order, i) >= k
  PROVE  Cardinality(behind) \in Nat /\ Cardinality(behind) <= IF k > c THEN 0 ELSE c - k
<1> DEFINE rank == [i \in behind |-> Rank(records, order, i)]
<1>1. ASSUME NEW i \in behind PROVE Rank(records, order, i) \in k .. c - 1
  <2>1. PICK n : n = Rank(records, order, i) /\ n \in Nat /\ n < c
    BY RanksDiffer
  <2>2. n >= k
    BY <2>1
  <2>3. QED
    BY <2>1, <2>2
<1>2. rank \in Injection(behind, k .. c - 1)
  <2>1. rank \in [behind -> k .. c - 1]
    BY <1>1
  <2>2. \A i, j \in behind : rank[i] = rank[j] => i = j
    BY RanksDiffer
  <2>3. QED
    BY <2>1, <2>2 DEF Injection, IsInjective
<1>3. IsFiniteSet(k .. c - 1) /\ Cardinality(k .. c - 1) = IF k > c - 1 THEN 0 ELSE c - 1 - k + 1
  <2>1. k \in Int /\ c - 1 \in Int
    OBVIOUS
  <2>2. QED
    BY <2>1, FS_Interval
<1>4. IsFiniteSet(behind) /\ Cardinality(behind) <= Cardinality(k .. c - 1)
  <2> HIDE DEF rank
  <2> QED BY <1>2, <1>3, FS_Injection
<1>5. Cardinality(behind) \in Nat
  BY <1>4, FS_CardinalityType
<1>6. QED
  BY <1>3, <1>4, <1>5

\* The last reply of a client that stops by its total.
LEMMA TotalStops ==
  ASSUME ReadTyped, PagesNumbered, PagesOK, TotalOK, NEW r \in Readers, List(r),
         r.stop = "total", readers'[r].pc = "done"
  PROVE  Cardinality(readers'[r].start \ Seen(r)') <= readers'[r].late
<1>1. /\ log \in Seq(LogEntry) /\ Visible(r) \in SUBSET DOMAIN log
      /\ readers[r] \in Reader
  BY DEF ReadTyped, Visible
<1>2. PICK items : items = Page(r, readers[r].page)
  OBVIOUS
<1>3. /\ readers[r].pc = "list" /\ readers[r].page \in Nat \ {0}
      /\ readers'[r].start = readers[r].start
      /\ LastPage(r, items)
      /\ Seen(r)' = Seen(r) \cup Range(items)
  <2>1. /\ readers[r].pc = "list" /\ readers[r].page \in Nat \ {0}
        /\ readers'[r].start = readers[r].start
        /\ IF LastPage(r, items) THEN readers'[r].pc = "done" ELSE readers'[r].pc = "ask"
        /\ Seen(r)' = Seen(r) \cup Range(items)
    BY <1>2, ListReads
  <2>2. QED
    BY <2>1
<1>4. PICK k \in Nat : k = readers[r].page * PageSize(r)
  BY <1>3, LimitsType
<1>5. PICK c \in Nat : c = Cardinality(Visible(r)) /\ IsFiniteSet(Visible(r))
  BY <1>1, RanksDiffer
<1>6. PICK behind : behind = readers'[r].start \ Seen(r)'
  OBVIOUS
<1>7. behind \in SUBSET Visible(r)
  BY <1>3, <1>6 DEF PagesOK
<1>8. \A i \in behind : Rank(Visible(r), r.order, i) >= k
  BY <1>3, <1>4, <1>2, <1>6, <1>7, StartAfterPage
<1>9. Cardinality(behind) \in Nat /\ Cardinality(behind) <= IF k > c THEN 0 ELSE c - k
  BY <1>1, <1>4, <1>5, <1>7, <1>8, FewBehind
<1>10. PICK known : known = readers[r].known /\ known \in SUBSET Visible(r)
  BY DEF TotalOK
<1>11. PICK t \in Nat : t = Cardinality(known) /\ t <= c /\ t = readers[r].total
  <2>1. IsFiniteSet(known) /\ Cardinality(known) <= c
    BY <1>5, <1>10, FS_Subset
  <2>2. QED
    BY <1>3, <1>10, <2>1, FS_CardinalityType DEF TotalOK
<1>12. k >= t
  BY <1>3, <1>4, <1>11 DEF LastPage
<1>13. readers'[r].late = c - t
  <2>1. readers'[r].late = Cardinality(Visible(r) \ known)
    BY <1>1, <1>10, ListCounts
  <2>2. Visible(r) \cap known = known
    BY <1>10
  <2>3. QED
    <3>1. Cardinality(Visible(r) \ known) = Cardinality(Visible(r)) - Cardinality(Visible(r) \cap known)
      BY <1>5, FS_Difference
    <3>2. QED
      BY <1>5, <1>11, <2>1, <2>2, <3>1
<1>14. QED
  BY <1>6, <1>9, <1>11, <1>12, <1>13

LEMMA TotalStep ==
  ASSUME ReadTyped, PagesNumbered, PagesOK, TotalOK, [Next]_vars
  PROVE  TotalOK'
<1>1. /\ log \in Seq(LogEntry)
      /\ \A r \in Readers : readers[r] \in Reader
  BY DEF ReadTyped
<1>2. ASSUME NEW q \in Readers, readers'[q] = readers[q], Visible(q) \subseteq Visible(q)'
      PROVE  /\ readers'[q].known \subseteq Visible(q)'
             /\ readers'[q].pc = "list" /\ q.stop = "total" =>
                   readers'[q].total = Cardinality(readers'[q].known)
             /\ readers'[q].pc = "done" /\ q.stop = "total" =>
                   Cardinality(readers'[q].start \ Seen(q)') <= readers'[q].late
  <2>1. Seen(q)' = Seen(q)
    BY <1>2 DEF Seen
  <2>2. QED
    BY <1>2, <2>1 DEF TotalOK
<1>3. ASSUME UNCHANGED log PROVE \A q \in Readers : Visible(q)' = Visible(q)
  BY <1>3 DEF Visible
<1>4. ASSUME NEW r \in Readers, Start(r) PROVE TotalOK'
  <2>1. UNCHANGED log /\ \A q \in Readers : q # r => readers'[q] = readers[q]
    BY <1>4 DEF Start, ReadTyped
  <2>2. readers'[r].known = readers[r].known /\ readers'[r].pc = "ask"
    BY <1>1, <1>4 DEF Start, ReadTyped, Reader
  <2>3. readers'[r].known \subseteq Visible(r)'
    BY <1>3, <2>1, <2>2 DEF TotalOK
  <2>4. QED
    BY <1>2, <1>3, <2>1, <2>2, <2>3 DEF TotalOK
<1>5. ASSUME NEW r \in Readers, Ask(r) PROVE TotalOK'
  <2>1. UNCHANGED log
    BY <1>5 DEF Ask
  <2>2. /\ readers'[r].known = readers[r].known
        /\ readers'[r].pc \in {"ask", IF r.scope = "audit-logs" THEN "count" ELSE "list"}
        /\ \A q \in Readers : q # r => readers'[q] = readers[q]
    BY <1>5, AskReads
  <2>3. r.stop = "total" => readers'[r].pc # "list"
    BY <2>2, ReadersAssumption
  <2>4. readers'[r].known \subseteq Visible(r)' /\ readers'[r].pc # "done"
    BY <1>3, <2>1, <2>2 DEF TotalOK
  <2>5. QED
    BY <1>2, <1>3, <2>1, <2>2, <2>3, <2>4 DEF TotalOK
<1>6. ASSUME NEW r \in Readers, Count(r) PROVE TotalOK'
  <2>1. UNCHANGED log /\ \A q \in Readers : q # r => readers'[q] = readers[q]
    BY <1>6 DEF Count, ReadTyped
  <2>2. /\ readers'[r].known = Visible(r) /\ readers'[r].pc = "list"
        /\ readers'[r].total = Cardinality(Visible(r))
    BY <1>1, <1>6 DEF Count, Total, ReadTyped, Reader
  <2>3. QED
    BY <1>2, <1>3, <2>1, <2>2 DEF TotalOK
<1>7. ASSUME NEW r \in Readers, List(r) PROVE TotalOK'
  <2>1. UNCHANGED log /\ \A q \in Readers : q # r => readers'[q] = readers[q]
    BY <1>7 DEF List, ReadTyped
  <2>2. readers'[r].known = {} /\ readers'[r].pc # "list"
    BY <1>1, <1>7, ListCounts
  <2>3. readers'[r].pc = "done" /\ r.stop = "total" =>
           Cardinality(readers'[r].start \ Seen(r)') <= readers'[r].late
    BY <1>7, TotalStops
  <2>4. QED
    BY <1>2, <1>3, <2>1, <2>2, <2>3 DEF TotalOK
<1>8. CASE Adding
  <2>1. UNCHANGED readers /\ \E entry \in LogEntry : log' = Append(log, entry)
    BY <1>8, AddsOne
  <2>3. \A q \in Readers : Visible(q) \subseteq Visible(q)'
    BY <1>1, <2>1, RanksGrow
  <2>2. QED
    BY <1>2, <2>1, <2>3 DEF TotalOK
<1>9. CASE Tick \/ SetBack \/ UNCHANGED vars
  <2>1. UNCHANGED <<readers, log>>
    BY <1>9 DEF Tick, SetBack, vars
  <2>2. QED
    BY <1>2, <1>3, <2>1 DEF TotalOK
<1>10. QED
  BY <1>4, <1>5, <1>6, <1>7, <1>8, <1>9 DEF Next, Adding

-----------------------------------------------------------------------------
(* Ascending pages.                                                        *)

\* The visible records of client r are listed by their ranks.
Listed(r) ==
    log \in Seq(LogEntry) =>
        /\ Len(Sorted(Visible(r), r.order)) = Cardinality(Visible(r))
        /\ \A i \in Visible(r) :
              /\ Rank(Visible(r), r.order, i) + 1 \in 1 .. Cardinality(Visible(r))
              /\ Sorted(Visible(r), r.order)[Rank(Visible(r), r.order, i) + 1] = i

LEMMA IsListed ==
  ASSUME NEW r
  PROVE  Listed(r)
<1>1. SUFFICES ASSUME log \in Seq(LogEntry) PROVE Listed(r)
  BY DEF Listed
<1>2. Visible(r) \in SUBSET DOMAIN log
  BY DEF Visible
<1>3. PICK c \in Nat : c = Cardinality(Visible(r))
  BY <1>1, <1>2, RanksDiffer
<1>4. \A i \in Visible(r) : Rank(Visible(r), r.order, i) \in Nat /\ Rank(Visible(r), r.order, i) < c
  BY <1>1, <1>2, <1>3, RanksDiffer
<1>5. /\ Len(Sorted(Visible(r), r.order)) = c
      /\ \A i \in Visible(r) : Sorted(Visible(r), r.order)[Rank(Visible(r), r.order, i) + 1] = i
  BY <1>1, <1>2, <1>3, SortedPlaces
<1>6. \A i \in Visible(r) : Rank(Visible(r), r.order, i) + 1 \in 1 .. c
  BY <1>3, <1>4
<1>7. QED
  BY <1>3, <1>5, <1>6 DEF Listed

LEMMA StaysListed ==
  ASSUME NEW r
  PROVE  Listed(r)'
<1>1. Listed(r)
  BY IsListed
<1>2. QED
  BY <1>1, PTL

\* While the clock runs forward, no transaction is of a later time.
LogInOrder ==
    steady => \A i \in DOMAIN log : "transactions" \in log[i].lists => log[i].at <= clock

\* The pages a client has are the beginning of the list; while it reads they
\* are whole.
AscendingOK(r) ==
    LET me == readers[r]
        all == Visible(r)
    IN  /\ Len(me.seen) <= Cardinality(all)
        /\ \A n \in 1 .. Len(me.seen) : me.seen[n] = Sorted(all, r.order)[n]
        /\ me.pc = "idle" => Len(me.seen) = 0
        /\ Reading(r) => Len(me.seen) = (me.page - 1) * PageSize(r)

\* Who reads the transactions from the first on.
Ascends(r) == r.scope = "transactions" /\ r.order = "asc"

AscendingPages == steady => \A r \in Readers : Ascends(r) => AscendingOK(r)

\* A record that is added is the last of the list.
LEMMA AddedLast ==
  ASSUME ReadTyped, LogInOrder, steady, NEW r \in Readers, Ascends(r),
         NEW entry \in LogEntry, log' = Append(log, entry),
         "transactions" \in entry.lists => entry.at = clock
  PROVE  /\ \A i \in Visible(r) : Rank(Visible(r), r.order, i)' = Rank(Visible(r), r.order, i)
         /\ Cardinality(Visible(r)) <= Cardinality(Visible(r)')
         /\ Cardinality(Visible(r)) \in Nat /\ Cardinality(Visible(r)') \in Nat
         /\ \A n \in 1 .. Cardinality(Visible(r)) :
               Sorted(Visible(r), r.order)'[n] = Sorted(Visible(r), r.order)[n]
<1>1. /\ log \in Seq(LogEntry) /\ clock \in Times /\ clock \in Nat
      /\ DOMAIN log = 1 .. Len(log) /\ Len(log) \in Nat
      /\ \A i \in DOMAIN log : log[i].at \in Nat
  BY LogTyped, LimitsType DEF ReadTyped
<1>2. /\ Len(log') = Len(log) + 1 /\ DOMAIN log' = DOMAIN log \cup {Len(log) + 1}
      /\ \A i \in DOMAIN log : log'[i] = log[i]
      /\ log'[Len(log) + 1] = entry
      /\ Visible(r) \subseteq Visible(r)' /\ Visible(r)' \subseteq Visible(r) \cup {Len(log) + 1}
  BY <1>1, RanksGrow
<1>3. Visible(r) \in SUBSET DOMAIN log
  BY DEF Visible
<1>4. \A i \in Visible(r) : log[i].at <= clock
  BY DEF LogInOrder, Visible, Ascends
<1>5. ASSUME NEW i \in Visible(r)
      PROVE  Ahead(Visible(r), r.order, i)' = Ahead(Visible(r), r.order, i)
  <2>1. i \in DOMAIN log /\ i <= Len(log) /\ log[i].at <= clock
    BY <1>1, <1>3, <1>4
  <2>2. PICK n : n = Len(log) + 1 /\ (n \in Visible(r)' => ~ Before(r.order, n, i)')
    <3>1. PICK n : n = Len(log) + 1
      OBVIOUS
    <3> SUFFICES ASSUME n \in Visible(r)' PROVE ~ Before(r.order, n, i)'
      BY <3>1
    <3>5. entry.at = clock
      BY <1>2, <3>1 DEF Visible, Ascends
    <3>2. /\ log'[n].at = clock /\ log'[i].at = log[i].at /\ log[i].at \in Nat
          /\ n \in Nat /\ i \in Nat /\ i < n
      BY <1>1, <1>2, <2>1, <3>1, <3>5
    <3>3. ~ Before(r.order, n, i)'
      BY <1>1, <2>1, <3>2 DEF Before, Ascends
    <3>4. QED
      BY <3>3
  <2>3. \A j \in DOMAIN log : Before(r.order, j, i)' = Before(r.order, j, i)
    BY <1>2, <2>1 DEF Before
  <2>4. ASSUME NEW j PROVE j \in Ahead(Visible(r), r.order, i)' <=> j \in Ahead(Visible(r), r.order, i)
    <3>1. j \in Visible(r)' /\ Before(r.order, j, i)' <=> j \in Visible(r) /\ Before(r.order, j, i)
      BY <1>2, <1>3, <2>2, <2>3
    <3>2. QED
      BY <3>1 DEF Ahead
  <2>5. QED
    BY <2>4
<1>6. \A i \in Visible(r) : Rank(Visible(r), r.order, i)' = Rank(Visible(r), r.order, i)
  BY <1>5 DEF Rank
<1>7. /\ IsFiniteSet(Visible(r)') /\ Cardinality(Visible(r)) <= Cardinality(Visible(r)')
      /\ Cardinality(Visible(r)) \in Nat /\ Cardinality(Visible(r)') \in Nat
  <2>1. IsFiniteSet(Visible(r)')
    <3>1. IsFiniteSet(Visible(r) \cup {Len(log) + 1})
      <4>1. IsFiniteSet(Visible(r))
        BY <1>1, <1>3, RanksDiffer
      <4>2. QED
        BY <4>1, FS_AddElement
    <3>2. QED
      BY <1>2, <3>1, FS_Subset
  <2>2. QED
    BY <1>2, <2>1, FS_Subset, FS_CardinalityType
<1>8. ASSUME NEW n \in 1 .. Cardinality(Visible(r))
      PROVE  Sorted(Visible(r), r.order)'[n] = Sorted(Visible(r), r.order)[n]
  <2>1. PICK i \in Visible(r) : i = Sorted(Visible(r), r.order)[n] /\ Rank(Visible(r), r.order, i) = n - 1
    BY <1>1, <1>3, SortedPlaces
  <2>2. i \in Visible(r)' /\ Rank(Visible(r), r.order, i)' = n - 1
    BY <1>2, <1>6, <2>1
  <2>3. Listed(r)'
    BY StaysListed
  <2>4. log' \in Seq(LogEntry)
    BY <1>1, AppendProperties
  <2>5. Sorted(Visible(r), r.order)'[n - 1 + 1] = i
    BY <2>2, <2>3, <2>4 DEF Listed, LogEntry
  <2>6. n - 1 + 1 = n
    BY <1>7
  <2>7. QED
    BY <2>1, <2>5, <2>6
<1>9. QED
  BY <1>6, <1>7, <1>8

\* A page goes on where the client's pages ended.
LEMMA PageExtends ==
  ASSUME ReadTyped, PagesNumbered, NEW r \in Readers, List(r), Ascends(r), AscendingOK(r)
  PROVE  AscendingOK(r)'
<1>1. /\ log \in Seq(LogEntry) /\ readers[r] \in Reader
      /\ Visible(r) \in SUBSET DOMAIN log
  BY DEF ReadTyped, Visible
<1>2. PICK items : items = Page(r, readers[r].page)
  OBVIOUS
<1>3. /\ readers[r].pc = "list" /\ readers[r].page \in Nat \ {0}
      /\ readers[r].seen \in Seq(Nat) /\ items \in Seq(Nat)
      /\ readers'[r].seen = readers[r].seen \o items
      /\ IF LastPage(r, items) THEN readers'[r].pc = "done"
         ELSE readers'[r].pc = "ask" /\ readers'[r].page = readers[r].page + 1
  BY <1>2, ListReads
<1>4. UNCHANGED log
  BY DEF List
<1>5. Visible(r)' = Visible(r) /\ Sorted(Visible(r), r.order)' = Sorted(Visible(r), r.order)
  BY <1>4 DEF Visible, Sorted, Before
<1>6. PICK s \in Nat \ {0} : s = PageSize(r)
  BY LimitsType
<1>7. PICK page \in Nat \ {0} : page = readers[r].page
  BY <1>3
<1>8. PICK first \in Nat : first = (page - 1) * s /\ page * s = first + s
  <2>1. PICK p \in Nat : p = page - 1 /\ page = p + 1
    BY <1>7
  <2>2. (p + 1) * s = p * s + s /\ p * s \in Nat
    BY <1>6
  <2>3. QED
    BY <2>1, <2>2
<1>9. PICK c \in Nat : c = Cardinality(Visible(r))
  BY <1>1, RanksDiffer
<1>10. PICK old \in Seq(Nat) : old = readers[r].seen
  BY <1>3
<1>11. PICK list : list = Sorted(Visible(r), r.order)
  OBVIOUS
<1>12. Len(old) = first /\ first <= c /\ \A n \in 1 .. first : old[n] = list[n]
  BY <1>3, <1>6, <1>7, <1>8, <1>9, <1>10, <1>11 DEF AscendingOK, Reading
<1>13. PICK last \in Nat : last = (IF first + s <= c THEN first + s ELSE c) /\ first <= last /\ last <= c
  BY <1>6, <1>12
<1>14. /\ items \in Seq(Visible(r))
       /\ Len(items) = last - first
       /\ \A n \in 1 .. last - first : items[n] = list[first + n]
  <2>1. last = LeastOf(page * PageSize(r), Cardinality(Visible(r)))
    BY <1>6, <1>8, <1>9, <1>13 DEF LeastOf
  <2>2. /\ items \in Seq(Visible(r))
        /\ Len(items) = IF first < last THEN last - first ELSE 0
        /\ \A n \in 1 .. last - first : items[n] = list[first + n]
    BY <1>1, <1>2, <1>6, <1>7, <1>8, <1>11, <2>1, PageHolds
  <2>3. QED
    BY <1>13, <2>2
<1>15. PICK seen \in Seq(Nat) : /\ seen = old \o items /\ Len(seen) = last
                                /\ \A n \in 1 .. last : seen[n] = list[n]
  <2>1. /\ old \o items \in Seq(Nat) /\ Len(old \o items) = Len(old) + Len(items)
        /\ \A n \in 1 .. Len(old) + Len(items) :
              (old \o items)[n] = IF n <= Len(old) THEN old[n] ELSE items[n - Len(old)]
    BY <1>3, ConcatProperties
  <2>2. Len(old) + Len(items) = last
    BY <1>12, <1>13, <1>14
  <2>3. ASSUME NEW n \in 1 .. last PROVE (old \o items)[n] = list[n]
    <3>1. CASE n <= first
      <4>1. (old \o items)[n] = old[n]
        BY <1>12, <2>1, <2>2, <3>1
      <4>2. QED
        BY <1>12, <3>1, <4>1
    <3>2. CASE n > first
      <4>1. n - first \in 1 .. last - first /\ first + (n - first) = n
        BY <3>2
      <4>2. (old \o items)[n] = items[n - first]
        BY <1>12, <2>1, <2>2, <3>2
      <4>3. QED
        BY <1>14, <4>1, <4>2
    <3>3. n <= first \/ n > first
      OBVIOUS
    <3>4. QED
      BY <3>1, <3>2, <3>3
  <2>4. QED
    BY <2>1, <2>2, <2>3
<1>16. readers'[r].seen = seen
  BY <1>3, <1>10, <1>15
<1>17. /\ Len(readers'[r].seen) <= Cardinality(Visible(r)')
       /\ \A n \in 1 .. Len(readers'[r].seen) : readers'[r].seen[n] = Sorted(Visible(r), r.order)'[n]
  BY <1>5, <1>9, <1>11, <1>13, <1>15, <1>16
<1>18. CASE LastPage(r, items)
  <2>1. readers'[r].pc = "done"
    BY <1>3, <1>18
  <2>2. QED
    BY <1>17, <2>1 DEF AscendingOK, Reading
<1>19. CASE ~ LastPage(r, items)
  <2>1. readers'[r].pc = "ask" /\ readers'[r].page = page + 1
    BY <1>3, <1>7, <1>19
  <2>2. last = first + s
    <3>1. r.stop # "total"
      BY ReadersAssumption DEF Ascends
    <3>2. ~ (last - first < s)
      BY <1>6, <1>14, <1>19, <3>1 DEF LastPage
    <3>3. QED
      BY <1>13, <3>2
  <2>3. (readers'[r].page - 1) * PageSize(r) = last
    <3>1. page + 1 - 1 = page
      OBVIOUS
    <3>2. QED
      BY <1>6, <1>8, <2>1, <2>2, <3>1
  <2>4. QED
    BY <1>15, <1>16, <1>17, <2>1, <2>3 DEF AscendingOK, Reading
<1>20. QED
  BY <1>18, <1>19

LEMMA AscendingStep ==
  ASSUME ReadTyped, PagesNumbered, LogInOrder, AscendingPages, [Next]_vars
  PROVE  LogInOrder' /\ AscendingPages'
<1>1. SUFFICES ASSUME steady'
               PROVE  /\ \A i \in DOMAIN log' : "transactions" \in log'[i].lists => log'[i].at <= clock'
                      /\ \A r \in Readers : Ascends(r) => AscendingOK(r)'
  BY DEF LogInOrder, AscendingPages, Ascends
<1>2. /\ log \in Seq(LogEntry) /\ clock \in Nat
      /\ \A i \in DOMAIN log : log[i].at \in Nat
      /\ \A r \in Readers : readers[r] \in Reader /\ Visible(r) \in SUBSET DOMAIN log
  BY LogTyped, LimitsType DEF ReadTyped, Visible
<1>3. ~ SetBack
  BY <1>1 DEF SetBack
<1>4. steady
  <2>1. CASE Adding
    BY <1>1, <2>1, AddsOne
  <2>2. QED
    BY <1>1, <1>3, <2>1 DEF Next, Adding, Start, Ask, Count, List, Tick, vars
<1>5. /\ \A i \in DOMAIN log : "transactions" \in log[i].lists => log[i].at <= clock
      /\ \A r \in Readers : Ascends(r) => AscendingOK(r)
  BY <1>4 DEF LogInOrder, AscendingPages
<1>6. ASSUME Adding
      PROVE  /\ \A i \in DOMAIN log' : "transactions" \in log'[i].lists => log'[i].at <= clock'
             /\ \A r \in Readers : Ascends(r) => AscendingOK(r)'
  <2>1. PICK entry \in LogEntry : log' = Append(log, entry) /\ ("transactions" \in entry.lists => entry.at = clock)
    BY <1>6, AddsOne
  <2>2. UNCHANGED <<readers, clock>>
    BY <1>6, AddsOne
  <2>3. /\ DOMAIN log' = DOMAIN log \cup {Len(log) + 1}
        /\ \A i \in DOMAIN log : log'[i] = log[i]
        /\ log'[Len(log) + 1] = entry
    BY <1>2, <2>1, RanksGrow
  <2>4. \A i \in DOMAIN log' : "transactions" \in log'[i].lists => log'[i].at <= clock'
    BY <1>2, <1>5, <2>1, <2>2, <2>3
  <2>5. ASSUME NEW r \in Readers, Ascends(r) PROVE AscendingOK(r)'
    <3>1. AscendingOK(r)
      BY <1>5, <2>5
    <3>2. /\ Cardinality(Visible(r)) <= Cardinality(Visible(r)')
          /\ Cardinality(Visible(r)) \in Nat /\ Cardinality(Visible(r)') \in Nat
          /\ \A n \in 1 .. Cardinality(Visible(r)) :
                Sorted(Visible(r), r.order)'[n] = Sorted(Visible(r), r.order)[n]
      BY <1>4, <2>1, <2>5, AddedLast
    <3>3. PICK me \in Reader : me = readers[r] /\ readers'[r] = me
      BY <1>2, <2>2
    <3>4. Len(me.seen) \in Nat /\ Len(me.seen) <= Cardinality(Visible(r))
      BY <3>1, <3>3, LenProperties DEF AscendingOK, Reader
    <3>5. /\ Len(me.seen) <= Cardinality(Visible(r)')
          /\ \A n \in 1 .. Len(me.seen) : me.seen[n] = Sorted(Visible(r), r.order)'[n]
      BY <3>1, <3>2, <3>3, <3>4 DEF AscendingOK
    <3>6. QED
      BY <3>1, <3>3, <3>5 DEF AscendingOK, Reading
  <2>6. QED
    BY <2>4, <2>5
<1>7. ASSUME NEW q \in Readers, Ascends(q), UNCHANGED log, readers'[q].seen = readers[q].seen,
             readers'[q].pc = "idle" => readers[q].pc = "idle",
             Reading(q)' => \/ Reading(q) /\ readers'[q].page = readers[q].page
                            \/ readers[q].pc = "idle" /\ readers'[q].page = 1
      PROVE  AscendingOK(q)'
  <2>1. AscendingOK(q)
    BY <1>5, <1>7
  <2>2. Visible(q)' = Visible(q) /\ Sorted(Visible(q), q.order)' = Sorted(Visible(q), q.order)
    BY <1>7 DEF Visible, Sorted, Before
  <2>3. (1 - 1) * PageSize(q) = 0
    BY LimitsType
  <2>4. QED
    BY <1>7, <2>1, <2>2, <2>3 DEF AscendingOK
<1>8. ASSUME NEW q \in Readers, Ascends(q), UNCHANGED log, readers'[q] = readers[q]
      PROVE  AscendingOK(q)'
  BY <1>7, <1>8 DEF Reading
<1>9. ASSUME NEW r \in Readers, Start(r) \/ Ask(r) \/ Count(r) \/ List(r)
      PROVE  UNCHANGED <<log, clock>> /\ \A q \in Readers : q # r => readers'[q] = readers[q]
  <2>1. UNCHANGED <<log, clock>>
    BY <1>9 DEF Start, Ask, Count, List
  <2>2. CASE Ask(r)
    BY <2>1, <2>2, AskReads
  <2>3. CASE Start(r) \/ Count(r) \/ List(r)
    BY <2>1, <2>3 DEF Start, Count, List, ReadTyped
  <2>4. QED
    BY <1>9, <2>2, <2>3
<1>10. ASSUME NEW r \in Readers, Ascends(r), Start(r) \/ Ask(r) \/ Count(r) PROVE AscendingOK(r)'
  <2>1. CASE Start(r)
    <3>1. /\ readers[r].pc = "idle" /\ readers'[r].page = 1 /\ readers'[r].pc = "ask"
          /\ readers'[r].seen = readers[r].seen
      BY <1>2, <2>1 DEF Start, ReadTyped, Reader
    <3>2. QED
      BY <1>7, <1>9, <1>10, <3>1
  <2>2. CASE Ask(r)
    <3>1. /\ readers[r].pc = "ask" /\ readers'[r].pc # "idle"
          /\ readers'[r].page = readers[r].page /\ readers'[r].seen = readers[r].seen
      BY <2>2, AskReads
    <3>2. QED
      BY <1>7, <1>9, <1>10, <3>1 DEF Reading
  <2>3. CASE Count(r)
    <3>1. /\ readers[r].pc = "count" /\ readers'[r].pc = "list"
          /\ readers'[r].page = readers[r].page /\ readers'[r].seen = readers[r].seen
      BY <1>2, <2>3 DEF Count, ReadTyped, Reader
    <3>2. QED
      BY <1>7, <1>9, <1>10, <3>1 DEF Reading
  <2>4. QED
    BY <1>10, <2>1, <2>2, <2>3
<1>11. CASE \E r \in Readers : Start(r) \/ Ask(r) \/ Count(r) \/ List(r)
  <2>1. PICK r \in Readers : Start(r) \/ Ask(r) \/ Count(r) \/ List(r)
    BY <1>11
  <2>2. ASSUME NEW q \in Readers, Ascends(q), q # r PROVE AscendingOK(q)'
    BY <1>8, <1>9, <2>1, <2>2
  <2>3. ASSUME Ascends(r) PROVE AscendingOK(r)'
    <3>1. CASE List(r)
      BY <1>5, <2>3, <3>1, PageExtends
    <3>2. QED
      BY <1>10, <2>1, <2>3, <3>1
  <2>4. QED
    BY <1>5, <1>9, <2>1, <2>2, <2>3
<1>12. CASE Tick \/ UNCHANGED vars
  <2>1. UNCHANGED <<readers, log>> /\ clock' \in Nat /\ clock' >= clock
    BY <1>2, <1>12 DEF Tick, vars
  <2>2. QED
    BY <1>2, <1>5, <1>8, <2>1
<1>13. QED
  BY <1>3, <1>6, <1>11, <1>12 DEF Next, Adding

-----------------------------------------------------------------------------
(* The theorems.                                                           *)

ReadInv ==
    /\ ReadTyped /\ PagesNumbered
    /\ DeniedOnce /\ RateOK
    /\ PagesOK /\ TotalOK
    /\ LogInOrder /\ AscendingPages

LEMMA AlwaysReadInv == Spec => []ReadInv
<1>1. Init => ReadInv
  <2>1. SUFFICES ASSUME Init PROVE ReadInv
    OBVIOUS
  <2>2. Idle \in Reader /\ Len(Idle.seen) = 0
    BY EmptySeq DEF Idle, Reader
  <2>3. clock \in Times /\ DOMAIN windows = {} /\ log \in Seq(LogEntry) /\ DOMAIN log = {}
    <3>1. <<>> \in Seq(LogEntry) /\ Len(<<>>) = 0
      BY EmptySeq
    <3>2. DOMAIN log = 1 .. Len(log) /\ Len(log) = 0
      BY <2>1, <3>1, LenProperties DEF Init
    <3>3. QED
      BY <2>1, <3>1, <3>2, BoundAssumption DEF Init, Times
  <2>4. \A r \in Readers : readers[r] = Idle
    BY <2>1 DEF Init
  <2>5. ReadTyped
    <3>1. grants \in [AllBuckets -> [Times -> Nat]]
      BY <2>1 DEF Init, AllBuckets
    <3>2. readers \in [Readers -> Reader]
      BY <2>1, <2>2 DEF Init
    <3>3. steady \in BOOLEAN
      BY <2>1 DEF Init
    <3>4. expiring \in Times \cup {Null}
      BY <2>1 DEF Init
    <3>5. QED
      BY <2>3, <3>1, <3>2, <3>3, <3>4 DEF ReadTyped
  <2>6. PagesNumbered /\ DeniedOnce
    BY <2>4 DEF PagesNumbered, Reading, Idle, DeniedOnce
  <2>7. RateOK
    BY <2>1, <2>3 DEF RateOK, GrantsPast, Init, AllBuckets
  <2>8. PagesOK /\ TotalOK
    BY <2>4 DEF PagesOK, TotalOK, Reading, Idle
  <2>9. LogInOrder
    BY <2>3 DEF LogInOrder
  <2>10. AscendingPages
    <3>1. ASSUME NEW r \in Readers PROVE AscendingOK(r)
      <4>1. readers[r] = Idle /\ Len(readers[r].seen) = 0
        BY <2>2, <2>4
      <4>2. Cardinality(Visible(r)) \in Nat
        BY <2>3, RanksDiffer DEF Visible
      <4>3. QED
        BY <4>1, <4>2 DEF AscendingOK, Reading, Idle
    <3>2. QED
      BY <3>1 DEF AscendingPages
  <2>11. QED
    BY <2>5, <2>6, <2>7, <2>8, <2>9, <2>10 DEF ReadInv
<1>2. ReadInv /\ [Next]_vars => ReadInv'
  BY TypedStep, DeniedStep, RateStep, PagesStep, TotalStep, AscendingStep DEF ReadInv
<1>3. QED
  BY <1>1, <1>2, PTL DEF Spec

\* Who reads until a page is short has seen all there was when it began, in
\* either order, for any pages, records and clock.
THEOREM NothingIsMissed == Spec => []PagesMissNothing
<1>1. ReadInv => PagesMissNothing
  BY DEF ReadInv, PagesOK, PagesMissNothing
<1>2. QED
  BY <1>1, AlwaysReadInv, PTL

\* Who stops by the total has missed no more than was added between the two
\* reads of its last reply, whatever times the records have and the clock does.
THEOREM TotalMissesLittle == Spec => []TotalMissesOnlyLate
<1>1. ReadInv => TotalMissesOnlyLate
  BY DEF ReadInv, TotalOK, TotalMissesOnlyLate
<1>2. QED
  BY <1>1, AlwaysReadInv, PTL

\* While the clock runs forward, the ascending pages of GET /transactions put
\* together are the list itself, however many are added between them.
THEOREM AscendingPagesAreTheList == Spec => []AscendingPagesAreExact
<1>1. ReadInv => AscendingPagesAreExact
  <2>1. SUFFICES ASSUME ReadInv, steady, NEW r \in Readers, Ascends(r)
                 PROVE  readers[r].seen = SubSeq(Sorted(Visible(r), "asc"), 1, Len(readers[r].seen))
    BY DEF AscendingPagesAreExact, Ascends
  <2>2. /\ log \in Seq(LogEntry) /\ Visible(r) \in SUBSET DOMAIN log /\ AscendingOK(r)
        /\ DOMAIN log \subseteq Nat
    BY <2>1, LogTyped DEF ReadInv, ReadTyped, Visible, AscendingPages
  <2>3. PICK seen \in Seq(Nat), n \in Nat : seen = readers[r].seen /\ n = Len(seen) /\ DOMAIN seen = 1 .. n
    BY <2>1, LenProperties DEF ReadInv, ReadTyped, Reader
  <2>4. PICK list : list = Sorted(Visible(r), "asc")
    OBVIOUS
  <2>9. PICK c \in Nat : c = Cardinality(Visible(r)) /\ n <= c
    BY <2>2, <2>3, RanksDiffer DEF AscendingOK
  <2>5. \A k \in 1 .. n : seen[k] = list[k] /\ list[k] \in Nat
    BY <2>1, <2>2, <2>3, <2>4, <2>9, SortedPlaces DEF AscendingOK, Ascends
  <2>6. seen = SubSeq(list, 1, n)
    <3>1. /\ SubSeq(list, 1, n) \in Seq(Nat)
          /\ Len(SubSeq(list, 1, n)) = IF 1 <= n THEN n - 1 + 1 ELSE 0
          /\ \A k \in 1 .. n - 1 + 1 : SubSeq(list, 1, n)[k] = list[1 + k - 1]
      BY <2>5, SubSeqProperties
    <3>2. Len(SubSeq(list, 1, n)) = n
      BY <3>1
    <3>3. \A k \in 1 .. n : SubSeq(list, 1, n)[k] = seen[k]
      <4>1. \A k \in 1 .. n : k \in 1 .. n - 1 + 1 /\ 1 + k - 1 = k
        OBVIOUS
      <4>2. QED
        BY <2>5, <3>1, <4>1
    <3>4. QED
      BY <2>3, <3>1, <3>2, <3>3, SeqEqual
  <2>7. QED
    BY <2>3, <2>4, <2>6
<1>2. QED
  BY <1>1, AlwaysReadInv, PTL

\* Whoever waits as long as Retry-After says is denied once by a window.
THEOREM NobodyIsDeniedTwice == Spec => []DeniedOncePerWindow
<1>1. ReadInv => DeniedOncePerWindow
  BY DEF ReadInv, DeniedOnce, DeniedOncePerWindow
<1>2. QED
  BY <1>1, AlwaysReadInv, PTL

\* Between its first moment and its last, a window on record has let through
\* no more than the highest limit of those who share its bucket.
THEOREM RateIsKept == Spec => []RateIsBounded
<1>1. ReadInv => RateIsBounded
  <2>1. SUFFICES ASSUME ReadInv, steady, NEW b \in DOMAIN windows
                 PROVE  \E r \in Readers :
                           /\ Bucket(r) = b
                           /\ Cardinality(Granted(b, windows[b].resetAt - Window, windows[b].resetAt)) <= LimitOf(r)
    BY DEF RateIsBounded
  <2>2. WindowOK(b)
    BY <2>1 DEF ReadInv, RateOK, ReadTyped
  <2>3. QED
    BY <2>2 DEF WindowOK
<1>2. QED
  BY <1>1, AlwaysReadInv, PTL

=============================================================================
