---------------------------- MODULE LedgerProofs ----------------------------
(***************************************************************************)
(* Theorems about the ledger for every value of its constants (any set of  *)
(* tenants, actors and inputs, and any bounds): its types, balances that   *)
(* never go negative, and sound reversals.                                 *)
(***************************************************************************)
EXTENDS LedgerProperties, FiniteSetTheorems, SequenceTheorems, WellFoundedInduction, TLAPS

-----------------------------------------------------------------------------
(* SumFunctionOnSet, the sum of a function over a finite set of arguments, *)
(* on which the arithmetic of the ledger rests: sum(entries) and the       *)
(* staged balances of src/services/ledger-service.ts are such sums.  The   *)
(* community modules define it by a recursive function over subsets, which *)
(* the first lemmas unfold.  Induction over finite sets is by a minimal    *)
(* counterexample, which WFMin gives without an operator parameter.        *)

\* The element the recursive definition takes next.
Pick(s) == CHOOSE x \in s : TRUE

\* g is the recursive function that sums f over the subsets of S.
IsSummer(g, f, S) ==
    g = [s \in SUBSET S |-> IF s = {} THEN 0 ELSE f[Pick(s)] + g[s \ {Pick(s)}]]

\* The sum is the value at the whole set of the recursive function over its
\* subsets.
LEMMA SumUnfold ==
  ASSUME NEW f, NEW S
  PROVE  SumFunctionOnSet(f, S) = (CHOOSE g : IsSummer(g, f, S))[S]
BY DEF SumFunctionOnSet, FoldFunctionOnSet, MapThenFoldSet, IsSummer, Pick

\* A non-empty collection of finite sets has a smallest one by inclusion.
LEMMA MinimalFiniteSet ==
  ASSUME NEW S, NEW T, T \subseteq FiniteSubsetsOf(S), T # {}
  PROVE  \E x \in T : \A y \in T : ~ (y \subseteq x /\ y # x)
<1>1. IsWellFoundedOn(StrictSubsetOrdering(S), FiniteSubsetsOf(S))
  BY FS_StrictSubsetOrderingWellFounded
<1>2. PICK x \in T : \A y \in T : ~ (<<y, x>> \in StrictSubsetOrdering(S))
  BY <1>1, WFMin
<1>3. QED
  BY <1>2 DEF StrictSubsetOrdering, FiniteSubsetsOf

\* Recursive sums over two sets agree on the sets both are defined for.
LEMMA SummersAgree ==
  ASSUME NEW f, NEW A, NEW B, NEW g, NEW h, IsFiniteSet(A),
         IsSummer(g, f, A), IsSummer(h, f, B),
         NEW u \in SUBSET (A \cap B)
  PROVE  g[u] = h[u]
<1> DEFINE Bad == {v \in SUBSET (A \cap B) : g[v] # h[v]}
<1>1. SUFFICES ASSUME Bad # {} PROVE FALSE
  OBVIOUS
<1>2. Bad \subseteq FiniteSubsetsOf(A)
  BY FS_Subset DEF FiniteSubsetsOf
<1>3. PICK v \in Bad : \A y \in Bad : ~ (y \subseteq v /\ y # v)
  <2> HIDE DEF Bad
  <2> QED BY <1>1, <1>2, MinimalFiniteSet
<1>4. v # {}
  BY <1>3 DEF IsSummer
<1>5. Pick(v) \in v
  BY <1>4 DEF Pick
<1>6. g[v \ {Pick(v)}] = h[v \ {Pick(v)}]
  BY <1>3, <1>5
<1>7. g[v] = f[Pick(v)] + g[v \ {Pick(v)}]
  BY <1>3, <1>4 DEF IsSummer
<1>8. h[v] = f[Pick(v)] + h[v \ {Pick(v)}]
  BY <1>3, <1>4 DEF IsSummer
<1>9. QED
  BY <1>3, <1>6, <1>7, <1>8

\* A recursive sum over a set is one over each of its subsets.
LEMMA SummerRestricts ==
  ASSUME NEW f, NEW A, NEW B \in SUBSET A, NEW g, IsSummer(g, f, A)
  PROVE  IsSummer([s \in SUBSET B |-> g[s]], f, B)
<1> DEFINE h == [s \in SUBSET B |-> g[s]]
<1>1. ASSUME NEW s \in SUBSET B
      PROVE  h[s] = IF s = {} THEN 0 ELSE f[Pick(s)] + h[s \ {Pick(s)}]
  BY DEF IsSummer
<1>2. h = [s \in SUBSET B |-> h[s]]
  OBVIOUS
<1>3. QED
  <2> HIDE DEF h
  <2> QED BY <1>1, <1>2 DEF IsSummer

\* There is a recursive sum over every finite set.
LEMMA SummerExists ==
  ASSUME NEW f, NEW S, IsFiniteSet(S)
  PROVE  \E g : IsSummer(g, f, S)
<1> DEFINE Bad == {u \in SUBSET S : ~ \E g : IsSummer(g, f, u)}
<1>1. SUFFICES ASSUME Bad # {} PROVE FALSE
  OBVIOUS
<1>2. Bad \subseteq FiniteSubsetsOf(S)
  BY FS_Subset DEF FiniteSubsetsOf
<1>3. PICK v \in Bad : \A y \in Bad : ~ (y \subseteq v /\ y # v)
  <2> HIDE DEF Bad
  <2> QED BY <1>1, <1>2, MinimalFiniteSet
<1> DEFINE G(u) == CHOOSE g : IsSummer(g, f, u)
<1>4. \A u \in SUBSET v : u # v => IsSummer(G(u), f, u)
  BY <1>3
<1>5. ASSUME NEW u \in SUBSET v, NEW w \in SUBSET u, u # v
      PROVE  G(u)[w] = G(w)[w]
  <2>1. IsFiniteSet(u)
    BY <1>2, <1>3, FS_Subset DEF FiniteSubsetsOf
  <2>2. w # v
    BY <1>5
  <2>3. IsSummer(G(u), f, u) /\ IsSummer(G(w), f, w)
    BY <1>4, <1>5, <2>2
  <2>4. w \in SUBSET (u \cap w)
    OBVIOUS
  <2> HIDE DEF G
  <2>5. QED
    BY <2>1, <2>3, <2>4, SummersAgree
<1> DEFINE Val(s) == IF s = {} THEN 0 ELSE f[Pick(s)] + G(s \ {Pick(s)})[s \ {Pick(s)}]
           g == [s \in SUBSET v |-> Val(s)]
<1>6. ASSUME NEW s \in SUBSET v, s # {}
      PROVE  g[s \ {Pick(s)}] = G(s \ {Pick(s)})[s \ {Pick(s)}]
  <2> DEFINE r == s \ {Pick(s)}
  <2>1. Pick(s) \in s
    BY <1>6 DEF Pick
  <2>2. r \in SUBSET v /\ r # v
    BY <2>1
  <2>3. IsSummer(G(r), f, r)
    BY <1>4, <2>2
  <2>4. CASE r = {}
    <3>1. g[r] = 0
      BY <2>2, <2>4
    <3>2. G(r)[r] = 0
      <4> HIDE DEF G
      <4> QED BY <2>3, <2>4 DEF IsSummer
    <3>3. QED BY <3>1, <3>2
  <2>5. CASE r # {}
    <3>1. Pick(r) \in r
      BY <2>5 DEF Pick
    <3>2. g[r] = f[Pick(r)] + G(r \ {Pick(r)})[r \ {Pick(r)}]
      BY <2>2, <2>5
    <3>3. G(r)[r] = f[Pick(r)] + G(r)[r \ {Pick(r)}]
      <4> HIDE DEF G, r
      <4> QED BY <2>3, <2>5 DEF IsSummer
    <3>4. r \ {Pick(r)} \in SUBSET r
      OBVIOUS
    <3>5. G(r)[r \ {Pick(r)}] = G(r \ {Pick(r)})[r \ {Pick(r)}]
      <4> HIDE DEF G, r
      <4> QED BY <2>2, <3>4, <1>5
    <3>6. QED BY <3>2, <3>3, <3>5
  <2>6. QED BY <2>4, <2>5
<1>7. IsSummer(g, f, v)
  <2>1. ASSUME NEW s \in SUBSET v
        PROVE  g[s] = IF s = {} THEN 0 ELSE f[Pick(s)] + g[s \ {Pick(s)}]
    <3>1. g[s] = Val(s)
      OBVIOUS
    <3>2. CASE s = {}
      BY <3>1, <3>2
    <3>3. CASE s # {}
      <4>1. g[s] = f[Pick(s)] + G(s \ {Pick(s)})[s \ {Pick(s)}]
        BY <3>1, <3>3
      <4>2. g[s \ {Pick(s)}] = G(s \ {Pick(s)})[s \ {Pick(s)}]
        BY <3>3, <1>6
      <4> HIDE DEF g, G
      <4>3. QED BY <3>3, <4>1, <4>2
    <3>4. QED BY <3>2, <3>3
  <2>2. g = [s \in SUBSET v |-> g[s]]
    OBVIOUS
  <2> HIDE DEF g
  <2>3. QED BY <2>1, <2>2 DEF IsSummer
<1>8. QED
  BY <1>3, <1>7

\* The sum of nothing is 0: a transaction without entries for an account
\* leaves its balance alone.
THEOREM SumEmpty ==
  ASSUME NEW f
  PROVE  SumFunctionOnSet(f, {}) = 0
<1>1. \E g : IsSummer(g, f, {})
  BY SummerExists, FS_EmptySet
<1>2. IsSummer(CHOOSE g : IsSummer(g, f, {}), f, {})
  BY <1>1
<1>3. QED
  BY <1>2, SumUnfold DEF IsSummer

\* A sum over a non-empty set is the value at one element plus the rest.
LEMMA SumPick ==
  ASSUME NEW f, NEW S, IsFiniteSet(S), S # {}
  PROVE  /\ Pick(S) \in S
         /\ SumFunctionOnSet(f, S) = f[Pick(S)] + SumFunctionOnSet(f, S \ {Pick(S)})
<1> DEFINE r == S \ {Pick(S)}
           g == CHOOSE g : IsSummer(g, f, S)
           h == CHOOSE h : IsSummer(h, f, r)
<1>1. Pick(S) \in S
  BY DEF Pick
<1>2. IsFiniteSet(r)
  BY FS_Subset
<1>3. IsSummer(g, f, S)
  BY SummerExists
<1>4. IsSummer(h, f, r)
  BY <1>2, SummerExists
<1>5. SumFunctionOnSet(f, S) = g[S] /\ SumFunctionOnSet(f, r) = h[r]
  BY SumUnfold
<1>6. g[r] = h[r]
  <2>1. r \in SUBSET (S \cap r)
    OBVIOUS
  <2> HIDE DEF g, h
  <2>2. QED BY <1>3, <1>4, <2>1, SummersAgree
<1>7. g[S] = f[Pick(S)] + g[r]
  <2> HIDE DEF g
  <2> QED BY <1>3 DEF IsSummer
<1>8. QED
  BY <1>1, <1>5, <1>6, <1>7

\* A sum of integers is an integer.
THEOREM SumInt ==
  ASSUME NEW S, IsFiniteSet(S), NEW f, \A x \in S : f[x] \in Int
  PROVE  SumFunctionOnSet(f, S) \in Int
<1> DEFINE Bad == {u \in SUBSET S : SumFunctionOnSet(f, u) \notin Int}
<1>1. SUFFICES ASSUME Bad # {} PROVE FALSE
  OBVIOUS
<1>2. Bad \subseteq FiniteSubsetsOf(S)
  BY FS_Subset DEF FiniteSubsetsOf
<1>3. PICK v \in Bad : \A y \in Bad : ~ (y \subseteq v /\ y # v)
  <2> HIDE DEF Bad
  <2> QED BY <1>1, <1>2, MinimalFiniteSet
<1>4. IsFiniteSet(v)
  BY <1>2, <1>3 DEF FiniteSubsetsOf
<1>5. v # {}
  <2>1. SumFunctionOnSet(f, v) \notin Int
    BY <1>3
  <2>2. SumFunctionOnSet(f, {}) = 0
    BY SumEmpty
  <2>3. QED BY <2>1, <2>2
<1>6. Pick(v) \in v /\ SumFunctionOnSet(f, v) = f[Pick(v)] + SumFunctionOnSet(f, v \ {Pick(v)})
  BY <1>4, <1>5, SumPick
<1>7. SumFunctionOnSet(f, v \ {Pick(v)}) \in Int
  BY <1>3, <1>6
<1>8. f[Pick(v)] \in Int
  BY <1>3, <1>6
<1>9. QED
  BY <1>3, <1>6, <1>7, <1>8

\* Any element of the set can be taken out of the sum.
THEOREM SumRemove ==
  ASSUME NEW S, IsFiniteSet(S), NEW f, \A x \in S : f[x] \in Int, NEW y \in S
  PROVE  SumFunctionOnSet(f, S) = f[y] + SumFunctionOnSet(f, S \ {y})
<1> DEFINE Sum(u) == SumFunctionOnSet(f, u)
           Bad == {u \in SUBSET S : \E z \in u : Sum(u) # f[z] + Sum(u \ {z})}
<1>1. SUFFICES ASSUME Bad # {} PROVE FALSE
  OBVIOUS
<1>2. Bad \subseteq FiniteSubsetsOf(S)
  BY FS_Subset DEF FiniteSubsetsOf
<1>3. PICK v \in Bad : \A w \in Bad : ~ (w \subseteq v /\ w # v)
  <2> HIDE DEF Bad
  <2> QED BY <1>1, <1>2, MinimalFiniteSet
<1>4. PICK z \in v : Sum(v) # f[z] + Sum(v \ {z})
  BY <1>3
<1>5. v \in SUBSET S /\ IsFiniteSet(v)
  BY <1>3, FS_Subset
<1> DEFINE x == Pick(v)
<1>6. x \in v /\ Sum(v) = f[x] + Sum(v \ {x})
  BY <1>4, <1>5, SumPick
<1>7. x # z
  BY <1>4, <1>6
<1>8. Sum(v \ {x}) = f[z] + Sum((v \ {x}) \ {z})
  <2>1. v \ {x} \in SUBSET S /\ v \ {x} \notin Bad
    BY <1>3, <1>5, <1>6
  <2>2. z \in v \ {x}
    BY <1>4, <1>7
  <2> HIDE DEF x, Sum
  <2>3. QED BY <2>1, <2>2
<1>9. Sum(v \ {z}) = f[x] + Sum((v \ {z}) \ {x})
  <2>1. v \ {z} \in SUBSET S /\ v \ {z} \notin Bad
    BY <1>3, <1>4, <1>5
  <2>2. x \in v \ {z}
    BY <1>6, <1>7
  <2> HIDE DEF x, Sum
  <2>3. QED BY <2>1, <2>2
<1>10. (v \ {z}) \ {x} = (v \ {x}) \ {z}
  OBVIOUS
<1>11. f[x] \in Int /\ f[z] \in Int /\ Sum((v \ {x}) \ {z}) \in Int
  <2>1. IsFiniteSet((v \ {x}) \ {z})
    BY <1>5, FS_Subset
  <2>2. \A w \in (v \ {x}) \ {z} : f[w] \in Int
    BY <1>5
  <2>3. Sum((v \ {x}) \ {z}) \in Int
    BY <2>1, <2>2, SumInt
  <2>4. QED BY <2>3, <1>4, <1>5, <1>6
<1>12. QED
  <2> DEFINE a == f[x]
             b == f[z]
             c == Sum((v \ {x}) \ {z})
  <2>1. Sum(v) = a + (b + c)
    BY <1>6, <1>8
  <2>2. Sum(v \ {z}) = a + c
    BY <1>9, <1>10
  <2>3. a \in Int /\ b \in Int /\ c \in Int
    BY <1>11
  <2>4. a + (b + c) = b + (a + c)
    <3> HIDE DEF a, b, c
    <3> QED BY <2>3
  <2>5. Sum(v) = b + Sum(v \ {z})
    BY <2>1, <2>2, <2>4
  <2>6. QED BY <1>4, <2>5

\* Adding an element to the set adds its value to the sum.
THEOREM SumAdd ==
  ASSUME NEW S, IsFiniteSet(S), NEW f, NEW y, y \notin S,
         \A x \in S \cup {y} : f[x] \in Int
  PROVE  SumFunctionOnSet(f, S \cup {y}) = f[y] + SumFunctionOnSet(f, S)
<1>1. IsFiniteSet(S \cup {y})
  BY FS_AddElement
<1>2. (S \cup {y}) \ {y} = S
  OBVIOUS
<1>3. SumFunctionOnSet(f, S \cup {y}) = f[y] + SumFunctionOnSet(f, (S \cup {y}) \ {y})
  BY <1>1, SumRemove
<1>4. QED
  BY <1>2, <1>3

\* Two functions that agree on the set have the same sum over it.
THEOREM SumAgree ==
  ASSUME NEW S, IsFiniteSet(S), NEW f, NEW g, \A x \in S : f[x] = g[x]
  PROVE  SumFunctionOnSet(f, S) = SumFunctionOnSet(g, S)
<1> DEFINE Bad == {u \in SUBSET S : SumFunctionOnSet(f, u) # SumFunctionOnSet(g, u)}
<1>1. SUFFICES ASSUME Bad # {} PROVE FALSE
  OBVIOUS
<1>2. Bad \subseteq FiniteSubsetsOf(S)
  BY FS_Subset DEF FiniteSubsetsOf
<1>3. PICK v \in Bad : \A w \in Bad : ~ (w \subseteq v /\ w # v)
  <2> HIDE DEF Bad
  <2> QED BY <1>1, <1>2, MinimalFiniteSet
<1>4. IsFiniteSet(v) /\ v \subseteq S
  BY <1>2, <1>3 DEF FiniteSubsetsOf
<1>5. v # {}
  BY <1>3, SumEmpty
<1>6. /\ Pick(v) \in v
      /\ SumFunctionOnSet(f, v) = f[Pick(v)] + SumFunctionOnSet(f, v \ {Pick(v)})
      /\ SumFunctionOnSet(g, v) = g[Pick(v)] + SumFunctionOnSet(g, v \ {Pick(v)})
  BY <1>4, <1>5, SumPick
<1>7. SumFunctionOnSet(f, v \ {Pick(v)}) = SumFunctionOnSet(g, v \ {Pick(v)})
  BY <1>3, <1>4, <1>6
<1>8. QED
  BY <1>3, <1>4, <1>6, <1>7

\* A sum of natural numbers is a natural number.
THEOREM SumNat ==
  ASSUME NEW S, IsFiniteSet(S), NEW f, \A x \in S : f[x] \in Nat
  PROVE  SumFunctionOnSet(f, S) \in Nat
<1> DEFINE Bad == {u \in SUBSET S : SumFunctionOnSet(f, u) \notin Nat}
<1>1. SUFFICES ASSUME Bad # {} PROVE FALSE
  OBVIOUS
<1>2. Bad \subseteq FiniteSubsetsOf(S)
  BY FS_Subset DEF FiniteSubsetsOf
<1>3. PICK v \in Bad : \A w \in Bad : ~ (w \subseteq v /\ w # v)
  <2> HIDE DEF Bad
  <2> QED BY <1>1, <1>2, MinimalFiniteSet
<1>4. IsFiniteSet(v) /\ v \subseteq S
  BY <1>2, <1>3 DEF FiniteSubsetsOf
<1>5. v # {}
  <2>1. SumFunctionOnSet(f, v) \notin Nat
    BY <1>3
  <2>2. SumFunctionOnSet(f, {}) = 0
    BY SumEmpty
  <2>3. QED BY <2>1, <2>2
<1>6. Pick(v) \in v /\ SumFunctionOnSet(f, v) = f[Pick(v)] + SumFunctionOnSet(f, v \ {Pick(v)})
  BY <1>4, <1>5, SumPick
<1>7. SumFunctionOnSet(f, v \ {Pick(v)}) \in Nat
  BY <1>3, <1>4, <1>6
<1>8. f[Pick(v)] \in Nat
  BY <1>4, <1>6
<1>9. QED
  BY <1>3, <1>6, <1>7, <1>8

\* No summand of a sum of natural numbers exceeds the sum.
THEOREM SumBounds ==
  ASSUME NEW S, IsFiniteSet(S), NEW f, \A x \in S : f[x] \in Nat, NEW y \in S
  PROVE  f[y] <= SumFunctionOnSet(f, S)
<1>1. SumFunctionOnSet(f, S) = f[y] + SumFunctionOnSet(f, S \ {y})
  BY SumRemove
<1>2. IsFiniteSet(S \ {y})
  BY FS_RemoveElement
<1>3. SumFunctionOnSet(f, S \ {y}) \in Nat
  BY <1>2, SumNat
<1>4. QED
  BY <1>1, <1>3

\* A sum of zeros is 0.
THEOREM SumZero ==
  ASSUME NEW S, IsFiniteSet(S), NEW f, \A x \in S : f[x] = 0
  PROVE  SumFunctionOnSet(f, S) = 0
<1> DEFINE Bad == {u \in SUBSET S : SumFunctionOnSet(f, u) # 0}
<1>1. SUFFICES ASSUME Bad # {} PROVE FALSE
  OBVIOUS
<1>2. Bad \subseteq FiniteSubsetsOf(S)
  BY FS_Subset DEF FiniteSubsetsOf
<1>3. PICK v \in Bad : \A w \in Bad : ~ (w \subseteq v /\ w # v)
  <2> HIDE DEF Bad
  <2> QED BY <1>1, <1>2, MinimalFiniteSet
<1>4. IsFiniteSet(v) /\ v \subseteq S
  BY <1>2, <1>3 DEF FiniteSubsetsOf
<1>5. v # {}
  BY <1>3, SumEmpty
<1>6. Pick(v) \in v /\ SumFunctionOnSet(f, v) = f[Pick(v)] + SumFunctionOnSet(f, v \ {Pick(v)})
  BY <1>4, <1>5, SumPick
<1>7. SumFunctionOnSet(f, v \ {Pick(v)}) = 0 /\ f[Pick(v)] = 0
  BY <1>3, <1>4, <1>6
<1>8. QED
  BY <1>3, <1>6, <1>7

\* The sum of a function that is the sum of two is the sum of their sums.
THEOREM SumOfTwo ==
  ASSUME NEW S, IsFiniteSet(S), NEW f, NEW g, NEW h,
         \A x \in S : f[x] \in Int /\ g[x] \in Int /\ h[x] = f[x] + g[x]
  PROVE  SumFunctionOnSet(h, S) = SumFunctionOnSet(f, S) + SumFunctionOnSet(g, S)
<1> DEFINE Sum(k, u) == SumFunctionOnSet(k, u)
           Bad == {u \in SUBSET S : Sum(h, u) # Sum(f, u) + Sum(g, u)}
<1>1. SUFFICES ASSUME Bad # {} PROVE FALSE
  OBVIOUS
<1>2. Bad \subseteq FiniteSubsetsOf(S)
  BY FS_Subset DEF FiniteSubsetsOf
<1>3. PICK v \in Bad : \A w \in Bad : ~ (w \subseteq v /\ w # v)
  <2> HIDE DEF Bad
  <2> QED BY <1>1, <1>2, MinimalFiniteSet
<1>4. IsFiniteSet(v) /\ v \subseteq S
  BY <1>2, <1>3 DEF FiniteSubsetsOf
<1>5. v # {}
  <2>1. v = {} => Sum(h, v) = 0 /\ Sum(f, v) = 0 /\ Sum(g, v) = 0
    BY SumEmpty, Zenon
  <2>2. Sum(h, v) # Sum(f, v) + Sum(g, v)
    BY <1>3
  <2> HIDE DEF Sum
  <2>3. QED BY <2>1, <2>2
<1> DEFINE x == Pick(v)
           r == v \ {x}
<1>6. /\ x \in v
      /\ Sum(h, v) = h[x] + Sum(h, r)
      /\ Sum(f, v) = f[x] + Sum(f, r)
      /\ Sum(g, v) = g[x] + Sum(g, r)
  BY <1>4, <1>5, SumPick
<1>7. Sum(h, r) = Sum(f, r) + Sum(g, r)
  BY <1>3, <1>4, <1>6
<1>8. Sum(f, r) \in Int /\ Sum(g, r) \in Int
  <2>1. IsFiniteSet(r) /\ \A y \in r : f[y] \in Int /\ g[y] \in Int
    BY <1>4, FS_Subset
  <2>2. QED
    <3> HIDE DEF r
    <3> QED BY <2>1, SumInt
<1>9. f[x] \in Int /\ g[x] \in Int /\ h[x] = f[x] + g[x]
  BY <1>4, <1>6
<1>10. Sum(h, v) # Sum(f, v) + Sum(g, v)
  BY <1>3
<1>11. QED
  <2> HIDE DEF Sum, x, r
  <2> QED BY <1>6, <1>7, <1>8, <1>9, <1>10

\* Changing the sign of every summand changes the sign of the sum.
THEOREM SumNegated ==
  ASSUME NEW S, IsFiniteSet(S), NEW f, NEW g,
         \A x \in S : f[x] \in Int /\ g[x] = - f[x]
  PROVE  SumFunctionOnSet(g, S) = - SumFunctionOnSet(f, S)
<1> DEFINE z == [x \in S |-> 0]
<1>1. \A x \in S : z[x] = f[x] + g[x] /\ f[x] \in Int /\ g[x] \in Int
  OBVIOUS
<1>2. SumFunctionOnSet(z, S) = SumFunctionOnSet(f, S) + SumFunctionOnSet(g, S)
  <2> HIDE DEF z
  <2> QED BY <1>1, SumOfTwo
<1>3. SumFunctionOnSet(z, S) = 0
  BY SumZero
<1>4. SumFunctionOnSet(f, S) \in Int /\ SumFunctionOnSet(g, S) \in Int
  BY <1>1, SumInt
<1>5. QED
  BY <1>2, <1>3, <1>4

\* The sum over two sets that share nothing is the sum of the sums.
THEOREM SumUnion ==
  ASSUME NEW A, NEW B, IsFiniteSet(A), IsFiniteSet(B), A \cap B = {},
         NEW f, \A x \in A \cup B : f[x] \in Int
  PROVE  SumFunctionOnSet(f, A \cup B) = SumFunctionOnSet(f, A) + SumFunctionOnSet(f, B)
<1> DEFINE Sum(u) == SumFunctionOnSet(f, u)
           Bad == {u \in SUBSET B : Sum(A \cup u) # Sum(A) + Sum(u)}
<1>1. SUFFICES ASSUME Bad # {} PROVE FALSE
  OBVIOUS
<1>2. Bad \subseteq FiniteSubsetsOf(B)
  BY FS_Subset DEF FiniteSubsetsOf
<1>3. PICK v \in Bad : \A w \in Bad : ~ (w \subseteq v /\ w # v)
  <2> HIDE DEF Bad
  <2> QED BY <1>1, <1>2, MinimalFiniteSet
<1>4. IsFiniteSet(v) /\ v \subseteq B
  BY <1>2, <1>3 DEF FiniteSubsetsOf
<1>5. Sum(A) \in Int
  BY SumInt
<1>6. v # {}
  <2>1. v = {} => Sum(A \cup v) = Sum(A) /\ Sum(v) = 0
    <3>1. A \cup {} = A
      OBVIOUS
    <3>2. QED BY <3>1, SumEmpty, Zenon
  <2>2. Sum(A \cup v) # Sum(A) + Sum(v)
    BY <1>3
  <2> HIDE DEF Sum
  <2>3. QED BY <1>5, <2>1, <2>2
<1>7. PICK y : y \in v
  BY <1>6
<1>8. f[y] \in Int /\ y \notin A
  BY <1>4, <1>7
<1>9. IsFiniteSet(A \cup v) /\ IsFiniteSet(v \ {y})
  BY <1>4, FS_Union, FS_Subset
<1>10. Sum(v) = f[y] + Sum(v \ {y})
  BY <1>4, <1>7, SumRemove
<1>11. Sum(A \cup v) = f[y] + Sum(A \cup (v \ {y}))
  <2>1. Sum(A \cup v) = f[y] + Sum((A \cup v) \ {y})
    BY <1>4, <1>7, <1>9, SumRemove
  <2>2. (A \cup v) \ {y} = A \cup (v \ {y})
    BY <1>8
  <2>3. QED BY <2>1, <2>2
<1>12. Sum(A \cup (v \ {y})) = Sum(A) + Sum(v \ {y})
  BY <1>3, <1>4, <1>7
<1>13. Sum(v \ {y}) \in Int
  BY <1>4, <1>9, SumInt
<1>14. Sum(A \cup v) # Sum(A) + Sum(v)
  BY <1>3
<1>15. QED
  <2> HIDE DEF Sum
  <2> QED BY <1>5, <1>8, <1>10, <1>11, <1>12, <1>13, <1>14

\* The members of I that k puts into one of the groups A.
Members(I, k, A) == {i \in I : k[i] \in A}

\* g sums f over each of the groups A.
SumsGroups(g, A, f, I, k) ==
    \A a \in A : g[a] = SumFunctionOnSet(f, Members(I, k, {a}))

\* Summing group by group is summing over all that belong to a group.
THEOREM SumByGroup ==
  ASSUME NEW I, IsFiniteSet(I), NEW f, \A i \in I : f[i] \in Int,
         NEW k, NEW A, IsFiniteSet(A),
         NEW g, SumsGroups(g, A, f, I, k)
  PROVE  SumFunctionOnSet(g, A) = SumFunctionOnSet(f, Members(I, k, A))
<1> DEFINE In(u) == Members(I, k, u)
           Bad == {u \in SUBSET A : SumFunctionOnSet(g, u) # SumFunctionOnSet(f, In(u))}
<1>1. SUFFICES ASSUME Bad # {} PROVE FALSE
  OBVIOUS
<1>2. Bad \subseteq FiniteSubsetsOf(A)
  BY FS_Subset DEF FiniteSubsetsOf
<1>3. PICK v \in Bad : \A w \in Bad : ~ (w \subseteq v /\ w # v)
  <2> HIDE DEF Bad
  <2> QED BY <1>1, <1>2, MinimalFiniteSet
<1>4. IsFiniteSet(v) /\ v \subseteq A
  BY <1>2, <1>3 DEF FiniteSubsetsOf
<1>5. v # {}
  <2>1. In({}) = {}
    BY DEF Members
  <2>2. QED BY <1>3, <2>1, SumEmpty
<1> DEFINE y == Pick(v)
           r == v \ {y}
           G == In({y})
<1>6. y \in v /\ SumFunctionOnSet(g, v) = g[y] + SumFunctionOnSet(g, r)
  BY <1>4, <1>5, SumPick
<1>7. SumFunctionOnSet(g, r) = SumFunctionOnSet(f, In(r))
  BY <1>3, <1>4, <1>6
<1>8. g[y] = SumFunctionOnSet(f, G)
  BY <1>4, <1>6 DEF SumsGroups
<1>9. In(v) = G \cup In(r) /\ G \cap In(r) = {} /\ G \subseteq I /\ In(r) \subseteq I
  BY <1>6 DEF Members
<1>10. IsFiniteSet(G) /\ IsFiniteSet(In(r)) /\ \A i \in G \cup In(r) : f[i] \in Int
  BY <1>9, FS_Subset
<1>11. SumFunctionOnSet(f, G \cup In(r)) = SumFunctionOnSet(f, G) + SumFunctionOnSet(f, In(r))
  <2> HIDE DEF G, In
  <2> QED BY <1>9, <1>10, SumUnion
<1>12. QED
  BY <1>3, <1>6, <1>7, <1>8, <1>9, <1>11

\* The sum of a function is its sum over its domain.
THEOREM SumOfFunction ==
  ASSUME NEW f
  PROVE  SumFunction(f) = SumFunctionOnSet(f, DOMAIN f)
BY DEF SumFunction, SumFunctionOnSet, FoldFunction

\* A function with one argument more sums to that much more.
THEOREM SumExtended ==
  ASSUME NEW f, NEW g, NEW y, IsFiniteSet(DOMAIN f),
         y \notin DOMAIN f, DOMAIN g = DOMAIN f \cup {y},
         \A x \in DOMAIN f : g[x] = f[x] /\ f[x] \in Int,
         g[y] \in Int
  PROVE  SumFunction(g) = g[y] + SumFunction(f)
<1>1. SumFunctionOnSet(g, DOMAIN f \cup {y}) = g[y] + SumFunctionOnSet(g, DOMAIN f)
  BY SumAdd
<1>2. SumFunctionOnSet(g, DOMAIN f) = SumFunctionOnSet(f, DOMAIN f)
  BY SumAgree
<1>3. QED
  BY <1>1, <1>2, SumOfFunction

\* A finite set that a relation orders totally has a first element.
THEOREM FirstElement ==
  ASSUME NEW S, IsFiniteSet(S), S # {}, NEW R,
         \A x, y \in S : x # y => <<x, y>> \in R \/ <<y, x>> \in R,
         \A x, y, z \in S : <<x, y>> \in R /\ <<y, z>> \in R /\ x # z => <<x, z>> \in R
  PROVE  \E x \in S : \A y \in S \ {x} : <<x, y>> \in R
<1> DEFINE First(u, x) == x \in u /\ \A y \in u \ {x} : <<x, y>> \in R
           Bad == {u \in SUBSET S : u # {} /\ ~ \E x : First(u, x)}
<1>1. SUFFICES ASSUME Bad # {} PROVE FALSE
  OBVIOUS
<1>2. Bad \subseteq FiniteSubsetsOf(S)
  BY FS_Subset DEF FiniteSubsetsOf
<1>3. PICK v \in Bad : \A w \in Bad : ~ (w \subseteq v /\ w # v)
  <2> HIDE DEF Bad
  <2> QED BY <1>1, <1>2, MinimalFiniteSet
<1>4. PICK a : a \in v
  BY <1>3
<1>5. v \ {a} # {}
  BY <1>3, <1>4
<1>6. PICK b : First(v \ {a}, b)
  <2>1. v \ {a} \in SUBSET S /\ v \ {a} \subseteq v /\ v \ {a} # v
    BY <1>3, <1>4
  <2>2. v \ {a} \notin Bad
    <3> HIDE DEF Bad
    <3> QED BY <1>3, <2>1
  <2>3. \E b : First(v \ {a}, b)
    <3> HIDE DEF First
    <3> QED BY <1>5, <2>1, <2>2
  <2>4. QED BY <2>3
<1>7. a \in S /\ b \in S /\ a # b /\ v \subseteq S
  BY <1>3, <1>4, <1>6
<1>8. CASE <<a, b>> \in R
  <2>1. First(v, a)
    BY <1>4, <1>6, <1>7, <1>8
  <2>2. QED
    BY <1>3, <2>1
<1>9. CASE <<b, a>> \in R
  <2>1. First(v, b)
    BY <1>4, <1>6, <1>7, <1>9
  <2>2. QED
    BY <1>3, <2>1
<1>10. QED
  BY <1>7, <1>8, <1>9


-----------------------------------------------------------------------------
(* Sums over entries.                                                      *)

\* The indexes of a sequence are finite in number.
LEMMA FiniteIndexes ==
  ASSUME NEW S, NEW e \in Seq(S), NEW I \in SUBSET DOMAIN e
  PROVE  IsFiniteSet(I)
<1>1. DOMAIN e = 1 .. Len(e) /\ Len(e) \in Nat
  BY LenProperties
<1>2. IsFiniteSet(1 .. Len(e))
  BY <1>1, FS_Interval
<1>3. QED
  BY <1>1, <1>2, FS_Subset

\* What entries add to an account is an integer.
LEMMA DeltaInt ==
  ASSUME NEW e \in Seq(Entry), NEW a
  PROVE  Delta(e, a) \in Int
<1> DEFINE I == {i \in DOMAIN e : e[i].account = a}
<1>1. IsFiniteSet(I)
  BY FiniteIndexes
<1>2. \A i \in I : Amounts(e)[i] \in Int
  <2>1. \A i \in DOMAIN e : e[i] \in Entry
    BY LenProperties, ElementOfSeq
  <2>2. QED
    BY <2>1 DEF Amounts, Entry
<1>3. SumFunctionOnSet(Amounts(e), I) \in Int
  <2> HIDE DEF I
  <2> QED BY <1>1, <1>2, SumInt
<1>4. QED
  BY <1>3 DEF Delta

\* Applying entries leaves an integer balance per account.
LEMMA AppliedType ==
  ASSUME TypeOK, NEW e \in Seq(Entry)
  PROVE  Applied(e) \in [DOMAIN accounts -> Int]
BY DeltaInt DEF Applied, TypeOK

\* A function over the indexes of a sequence is a sequence as long.
LEMMA FunctionOverIndexes ==
  ASSUME NEW S, NEW e \in Seq(S), NEW T, NEW f, f \in [DOMAIN e -> T]
  PROVE  f \in Seq(T) /\ Len(f) = Len(e) /\ DOMAIN f = DOMAIN e
<1>1. DOMAIN e = 1 .. Len(e) /\ Len(e) \in Nat
  BY LenProperties
<1>2. f \in Seq(T)
  BY <1>1, SeqDef
<1>3. QED
  BY <1>1, <1>2, LenProperties

\* The mirror of a transaction has an entry for each of its entries.
LEMMA MirrorType ==
  ASSUME NEW e \in Seq(Entry)
  PROVE  Mirror(e) \in Seq(Entry) /\ Len(Mirror(e)) = Len(e)
<1>1. \A i \in DOMAIN e : e[i] \in Entry
  BY LenProperties, ElementOfSeq
<1>2. Mirror(e) \in [DOMAIN e -> Entry]
  BY <1>1 DEF Mirror, Entry
<1>3. QED
  BY <1>2, FunctionOverIndexes

-----------------------------------------------------------------------------
(* The inputs of postTransaction and what is made of them.                 *)

\* The entries of a request that passed the first checks.
LEMMA EntriesType ==
  ASSUME NEW in \in PostInputs, InputVerdict(in) = "OK"
  PROVE  EntriesOf(in) \in Seq(Entry)
<1>1. in \in PostInput
  BY InputAssumption
<1>2. CASE in.txType = "SPEND"
  <2>1. in.spend # Null /\ in.counter # Null
    BY <1>2 DEF InputVerdict, SpendVerdict
  <2>2. in.spend \in [account : AccountIds, amount : Int] /\ in.counter \in AccountIds
    BY <1>1, <2>1 DEF PostInput
  <2>3. /\ [account |-> in.spend.account, amount |-> - in.spend.amount] \in Entry
        /\ [account |-> in.counter, amount |-> in.spend.amount] \in Entry
    BY <2>2 DEF Entry
  <2>4. QED
    BY <1>2, <2>3 DEF EntriesOf
<1>3. CASE in.txType # "SPEND"
  <2>1. in.entries \in Seq(EntryInput)
    BY <1>1 DEF PostInput
  <2>2. \A i \in DOMAIN in.entries : in.entries[i] \in EntryInput
    BY <2>1, LenProperties, ElementOfSeq
  <2>3. EntriesOf(in) \in [DOMAIN in.entries -> Entry]
    BY <1>3, <2>2 DEF EntriesOf, Entry, EntryInput
  <2>4. QED
    BY <2>1, <2>3, FunctionOverIndexes
<1>4. QED
  BY <1>2, <1>3

\* A key that is stored is one of the keys.
LEMMA TrimmedKeyType ==
  ASSUME NEW in \in PostInputs
  PROVE  TrimmedKey(in.key) \in Keys \cup {Null}
BY InputAssumption DEF PostInput, RawKey, TrimmedKey

\* What a set of lots has left is an integer.
LEMMA RemainingInt ==
  ASSUME TypeOK, NEW s \in SUBSET DOMAIN lots
  PROVE  Remaining(s) \in Int
<1>1. IsFiniteSet(s)
  BY FS_Subset DEF TypeOK
<1>2. \A l \in s : [k \in DOMAIN lots |-> lots[k].remaining][l] \in Int
  BY DEF TypeOK, Lot
<1>3. QED
  BY <1>1, <1>2, SumInt DEF Remaining

\* A plan takes an integer amount from lots that exist.
LEMMA PlanType ==
  ASSUME TypeOK, NEW in \in PostInputs, InputVerdict(in) = "OK"
  PROVE  /\ DOMAIN PlanOf(in) \subseteq DOMAIN lots
         /\ \A l \in DOMAIN PlanOf(in) : PlanOf(in)[l] \in Int
         /\ PlanOf(in) = [l \in DOMAIN PlanOf(in) |-> PlanOf(in)[l]]
<1>1. CASE in.txType = "SPEND"
  <2> DEFINE set == CandidateLots(in.tenant, in.spend.account)
             amount == in.spend.amount
  <2>1. set \subseteq DOMAIN lots
    BY DEF CandidateLots
  <2>2. amount \in Int
    BY <1>1, InputAssumption DEF InputVerdict, SpendVerdict, PostInput
  <2>3. \A l \in set : Ahead(set, l) \in Int
    BY <2>1, RemainingInt DEF Ahead
  <2>4. PlanOf(in) = SpendPlan(set, amount)
    BY <1>1 DEF PlanOf
  <2>5. \A l \in DOMAIN lots : lots[l].remaining \in Int
    BY DEF TypeOK, Lot
  <2> HIDE DEF set, amount
  <2>6. QED
    BY <2>1, <2>2, <2>3, <2>4, <2>5 DEF SpendPlan
<1>2. CASE in.txType # "SPEND"
  BY <1>2 DEF PlanOf
<1>3. QED
  BY <1>1, <1>2

\* A lot with another remaining amount and status is a lot.
LEMMA LotUpdate ==
  ASSUME NEW lot \in Lot, NEW left \in Int,
         NEW status \in {"ACTIVE", "CONSUMED", "EXPIRED", "CANCELLED"}
  PROVE  [lot EXCEPT !.remaining = left, !.status = status] \in Lot
BY DEF Lot

\* Moving lots by integer amounts keeps them lots.
LEMMA LotsMovedByType ==
  ASSUME TypeOK, NEW change, \A l \in DOMAIN change : change[l] \in Int
  PROVE  LotsMovedBy(change) \in [DOMAIN lots -> Lot]
<1>1. ASSUME NEW l \in DOMAIN lots, l \in DOMAIN change
      PROVE  [lots[l] EXCEPT !.remaining = lots[l].remaining + change[l],
                             !.status = StatusFor(lots[l].remaining + change[l])] \in Lot
  <2>1. lots[l] \in Lot
    BY DEF TypeOK
  <2>2. lots[l].remaining + change[l] \in Int
    BY <1>1, <2>1 DEF Lot
  <2>3. StatusFor(lots[l].remaining + change[l]) \in {"ACTIVE", "CONSUMED", "EXPIRED", "CANCELLED"}
    BY DEF StatusFor
  <2>4. QED
    BY <2>1, <2>2, <2>3, LotUpdate
<1>2. QED
  BY <1>1 DEF LotsMovedBy, TypeOK

\* The lots a request grants are new, finitely many, and named after its
\* transaction.
LEMMA GrantedType ==
  ASSUME TypeOK, NEW in \in PostInputs, NEW tx \in TxIds
  PROVE  /\ Granted(in, tx) \subseteq LotIds
         /\ IsFiniteSet(Granted(in, tx))
         /\ in.txType # "SPEND" =>
              \A l \in Granted(in, tx) : l[1] = tx /\ l[2] \in DOMAIN in.entries
                                         /\ in.entries[l[2]].expiresAt # Null
                                         /\ in.entries[l[2]].amount > 0
<1>1. in.entries \in Seq(EntryInput)
  BY InputAssumption DEF PostInput
<1> DEFINE I == {i \in DOMAIN in.entries :
                     /\ in.entries[i].amount > 0
                     /\ in.entries[i].expiresAt # Null
                     /\ accounts[in.entries[i].account].ownerType = "USER"}
<1>2. IsFiniteSet(I)
  BY <1>1, FiniteIndexes
<1>3. I \subseteq Nat \ {0}
  BY <1>1, LenProperties
<1>4. IsFiniteSet({tx} \X I)
  <2> HIDE DEF I
  <2> QED BY <1>2, FS_Singleton, FS_Product
<1>5. Granted(in, tx) = IF in.txType = "SPEND" THEN {} ELSE {tx} \X I
  BY DEF Granted
<1>6. {tx} \X I \subseteq LotIds
  <2> HIDE DEF I
  <2> QED BY <1>3 DEF LotIds
<1>7. IsFiniteSet(Granted(in, tx)) /\ Granted(in, tx) \subseteq LotIds
  <2> HIDE DEF I
  <2> QED BY <1>4, <1>5, <1>6, FS_EmptySet
<1>8. QED
  BY <1>5, <1>7

\* After a post, old and new lots are lots.
LEMMA LotsAfterPostType ==
  ASSUME TypeOK, NEW in \in PostInputs, NEW tx \in TxIds, InputVerdict(in) = "OK"
  PROVE  LotsAfterPost(in, tx) \in [DOMAIN lots \cup Granted(in, tx) -> Lot]
<1> DEFINE change == [l \in DOMAIN PlanOf(in) |-> - PlanOf(in)[l]]
<1>1. \A l \in DOMAIN change : change[l] \in Int
  BY PlanType
<1>2. LotsMovedBy(change) \in [DOMAIN lots -> Lot]
  <2> HIDE DEF change
  <2> QED BY <1>1, LotsMovedByType
<1>3. ASSUME NEW l \in Granted(in, tx) PROVE NewLot(in, l[2]) \in Lot
  <2>1. in.txType # "SPEND"
    BY <1>3 DEF Granted
  <2>2. l[2] \in DOMAIN in.entries
    BY <2>1, GrantedType
  <2>3. in.entries \in Seq(EntryInput) /\ in.tenant \in Tenants
    BY InputAssumption DEF PostInput
  <2>4. in.entries[l[2]] \in EntryInput
    BY <2>2, <2>3, LenProperties, ElementOfSeq
  <2>5. QED
    BY <2>3, <2>4 DEF NewLot, Lot, EntryInput, TypeOK
<1>4. QED
  <2> HIDE DEF change
  <2> USE DEF LotsAfterPost
  <2>1. LotsAfterPost(in, tx) = [l \in DOMAIN lots \cup Granted(in, tx) |->
                IF l \in DOMAIN lots THEN LotsMovedBy(change)[l] ELSE NewLot(in, l[2])]
    BY DEF change
  <2>2. QED
    BY <1>2, <1>3, <2>1

\* After a reversal, the lots are lots.
LEMMA LotsAfterReversalType ==
  ASSUME TypeOK, NEW tenant, NEW src \in DOMAIN transactions
  PROVE  LotsAfterReversal(tenant, src) \in [DOMAIN lots -> Lot]
<1>1. CASE transactions[src].txType = "EARN"
  <2>1. \A l \in DOMAIN lots : [lots[l] EXCEPT !.remaining = 0, !.status = "CANCELLED"] \in Lot
    <3>1. 0 \in Int /\ "CANCELLED" \in {"ACTIVE", "CONSUMED", "EXPIRED", "CANCELLED"}
      OBVIOUS
    <3>2. QED BY <3>1, LotUpdate DEF TypeOK
  <2>2. QED
    BY <1>1, <2>1 DEF LotsAfterReversal, TypeOK
<1>2. CASE transactions[src].txType = "SPEND"
  <2>1. \A l \in DOMAIN consumptionsBySpendTx[src] : consumptionsBySpendTx[src][l] \in Int
    BY DEF TypeOK
  <2>2. QED
    BY <1>2, <2>1, LotsMovedByType DEF LotsAfterReversal
<1>3. CASE transactions[src].txType \notin {"EARN", "SPEND"}
  BY <1>3 DEF LotsAfterReversal, TypeOK
<1>4. QED
  BY <1>1, <1>2, <1>3

-----------------------------------------------------------------------------
(* The lot a batch visits next.                                            *)

\* FEFO orders any two lots one way or the other.
LEMMA PrecedesTotal ==
  ASSUME TypeOK
  PROVE  /\ \A l, m \in DOMAIN lots : l # m => Precedes(l, m) \/ Precedes(m, l)
         /\ \A l, m, k \in DOMAIN lots : Precedes(l, m) /\ Precedes(m, k) => Precedes(l, k)
<1>1. \A l \in DOMAIN lots :
         /\ lots[l].createdAt \in Int
         /\ lots[l].expiresAt = Null \/ lots[l].expiresAt \in Int
         /\ l = <<l[1], l[2]>> /\ l[1] \in Int /\ l[2] \in Int
  BY BoundAssumption DEF TypeOK, Lot, Times, LotIds, TxIds
<1>2. ASSUME NEW l \in DOMAIN lots, NEW m \in DOMAIN lots, l # m
      PROVE  Precedes(l, m) \/ Precedes(m, l)
  <2>1. l[1] # m[1] \/ l[2] # m[2]
    BY <1>1, <1>2
  <2>2. QED
    BY <1>1, <2>1 DEF Precedes, ExpiresBefore, InsertedBefore
<1>3. ASSUME NEW l \in DOMAIN lots, NEW m \in DOMAIN lots, NEW k \in DOMAIN lots,
             Precedes(l, m), Precedes(m, k)
      PROVE  Precedes(l, k)
  BY <1>1, <1>3, NullAssumption DEF Precedes, ExpiresBefore, InsertedBefore
<1>4. QED
  BY <1>2, <1>3

\* While lots are pending, the batch has a next one, first in FEFO order.
LEMMA NextDueType ==
  ASSUME TypeOK, batch # Null, batch.due \subseteq DOMAIN lots, Pending # {}
  PROVE  NextDue \in Pending /\ NextDue \in DOMAIN lots
<1> DEFINE R == {p \in (DOMAIN lots) \X (DOMAIN lots) : Precedes(p[1], p[2])}
<1>1. Pending \subseteq DOMAIN lots
  BY DEF Pending
<1>2. IsFiniteSet(Pending)
  BY <1>1, FS_Subset DEF TypeOK
<1>3. \A l, m \in DOMAIN lots : <<l, m>> \in R <=> Precedes(l, m)
  OBVIOUS
<1>4. \A l, m \in Pending : l # m => <<l, m>> \in R \/ <<m, l>> \in R
  BY <1>1, <1>3, PrecedesTotal
<1>5. \A l, m, k \in Pending : <<l, m>> \in R /\ <<m, k>> \in R /\ l # k => <<l, k>> \in R
  BY <1>1, <1>3, PrecedesTotal
<1>6. \E l \in Pending : \A m \in Pending \ {l} : <<l, m>> \in R
  <2> HIDE DEF R
  <2> QED BY <1>2, <1>4, <1>5, FirstElement
<1>7. \E l \in Pending : \A m \in Pending \ {l} : Precedes(l, m)
  BY <1>1, <1>3, <1>6
<1>8. QED
  BY <1>1, <1>7 DEF NextDue

-----------------------------------------------------------------------------
(* Type correctness.                                                       *)

\* A tenant has at most one SYSTEM account, so that a batch knows which one to
\* move points to, and a running batch refers to accounts, lots and
\* transactions that exist.
OneSystemAccount == \A t \in Tenants : \A a, b \in SystemAccounts(t) : a = b

BatchOK ==
    batch # Null =>
        /\ batch.system \in SystemAccounts(batch.tenant)
        /\ batch.due \subseteq DOMAIN lots
        /\ batch.posted # Null =>
              /\ batch.posted.tx \in DOMAIN transactions
              /\ batch.posted.lot \in batch.due

Typed == TypeOK /\ OneSystemAccount /\ BatchOK

\* Recording a transaction with its entries, consumptions and log keeps the
\* types of the journal.
LEMMA JournalTypes ==
  ASSUME TypeOK,
         NEW old \in Seq(TransactionRecord), Len(old) = Len(transactions),
         NEW rec \in TransactionRecord, NEW e \in Seq(Entry), NEW log \in AuditLog,
         NEW plan, plan \in [DOMAIN plan -> Int], DOMAIN plan \subseteq DOMAIN lots,
         DOMAIN lots \subseteq DOMAIN lots',
         transactions' = Append(old, rec),
         entriesByTxId' = Append(entriesByTxId, e),
         consumptionsBySpendTx' = Put(consumptionsBySpendTx, Len(transactions) + 1, plan),
         auditLogs' = Append(auditLogs, log)
  PROVE  /\ transactions' \in Seq(TransactionRecord)
         /\ Len(transactions) + 1 \in DOMAIN transactions'
         /\ DOMAIN transactions \subseteq DOMAIN transactions'
         /\ entriesByTxId' \in Seq(Seq(Entry))
         /\ Len(entriesByTxId') = Len(transactions')
         /\ DOMAIN consumptionsBySpendTx' = DOMAIN transactions'
         /\ \A tx \in DOMAIN consumptionsBySpendTx' :
               /\ DOMAIN consumptionsBySpendTx'[tx] \subseteq DOMAIN lots'
               /\ consumptionsBySpendTx'[tx] \in [DOMAIN consumptionsBySpendTx'[tx] -> Int]
         /\ auditLogs' \in Seq(AuditLog)
<1>1. transactions' \in Seq(TransactionRecord) /\ Len(transactions') = Len(transactions) + 1
  BY AppendProperties
<1>2. /\ entriesByTxId' \in Seq(Seq(Entry))
      /\ Len(entriesByTxId') = Len(transactions')
  BY <1>1, AppendProperties DEF TypeOK
<1>3. /\ DOMAIN transactions = 1 .. Len(transactions)
      /\ DOMAIN transactions' = 1 .. Len(transactions) + 1
      /\ Len(transactions) \in Nat
  BY <1>1, LenProperties DEF TypeOK
<1>4. DOMAIN consumptionsBySpendTx' = DOMAIN transactions'
  BY <1>3 DEF Put, TypeOK
<1>5. ASSUME NEW tx \in DOMAIN consumptionsBySpendTx'
      PROVE  /\ DOMAIN consumptionsBySpendTx'[tx] \subseteq DOMAIN lots'
             /\ consumptionsBySpendTx'[tx] \in [DOMAIN consumptionsBySpendTx'[tx] -> Int]
  <2>1. CASE tx = Len(transactions) + 1
    BY <2>1 DEF Put
  <2>2. CASE tx # Len(transactions) + 1
    <3>1. tx \in DOMAIN consumptionsBySpendTx /\ consumptionsBySpendTx'[tx] = consumptionsBySpendTx[tx]
      BY <2>2 DEF Put
    <3>2. QED BY <3>1 DEF TypeOK
  <2>3. QED BY <2>1, <2>2
<1>6. auditLogs' \in Seq(AuditLog)
  BY AppendProperties DEF TypeOK
<1>7. QED
  BY <1>1, <1>2, <1>3, <1>4, <1>5, <1>6

\* An index stays typed when a transaction that exists is put under a key.
LEMMA IndexType ==
  ASSUME NEW map, NEW S, NEW T, map \in [DOMAIN map -> S], S \subseteq T, NEW k, NEW v \in T
  PROVE  /\ Put(map, k, v) \in [DOMAIN Put(map, k, v) -> T]
         /\ DOMAIN Put(map, k, v) = DOMAIN map \cup {k}
BY DEF Put

\* An accepted post keeps the types.
LEMMA PostAcceptedTyped ==
  ASSUME Typed, batch = Null, NEW in \in PostInputs, PostVerdict(in) = "OK", PostAccepted(in)
  PROVE  TypeOK'
<1> DEFINE tx == Len(transactions) + 1
           negative == \E l \in DOMAIN PlanOf(in) : lots[l].remaining < PlanOf(in)[l]
<1>1. TypeOK
  BY DEF Typed
<1>2. InputVerdict(in) = "OK"
  BY DEF PostVerdict
<1>3. Len(transactions) \in Nat /\ tx \in TxIds
  BY <1>1, LenProperties DEF TypeOK, TxIds
<1>4. /\ lots' = LotsAfterPost(in, tx)
      /\ balances' = Applied(EntriesOf(in))
      /\ UNCHANGED <<clock, accounts, reversalBySourceTxId, batch>>
  BY DEF PostAccepted
<1>5. EntriesOf(in) \in Seq(Entry)
  BY <1>2, EntriesType
<1>6. balances' \in [DOMAIN accounts -> Int]
  BY <1>1, <1>4, <1>5, AppliedType
<1>7. /\ DOMAIN lots' = DOMAIN lots \cup Granted(in, tx)
      /\ lots' \in [DOMAIN lots' -> Lot]
  BY <1>1, <1>2, <1>3, <1>4, LotsAfterPostType
<1>8. /\ DOMAIN lots' \subseteq LotIds
      /\ IsFiniteSet(DOMAIN lots')
  <2>1. /\ Granted(in, tx) \subseteq LotIds
        /\ IsFiniteSet(Granted(in, tx))
    BY <1>1, <1>3, GrantedType
  <2>2. /\ DOMAIN lots \subseteq LotIds
        /\ IsFiniteSet(DOMAIN lots)
    BY <1>1 DEF TypeOK
  <2>3. IsFiniteSet(DOMAIN lots \cup Granted(in, tx))
    BY <2>1, <2>2, FS_Union
  <2>4. QED
    BY <1>7, <2>1, <2>2, <2>3
<1>9. CASE negative
  BY <1>1, <1>4, <1>6, <1>7, <1>8, <1>9 DEF PostAccepted, TypeOK, journal
<1>10. CASE ~ negative
  <2> DEFINE key == TrimmedKey(in.key)
             rec == Transaction(in.tenant, in.txType, in.actor, key, Null)
             log == Audit(in.tenant, in.actor, "TX_POST", tx, Null, 0)
  <2>1. /\ transactions' = Append(transactions, rec)
        /\ entriesByTxId' = Append(entriesByTxId, EntriesOf(in))
        /\ consumptionsBySpendTx' = Put(consumptionsBySpendTx, tx, PlanOf(in))
        /\ auditLogs' = Append(auditLogs, log)
        /\ idempotencyToTxId' = IF key = Null THEN idempotencyToTxId
                                ELSE Put(idempotencyToTxId, InputKey(in), tx)
    BY <1>10 DEF PostAccepted
  <2>2. in \in PostInput /\ key \in Keys \cup {Null}
    BY InputAssumption, TrimmedKeyType
  <2>3. rec \in TransactionRecord
    BY <2>2 DEF Transaction, TransactionRecord, PostInput, TxTypes
  <2>4. log \in AuditLog
    BY <1>3, <2>2 DEF Audit, AuditLog, PostInput
  <2>5. /\ PlanOf(in) \in [DOMAIN PlanOf(in) -> Int]
        /\ DOMAIN PlanOf(in) \subseteq DOMAIN lots
    BY <1>1, <1>2, PlanType
  <2>6. DOMAIN lots \subseteq DOMAIN lots'
    BY <1>7
  <2> HIDE DEF rec, log, key
  <2>7. /\ transactions' \in Seq(TransactionRecord)
        /\ tx \in DOMAIN transactions'
        /\ DOMAIN transactions \subseteq DOMAIN transactions'
        /\ entriesByTxId' \in Seq(Seq(Entry))
        /\ Len(entriesByTxId') = Len(transactions')
        /\ DOMAIN consumptionsBySpendTx' = DOMAIN transactions'
        /\ \A t \in DOMAIN consumptionsBySpendTx' :
              /\ DOMAIN consumptionsBySpendTx'[t] \subseteq DOMAIN lots'
              /\ consumptionsBySpendTx'[t] \in [DOMAIN consumptionsBySpendTx'[t] -> Int]
        /\ auditLogs' \in Seq(AuditLog)
    <3>1. transactions \in Seq(TransactionRecord)
      BY <1>1 DEF TypeOK
    <3>2. QED
      BY <1>1, <1>5, <2>1, <2>3, <2>4, <2>5, <2>6, <3>1, JournalTypes
  <2>8. idempotencyToTxId' \in [DOMAIN idempotencyToTxId' -> DOMAIN transactions']
    <3>1. idempotencyToTxId \in [DOMAIN idempotencyToTxId -> DOMAIN transactions]
      BY <1>1 DEF TypeOK
    <3>2. CASE key = Null
      BY <2>1, <2>7, <3>1, <3>2
    <3>3. CASE key # Null
      BY <2>1, <2>7, <3>1, <3>3, IndexType
    <3>4. QED BY <3>2, <3>3
  <2>9. /\ DOMAIN reversalBySourceTxId' \subseteq DOMAIN transactions'
        /\ reversalBySourceTxId' \in [DOMAIN reversalBySourceTxId' -> DOMAIN transactions']
    BY <1>1, <1>4, <2>7 DEF TypeOK
  <2>10. QED
    BY <1>1, <1>4, <1>6, <1>7, <1>8, <2>7, <2>8, <2>9 DEF TypeOK
<1>11. QED
  BY <1>9, <1>10

\* An accepted reversal keeps the types.
LEMMA ReversalAcceptedTyped ==
  ASSUME Typed, batch = Null, NEW tenant \in Tenants, NEW src \in DOMAIN transactions,
         NEW actor \in Actors \cup {Null}, ReversalAccepted(tenant, src, actor)
  PROVE  TypeOK'
<1> DEFINE tx == Len(transactions) + 1
           restored == IF transactions[src].txType = "SPEND" THEN consumptionsBySpendTx[src] ELSE <<>>
           overflow == \E l \in DOMAIN restored : lots[l].remaining + restored[l] > lots[l].original
           e == entriesByTxId[src]
<1>1. TypeOK
  BY DEF Typed
<1>2. Len(transactions) \in Nat /\ tx \in TxIds /\ src \in TxIds /\ src \in 1 .. Len(transactions)
  BY <1>1, LenProperties DEF TypeOK, TxIds
<1>3. /\ lots' = LotsAfterReversal(tenant, src)
      /\ balances' = Applied(Mirror(e))
      /\ UNCHANGED <<clock, accounts, idempotencyToTxId, batch>>
  BY DEF ReversalAccepted
<1>4. Mirror(e) \in Seq(Entry)
  <2>1. e \in Seq(Entry)
    BY <1>1, <1>2, ElementOfSeq DEF TypeOK
  <2> HIDE DEF e
  <2>2. QED BY <2>1, MirrorType
<1>5. balances' \in [DOMAIN accounts -> Int]
  BY <1>1, <1>3, <1>4, AppliedType
<1>6. lots' \in [DOMAIN lots -> Lot]
  BY <1>1, <1>3, LotsAfterReversalType
<1>7. CASE overflow
  BY <1>1, <1>3, <1>5, <1>6, <1>7 DEF ReversalAccepted, TypeOK, journal
<1>8. CASE ~ overflow
  <2> DEFINE old == [transactions EXCEPT ![src].status = "REVERSED"]
             rec == Transaction(tenant, "REVERSAL", actor, Null, src)
             log == Audit(tenant, actor, "TX_REVERSE", tx, Null, 0)
  <2>1. /\ transactions' = Append(old, rec)
        /\ entriesByTxId' = Append(entriesByTxId, Mirror(e))
        /\ consumptionsBySpendTx' = Put(consumptionsBySpendTx, tx, <<>>)
        /\ auditLogs' = Append(auditLogs, log)
        /\ reversalBySourceTxId' = Put(reversalBySourceTxId, src, tx)
    BY <1>8 DEF ReversalAccepted
  <2>2. rec \in TransactionRecord
    BY <1>2 DEF Transaction, TransactionRecord, TxTypes
  <2>3. log \in AuditLog
    BY <1>2 DEF Audit, AuditLog
  <2>4. old \in Seq(TransactionRecord) /\ Len(old) = Len(transactions)
    <3>1. transactions \in Seq(TransactionRecord)
      BY <1>1 DEF TypeOK
    <3>2. transactions[src] \in TransactionRecord
      BY <1>2, <3>1, ElementOfSeq
    <3>3. [transactions[src] EXCEPT !.status = "REVERSED"] \in TransactionRecord
      BY <3>2 DEF TransactionRecord
    <3>4. old = [transactions EXCEPT ![src] = [transactions[src] EXCEPT !.status = "REVERSED"]]
      BY <1>2
    <3>5. QED
      BY <1>2, <3>1, <3>3, <3>4, ExceptSeq
  <2>5. lots' \in [DOMAIN lots' -> Lot] /\ DOMAIN lots \subseteq DOMAIN lots'
    BY <1>6
  <2>6. <<>> \in [DOMAIN <<>> -> Int] /\ DOMAIN <<>> \subseteq DOMAIN lots
    OBVIOUS
  <2> HIDE DEF rec, log, old, e
  <2>7. /\ transactions' \in Seq(TransactionRecord)
        /\ tx \in DOMAIN transactions'
        /\ DOMAIN transactions \subseteq DOMAIN transactions'
        /\ entriesByTxId' \in Seq(Seq(Entry))
        /\ Len(entriesByTxId') = Len(transactions')
        /\ DOMAIN consumptionsBySpendTx' = DOMAIN transactions'
        /\ \A t \in DOMAIN consumptionsBySpendTx' :
              /\ DOMAIN consumptionsBySpendTx'[t] \subseteq DOMAIN lots'
              /\ consumptionsBySpendTx'[t] \in [DOMAIN consumptionsBySpendTx'[t] -> Int]
        /\ auditLogs' \in Seq(AuditLog)
    BY <1>1, <1>4, <2>1, <2>2, <2>3, <2>4, <2>5, <2>6, JournalTypes
  <2>8. /\ DOMAIN reversalBySourceTxId' \subseteq DOMAIN transactions'
        /\ reversalBySourceTxId' \in [DOMAIN reversalBySourceTxId' -> DOMAIN transactions']
    <3>1. /\ DOMAIN reversalBySourceTxId \subseteq DOMAIN transactions
          /\ reversalBySourceTxId \in [DOMAIN reversalBySourceTxId -> DOMAIN transactions]
      BY <1>1 DEF TypeOK
    <3>2. /\ Put(reversalBySourceTxId, src, tx) \in
                [DOMAIN Put(reversalBySourceTxId, src, tx) -> DOMAIN transactions']
          /\ DOMAIN Put(reversalBySourceTxId, src, tx) = DOMAIN reversalBySourceTxId \cup {src}
      BY <2>7, <3>1 DEF Put
    <3>3. QED
      BY <2>1, <2>7, <3>1, <3>2
  <2>9. idempotencyToTxId' \in [DOMAIN idempotencyToTxId' -> DOMAIN transactions']
    BY <1>1, <1>3, <2>7 DEF TypeOK
  <2>10. QED
    BY <1>1, <1>3, <1>5, <1>6, <2>7, <2>8, <2>9 DEF TypeOK
<1>9. QED
  BY <1>7, <1>8

\* Creating an account keeps the types.
LEMMA CreateAccountTyped ==
  ASSUME Typed, NEW in \in AccountInputs, CreateAccount(in)
  PROVE  TypeOK'
<1>1. TypeOK
  BY DEF Typed
<1>2. CASE UNCHANGED <<clock, ledger, batch>>
  BY <1>1, <1>2 DEF ledger, journal, indexes, TypeOK
<1>3. CASE ~ UNCHANGED <<clock, ledger, batch>>
  <2>1. /\ accounts' = Append(accounts, NewAccount(in))
        /\ balances' = Put(balances, Len(accounts) + 1, 0)
        /\ UNCHANGED <<clock, lots, journal, indexes, batch>>
    BY <1>3 DEF CreateAccount, Answered
  <2>2. NewAccount(in) \in Account
    <3>1. /\ in.tenant \in Tenants /\ in.ownerType \in OwnerTypes
          /\ in.status \in Statuses \cup {Null}
          /\ in.allowNegative \in BOOLEAN \cup {Null}
      BY InputAssumption DEF AccountInput
    <3>2. (IF in.status = Null THEN "ACTIVE" ELSE in.status) \in Statuses
      BY <3>1 DEF Statuses
    <3>3. (IF in.allowNegative = Null THEN in.ownerType = "SYSTEM" ELSE in.allowNegative) \in BOOLEAN
      BY <3>1, Zenon
    <3>4. QED
      BY <3>1, <3>2, <3>3, Zenon DEF NewAccount, Account
  <2>3. accounts' \in Seq(Account) /\ DOMAIN accounts' = DOMAIN accounts \cup {Len(accounts) + 1}
    BY <1>1, <2>1, <2>2, AppendProperties, LenProperties DEF TypeOK
  <2>4. balances' \in [DOMAIN accounts' -> Int]
    BY <1>1, <2>1, <2>3 DEF Put, TypeOK
  <2>5. QED
    BY <1>1, <2>1, <2>3, <2>4 DEF TypeOK, journal, indexes
<1>4. QED
  BY <1>2, <1>3

\* The batch's first look at the ledger keeps the types.
LEMMA ExpireBeginTyped ==
  ASSUME Typed, NEW t \in Tenants, NEW now \in Times, ExpireBegin(t, now)
  PROVE  TypeOK'
<1>1. TypeOK
  BY DEF Typed
<1>2. CASE UNCHANGED <<clock, ledger, batch>>
  BY <1>1, <1>2 DEF ledger, journal, indexes, TypeOK
<1>3. CASE ~ UNCHANGED <<clock, ledger, batch>>
  <2>1. /\ SystemAccounts(t) # {}
        /\ batch' = [tenant |-> t, now |-> now, system |-> FirstSystemAccount(t),
                     due |-> DueLots(t, now), posted |-> Null]
        /\ UNCHANGED <<clock, ledger>>
    BY <1>3 DEF ExpireBegin, Answered
  <2>2. FirstSystemAccount(t) \in AccountIds
    <3>1. SystemAccounts(t) \subseteq AccountIds
      BY <1>1, LenProperties DEF SystemAccounts, TypeOK, AccountIds
    <3>2. \E a \in SystemAccounts(t) : \A b \in SystemAccounts(t) : a <= b
      BY <2>1, <3>1 DEF Typed, OneSystemAccount, AccountIds
    <3>3. QED
      BY <3>1, <3>2 DEF FirstSystemAccount
  <2>3. DueLots(t, now) \subseteq LotIds
    BY <1>1 DEF DueLots, TypeOK
  <2>4. batch' \in Batch
    BY <2>1, <2>2, <2>3 DEF Batch
  <2>5. QED
    BY <1>1, <2>1, <2>4 DEF TypeOK, ledger, journal, indexes
<1>4. QED
  BY <1>2, <1>3

\* The entries with which the batch moves a lot's points are entries.
LEMMA ExpireEntriesType ==
  ASSUME Typed, batch # Null, NEW l \in DOMAIN lots
  PROVE  ExpireEntries(l) \in Seq(Entry)
<1>1. lots[l].account \in AccountIds /\ lots[l].remaining \in Int
  BY DEF Typed, TypeOK, Lot
<1>2. batch.system \in AccountIds
  BY DEF Typed, TypeOK, Batch
<1>3. QED
  BY <1>1, <1>2 DEF ExpireEntries, Entry

\* Posting the sweep of a lot keeps the types.
LEMMA ExpirePostTyped ==
  ASSUME Typed, ExpirePost
  PROVE  TypeOK'
<1> DEFINE tx == Len(transactions) + 1
           l == NextDue
           rec == Transaction(batch.tenant, "EXPIRE", Null, Null, Null)
           log == Audit(batch.tenant, Null, "TX_POST", tx, Null, 0)
<1>1. TypeOK
  BY DEF Typed
<1>2. batch \in Batch
  BY <1>1 DEF ExpirePost, TypeOK
<1>3. l \in DOMAIN lots
  BY <1>1, NextDueType DEF ExpirePost, Typed, BatchOK
<1>4. Len(transactions) \in Nat /\ tx \in TxIds
  BY <1>1, LenProperties DEF TypeOK, TxIds
<1>5. ExpireEntries(l) \in Seq(Entry)
  BY <1>3, ExpireEntriesType DEF ExpirePost
<1>6. /\ balances' = Applied(ExpireEntries(l))
      /\ transactions' = Append(transactions, rec)
      /\ entriesByTxId' = Append(entriesByTxId, ExpireEntries(l))
      /\ consumptionsBySpendTx' = Put(consumptionsBySpendTx, tx, <<>>)
      /\ auditLogs' = Append(auditLogs, log)
      /\ batch' = [batch EXCEPT !.posted = [tx |-> tx, lot |-> l, amount |-> lots[l].remaining]]
      /\ UNCHANGED <<clock, accounts, lots, indexes, reply>>
  BY DEF ExpirePost
<1>7. rec \in TransactionRecord
  BY <1>2 DEF Transaction, TransactionRecord, TxTypes, Batch
<1>8. log \in AuditLog
  BY <1>2, <1>4 DEF Audit, AuditLog, Batch
<1>9. balances' \in [DOMAIN accounts -> Int]
  BY <1>1, <1>5, <1>6, AppliedType
<1>10. [tx |-> tx, lot |-> l, amount |-> lots[l].remaining] \in Posting
  BY <1>1, <1>3, <1>4 DEF Posting, TypeOK, Lot
<1>11. batch' \in Batch
  BY <1>2, <1>6, <1>10 DEF Batch
<1>12. /\ transactions \in Seq(TransactionRecord)
       /\ <<>> \in [DOMAIN <<>> -> Int] /\ DOMAIN <<>> \subseteq DOMAIN lots
       /\ DOMAIN lots \subseteq DOMAIN lots'
  BY <1>1, <1>6 DEF TypeOK
<1> HIDE DEF rec, log, l
<1>13. /\ transactions' \in Seq(TransactionRecord)
       /\ DOMAIN transactions \subseteq DOMAIN transactions'
       /\ entriesByTxId' \in Seq(Seq(Entry))
       /\ Len(entriesByTxId') = Len(transactions')
       /\ DOMAIN consumptionsBySpendTx' = DOMAIN transactions'
       /\ \A t \in DOMAIN consumptionsBySpendTx' :
             /\ DOMAIN consumptionsBySpendTx'[t] \subseteq DOMAIN lots'
             /\ consumptionsBySpendTx'[t] \in [DOMAIN consumptionsBySpendTx'[t] -> Int]
       /\ auditLogs' \in Seq(AuditLog)
  BY <1>1, <1>5, <1>6, <1>7, <1>8, <1>12, JournalTypes
<1>14. QED
  BY <1>1, <1>6, <1>9, <1>11, <1>13 DEF TypeOK, indexes

\* Emptying the swept lot keeps the types.
LEMMA ExpireMarkTyped ==
  ASSUME Typed, ExpireMark
  PROVE  TypeOK'
<1>1. TypeOK /\ batch \in Batch
  BY DEF Typed, TypeOK, ExpireMark
<1> DEFINE p == batch.posted
           log == Audit(batch.tenant, Null, "LOT_EXPIRE", p.tx, p.lot, p.amount)
<1>2. p \in Posting /\ p.lot \in DOMAIN lots
  BY <1>1 DEF ExpireMark, Batch, Typed, BatchOK
<1>3. /\ lots' = [lots EXCEPT ![p.lot].remaining = 0, ![p.lot].status = "EXPIRED"]
      /\ auditLogs' = Append(auditLogs, log)
      /\ batch' = [batch EXCEPT !.posted = Null]
      /\ UNCHANGED <<clock, accounts, balances, transactions, entriesByTxId,
                     consumptionsBySpendTx, indexes>>
  BY DEF ExpireMark
<1>4. log \in AuditLog
  BY <1>1, <1>2 DEF Audit, AuditLog, Batch, Posting
<1>5. auditLogs' \in Seq(AuditLog)
  BY <1>1, <1>3, <1>4, AppendProperties DEF TypeOK
<1>6. lots' \in [DOMAIN lots -> Lot]
  <2>1. lots \in [DOMAIN lots -> Lot]
    BY <1>1 DEF TypeOK
  <2>2. lots' = [lots EXCEPT ![p.lot] = [lots[p.lot] EXCEPT !.remaining = 0, !.status = "EXPIRED"]]
    BY <1>2, <1>3
  <2>3. [lots[p.lot] EXCEPT !.remaining = 0, !.status = "EXPIRED"] \in Lot
    <3>1. lots[p.lot] \in Lot /\ 0 \in Int
      BY <1>2, <2>1
    <3>2. QED BY <3>1, LotUpdate
  <2>4. QED
    BY <2>1, <2>2, <2>3
<1>7. batch' \in Batch
  BY <1>1, <1>3 DEF Batch
<1>8. QED
  BY <1>1, <1>3, <1>5, <1>6, <1>7 DEF TypeOK, indexes

\* Every step keeps the types.
LEMMA TypeStep ==
  ASSUME Typed, [Next]_vars
  PROVE  TypeOK'
<1> USE DEF Typed
<1>1. CASE UNCHANGED <<ledger, batch>> /\ clock' \in Times
  BY <1>1 DEF TypeOK, ledger, journal, indexes
<1>2. CASE Tick
  BY <1>1, <1>2 DEF Tick
<1>3. ASSUME NEW in \in AccountInputs, CreateAccount(in) PROVE TypeOK'
  BY <1>3, CreateAccountTyped
<1>4. ASSUME NEW in \in PostInputs, PostTransaction(in) PROVE TypeOK'
  BY <1>1, <1>4, PostAcceptedTyped DEF PostTransaction, Detail, Answered, TypeOK
<1>5. ASSUME NEW t \in Tenants, NEW src \in 1 .. Len(transactions) + 1,
             NEW actor \in Actors \cup {Null}, ReverseTransaction(t, src, actor)
      PROVE  TypeOK'
  BY <1>1, <1>5, ReversalAcceptedTyped DEF ReverseTransaction, HasTransaction, Detail, Answered, TypeOK
<1>6. ASSUME NEW t \in Tenants, NEW now \in Times, ExpireBegin(t, now) PROVE TypeOK'
  BY <1>6, ExpireBeginTyped
<1>7. CASE ExpirePost
  BY <1>7, ExpirePostTyped
<1>8. CASE ExpireAbort
  BY <1>8 DEF ExpireAbort, TypeOK, ledger, journal, indexes
<1>9. CASE ExpireMark
  BY <1>9, ExpireMarkTyped
<1>10. CASE ExpireEnd
  BY <1>10 DEF ExpireEnd, TypeOK, ledger, journal, indexes
<1>11. CASE UNCHANGED vars
  BY <1>1, <1>11 DEF vars, TypeOK
<1>12. QED
  BY <1>2, <1>3, <1>4, <1>5, <1>6, <1>7, <1>8, <1>9, <1>10, <1>11 DEF Next, ExpireStep

\* Every step keeps the SYSTEM account unique: createAccount refuses a second
\* one, and no account changes its owner type.
LEMMA SystemAccountStep ==
  ASSUME Typed, [Next]_vars
  PROVE  OneSystemAccount'
<1>1. CASE UNCHANGED accounts
  BY <1>1 DEF Typed, OneSystemAccount, SystemAccounts, Owns
<1>2. ASSUME NEW in \in AccountInputs, ~ SystemAccountExists(in),
             accounts' = Append(accounts, NewAccount(in))
      PROVE  OneSystemAccount'
  <2>1. accounts \in Seq(Account)
    BY DEF Typed, TypeOK
  <2>2. /\ DOMAIN accounts = 1 .. Len(accounts) /\ Len(accounts) \in Nat
        /\ DOMAIN accounts' = 1 .. Len(accounts) + 1
        /\ \A a \in DOMAIN accounts : accounts'[a] = accounts[a]
        /\ accounts'[Len(accounts) + 1] = NewAccount(in)
    BY <1>2, <2>1, LenProperties
  <2>3. SUFFICES ASSUME NEW t \in Tenants, NEW a \in SystemAccounts(t)', NEW b \in SystemAccounts(t)'
                 PROVE  a = b
    BY DEF OneSystemAccount
  <2>4. \A c \in SystemAccounts(t)' : c \in SystemAccounts(t) \/ c = Len(accounts) + 1
    BY <2>2 DEF SystemAccounts, Owns
  <2>5. Len(accounts) + 1 \in SystemAccounts(t)' => SystemAccounts(t) = {}
    BY <1>2, <2>2 DEF SystemAccounts, Owns, NewAccount, SystemAccountExists
  <2>6. QED
    BY <2>4, <2>5 DEF Typed, OneSystemAccount
<1>3. QED
  <2>1. CASE UNCHANGED vars
    BY <1>1, <2>1 DEF vars, ledger
  <2>2. CASE Next
    BY <1>1, <1>2, <2>2
       DEF Next, Tick, CreateAccount, PostTransaction, PostAccepted, Detail, Answered,
           ReverseTransaction, ReversalAccepted, ExpireBegin, ExpireStep, ExpirePost, ExpireAbort,
           ExpireMark, ExpireEnd, ledger
  <2>3. QED
    BY <2>1, <2>2

\* Every step keeps the batch's references.
LEMMA BatchStep ==
  ASSUME Typed, [Next]_vars
  PROVE  BatchOK'
<1>1. CASE batch' = Null
  BY <1>1 DEF BatchOK
<1>2. CASE UNCHANGED <<ledger, batch>>
  BY <1>2 DEF Typed, BatchOK, SystemAccounts, Owns, ledger, journal
<1>3. ASSUME NEW t \in Tenants, NEW now \in Times, ExpireBegin(t, now) PROVE BatchOK'
  <2>1. CASE batch' = Null
    BY <1>1, <2>1
  <2>2. CASE batch' # Null
    <3>1. /\ SystemAccounts(t) # {}
          /\ batch' = [tenant |-> t, now |-> now, system |-> FirstSystemAccount(t),
                       due |-> DueLots(t, now), posted |-> Null]
          /\ UNCHANGED <<accounts, lots>>
      BY <1>3, <2>2 DEF ExpireBegin, Answered, ledger
    <3>2. FirstSystemAccount(t) \in SystemAccounts(t)
      <4>1. SystemAccounts(t) \subseteq Int
        BY LenProperties DEF SystemAccounts, Typed, TypeOK
      <4>2. \E a \in SystemAccounts(t) : \A b \in SystemAccounts(t) : a <= b
        BY <3>1, <4>1 DEF Typed, OneSystemAccount
      <4>3. QED
        BY <4>2 DEF FirstSystemAccount
    <3>3. SystemAccounts(t)' = SystemAccounts(t)
      BY <3>1 DEF SystemAccounts, Owns
    <3>4. DueLots(t, now) \subseteq DOMAIN lots'
      BY <3>1 DEF DueLots
    <3>5. QED
      BY <3>1, <3>2, <3>3, <3>4 DEF BatchOK
  <2>3. QED
    BY <2>1, <2>2
<1>4. CASE ExpirePost
  <2>1. batch \in Batch
    BY <1>4 DEF ExpirePost, Typed, TypeOK
  <2>2. batch' = [batch EXCEPT !.posted = [tx |-> Len(transactions) + 1, lot |-> NextDue,
                                           amount |-> lots[NextDue].remaining]]
    BY <1>4 DEF ExpirePost
  <2>3. batch'.due = batch.due /\ batch'.system = batch.system /\ batch'.tenant = batch.tenant
    BY <2>1, <2>2 DEF Batch
  <2>4. batch'.posted.tx = Len(transactions) + 1 /\ batch'.posted.lot = NextDue
    BY <2>1, <2>2 DEF Batch
  <2>5. NextDue \in batch.due
    BY <1>4, NextDueType DEF ExpirePost, Pending, Typed, BatchOK
  <2>6. Len(transactions) + 1 \in DOMAIN transactions'
    BY <1>4, AppendProperties, LenProperties DEF ExpirePost, Typed, TypeOK
  <2>7. UNCHANGED <<accounts, lots>>
    BY <1>4 DEF ExpirePost
  <2>8. batch.system \in SystemAccounts(batch.tenant) /\ batch.due \subseteq DOMAIN lots
    BY <1>4 DEF ExpirePost, Typed, BatchOK
  <2>9. QED
    BY <2>3, <2>4, <2>5, <2>6, <2>7, <2>8 DEF BatchOK, SystemAccounts, Owns
<1>5. CASE ExpireMark
  <2>1. batch \in Batch
    BY <1>5 DEF ExpireMark, Typed, TypeOK
  <2>2. /\ batch'.due = batch.due /\ batch'.system = batch.system /\ batch'.tenant = batch.tenant
        /\ batch'.posted = Null
    BY <1>5, <2>1 DEF ExpireMark, Batch
  <2>3. UNCHANGED accounts /\ DOMAIN lots' = DOMAIN lots
    BY <1>5 DEF ExpireMark
  <2>4. QED
    BY <1>5, <2>2, <2>3 DEF ExpireMark, Typed, BatchOK, SystemAccounts, Owns
<1>6. QED
  <2>1. CASE UNCHANGED vars
    BY <1>2, <2>1 DEF vars
  <2>2. CASE Tick
    BY <1>2, <2>2 DEF Tick
  <2>3. ASSUME NEW in \in AccountInputs, CreateAccount(in) PROVE BatchOK'
    BY <1>1, <2>3 DEF CreateAccount, Answered
  <2>4. ASSUME NEW in \in PostInputs, PostTransaction(in) PROVE BatchOK'
    BY <1>1, <2>4 DEF PostTransaction, PostAccepted, Detail, Answered
  <2>5. ASSUME NEW t \in Tenants, NEW src \in 1 .. Len(transactions) + 1,
               NEW actor \in Actors \cup {Null}, ReverseTransaction(t, src, actor)
        PROVE  BatchOK'
    BY <1>1, <2>5 DEF ReverseTransaction, ReversalAccepted, Detail, Answered
  <2>6. CASE ExpireAbort \/ ExpireEnd
    BY <1>1, <2>6 DEF ExpireAbort, ExpireEnd
  <2>7. QED
    BY <1>3, <1>4, <1>5, <2>1, <2>2, <2>3, <2>4, <2>5, <2>6 DEF Next, ExpireStep

\* The empty ledger is typed.
LEMMA TypedInit ==
  ASSUME Init
  PROVE  Typed
<1>1. TypeOK
  <2>1. clock \in Times
    BY BoundAssumption DEF Init, Times
  <2>2. /\ <<>> \in Seq(Account) /\ <<>> \in Seq(TransactionRecord)
        /\ <<>> \in Seq(Seq(Entry)) /\ <<>> \in Seq(AuditLog)
    BY EmptySeq
  <2>3. IsFiniteSet(DOMAIN lots) /\ DOMAIN lots = {}
    BY FS_EmptySet DEF Init
  <2>4. QED
    BY <2>1, <2>2, <2>3 DEF Init, TypeOK
<1>2. OneSystemAccount
  BY DEF Init, OneSystemAccount, SystemAccounts, Owns
<1>3. BatchOK
  BY DEF Init, BatchOK
<1>4. QED
  BY <1>1, <1>2, <1>3 DEF Typed

\* The types are an invariant together with the uniqueness of the SYSTEM
\* account and the references of a running batch.
THEOREM AlwaysTyped == Spec => []Typed
<1>1. Init => Typed
  BY TypedInit
<1>2. Typed /\ [Next]_vars => Typed'
  BY TypeStep, SystemAccountStep, BatchStep DEF Typed
<1>3. QED
  BY <1>1, <1>2, PTL DEF Spec

\* Type correctness: whatever sequence of calls is made, every part of the
\* ledger keeps its type and its maps keep the same keys.
THEOREM TypeCorrect == Spec => []TypeOK
<1>1. Typed => TypeOK
  BY DEF Typed
<1>2. QED
  BY <1>1, AlwaysTyped, PTL

-----------------------------------------------------------------------------
(* Balances never go negative.                                             *)

\* Entries add nothing to an account they do not name.
LEMMA DeltaOfOthers ==
  ASSUME NEW e, NEW a, \A i \in DOMAIN e : e[i].account # a
  PROVE  Delta(e, a) = 0
<1>1. {i \in DOMAIN e : e[i].account = a} = {}
  OBVIOUS
<1>2. SumFunctionOnSet(Amounts(e), {}) = 0
  BY SumEmpty
<1>3. QED
  BY <1>1, <1>2 DEF Delta

\* Entries whose staged balances passed the check are safe to apply, for the
\* accounts they name and for all others.
LEMMA AppliedNonNegative ==
  ASSUME TypeOK, NoNegativeBalance, NEW e \in Seq(Entry), ~ Overdrawn(e),
         NEW a \in DOMAIN accounts, ~ accounts[a].allowNegative
  PROVE  Applied(e)[a] >= 0
<1>1. a \in DOMAIN balances /\ balances[a] \in Int /\ balances[a] >= 0
  BY DEF TypeOK, NoNegativeBalance
<1>2. Applied(e)[a] = balances[a] + Delta(e, a) /\ Delta(e, a) \in Int
  BY <1>1, DeltaInt DEF Applied
<1>3. CASE \E i \in DOMAIN e : e[i].account = a
  <2>1. ~ (balances[a] + Delta(e, a) < 0)
    BY <1>3 DEF Overdrawn
  <2>2. QED
    BY <1>1, <1>2, <2>1
<1>4. CASE \A i \in DOMAIN e : e[i].account # a
  BY <1>1, <1>2, <1>4, DeltaOfOthers
<1>5. QED
  BY <1>3, <1>4

\* A movement that is applied after its verdict keeps balances non-negative.
LEMMA MovementKeepsNonNegative ==
  ASSUME TypeOK, NoNegativeBalance, NEW e \in Seq(Entry), NEW t, NEW err,
         MovementVerdict(t, e, err) = "OK", err # "OK",
         balances' = Applied(e), accounts' = accounts
  PROVE  NoNegativeBalance'
<1>1. ~ Overdrawn(e)
  BY DEF MovementVerdict
<1>2. QED
  BY <1>1, AppliedNonNegative DEF NoNegativeBalance

\* Every step keeps balances non-negative.
LEMMA NonNegativeStep ==
  ASSUME Typed, NoNegativeBalance, [Next]_vars
  PROVE  NoNegativeBalance'
<1>1. TypeOK
  BY DEF Typed
<1>2. CASE UNCHANGED <<accounts, balances>>
  BY <1>2 DEF NoNegativeBalance
<1>3. ASSUME NEW in \in AccountInputs, CreateAccount(in) PROVE NoNegativeBalance'
  <2>1. CASE UNCHANGED ledger
    BY <1>2, <2>1 DEF ledger
  <2>2. CASE /\ accounts' = Append(accounts, NewAccount(in))
             /\ balances' = Put(balances, Len(accounts) + 1, 0)
    <3>1. /\ DOMAIN accounts' = DOMAIN accounts \cup {Len(accounts) + 1}
          /\ Len(accounts) + 1 \notin DOMAIN accounts
          /\ \A a \in DOMAIN accounts : accounts'[a] = accounts[a]
      BY <1>1, <2>2, LenProperties DEF TypeOK
    <3>2. balances'[Len(accounts) + 1] = 0
      BY <2>2 DEF Put
    <3>3. \A a \in DOMAIN accounts : balances'[a] = balances[a]
      BY <1>1, <2>2, <3>1 DEF Put, TypeOK
    <3>4. QED
      BY <3>1, <3>2, <3>3 DEF NoNegativeBalance
  <2>3. QED
    BY <1>3, <2>1, <2>2 DEF CreateAccount, Answered
<1>4. ASSUME NEW in \in PostInputs, PostTransaction(in) PROVE NoNegativeBalance'
  <2>1. CASE UNCHANGED ledger
    BY <1>2, <2>1 DEF ledger
  <2>2. CASE PostVerdict(in) = "OK" /\ PostAccepted(in)
    <3>1. /\ InputVerdict(in) = "OK"
          /\ MovementVerdict(in.tenant, EntriesOf(in), "TX_SUM_NOT_ZERO") = "OK"
      BY <2>2 DEF PostVerdict
    <3>2. balances' = Applied(EntriesOf(in)) /\ accounts' = accounts
      BY <2>2 DEF PostAccepted
    <3>3. QED
      BY <1>1, <3>1, <3>2, EntriesType, MovementKeepsNonNegative
  <2>3. QED
    BY <1>4, <2>1, <2>2 DEF PostTransaction, Detail, Answered
<1>5. ASSUME NEW t \in Tenants, NEW src \in 1 .. Len(transactions) + 1,
             NEW actor \in Actors \cup {Null}, ReverseTransaction(t, src, actor)
      PROVE  NoNegativeBalance'
  <2>1. CASE UNCHANGED ledger
    BY <1>2, <2>1 DEF ledger
  <2>2. CASE /\ HasTransaction(t, src)
             /\ ReversalVerdict(t, src) = "OK"
             /\ ReversalAccepted(t, src, actor)
    <3>1. MovementVerdict(t, Mirror(entriesByTxId[src]), "REVERSAL_SUM_INVALID") = "OK"
      BY <2>2 DEF ReversalVerdict
    <3>2. balances' = Applied(Mirror(entriesByTxId[src])) /\ accounts' = accounts
      BY <2>2 DEF ReversalAccepted
    <3>3. Mirror(entriesByTxId[src]) \in Seq(Entry)
      <4>1. entriesByTxId[src] \in Seq(Entry)
        BY <1>1, <2>2, LenProperties, ElementOfSeq DEF TypeOK, HasTransaction
      <4>2. QED
        BY <4>1, MirrorType
    <3>4. QED
      BY <1>1, <3>1, <3>2, <3>3, MovementKeepsNonNegative
  <2>3. QED
    BY <1>5, <2>1, <2>2 DEF ReverseTransaction, Detail, Answered
<1>6. CASE ExpirePost
  <2>1. NextDue \in DOMAIN lots
    BY <1>1, <1>6, NextDueType DEF ExpirePost, Typed, BatchOK
  <2>2. ExpireEntries(NextDue) \in Seq(Entry)
    BY <1>6, <2>1, ExpireEntriesType DEF ExpirePost
  <2>3. MovementVerdict(batch.tenant, ExpireEntries(NextDue), "TX_SUM_NOT_ZERO") = "OK"
    BY <1>6 DEF ExpirePost, ExpireVerdict
  <2>4. balances' = Applied(ExpireEntries(NextDue)) /\ accounts' = accounts
    BY <1>6 DEF ExpirePost
  <2>5. QED
    BY <1>1, <2>2, <2>3, <2>4, MovementKeepsNonNegative
<1>7. CASE Tick \/ ExpireAbort \/ ExpireMark \/ ExpireEnd \/ UNCHANGED vars
  BY <1>2, <1>7 DEF Tick, ExpireAbort, ExpireMark, ExpireEnd, vars, ledger
<1>8. ASSUME NEW t \in Tenants, NEW now \in Times, ExpireBegin(t, now) PROVE NoNegativeBalance'
  BY <1>2, <1>8 DEF ExpireBegin, Answered, ledger
<1>9. QED
  BY <1>3, <1>4, <1>5, <1>6, <1>7, <1>8 DEF Next, ExpireStep

\* An account that may not go negative never does: the staged check of
\* postTransaction, reverseTransaction and postInternal covers whatever the
\* entries name, however often they name an account.
THEOREM NeverNegative == Spec => []NoNegativeBalance
<1>1. Init => NoNegativeBalance
  BY DEF Init, NoNegativeBalance
<1>2. Typed /\ NoNegativeBalance /\ [Next]_vars => NoNegativeBalance'
  BY NonNegativeStep
<1>3. QED
  BY <1>1, <1>2, AlwaysTyped, PTL DEF Spec

-----------------------------------------------------------------------------
(* Reversals.                                                              *)

\* What a transaction says once its status is set aside.
LEMMA RecordedFields ==
  ASSUME TypeOK, NEW rec, NEW src \in DOMAIN transactions,
         transactions' = Append([transactions EXCEPT ![src].status = "REVERSED"], rec)
  PROVE  /\ DOMAIN transactions' = DOMAIN transactions \cup {Len(transactions) + 1}
         /\ Len(transactions) + 1 \notin DOMAIN transactions
         /\ transactions'[Len(transactions) + 1] = rec
         /\ transactions'[src].status = "REVERSED"
         /\ \A t \in DOMAIN transactions :
               /\ transactions'[t].txType = transactions[t].txType
               /\ transactions'[t].tenant = transactions[t].tenant
               /\ transactions'[t].reversalOf = transactions[t].reversalOf
               /\ transactions'[t].actor = transactions[t].actor
               /\ transactions'[t].key = transactions[t].key
               /\ t # src => transactions'[t].status = transactions[t].status
<1> DEFINE old == [transactions EXCEPT ![src].status = "REVERSED"]
<1>1. /\ transactions \in Seq(TransactionRecord)
      /\ DOMAIN transactions = 1 .. Len(transactions) /\ Len(transactions) \in Nat
  BY LenProperties DEF TypeOK
<1>2. old = [transactions EXCEPT ![src] = [transactions[src] EXCEPT !.status = "REVERSED"]]
  OBVIOUS
<1>3. \A t \in DOMAIN transactions : transactions[t] \in TransactionRecord
  BY <1>1, ElementOfSeq
<1>4. [transactions[src] EXCEPT !.status = "REVERSED"] \in TransactionRecord
  BY <1>3 DEF TransactionRecord
<1>5. old \in Seq(TransactionRecord) /\ Len(old) = Len(transactions)
  <2> HIDE DEF old
  <2> QED BY <1>1, <1>2, <1>4, ExceptSeq
<1>6. \A t \in DOMAIN transactions :
        old[t] = IF t = src THEN [transactions[src] EXCEPT !.status = "REVERSED"] ELSE transactions[t]
  BY <1>2
<1>7. transactions' = Append(old, rec)
  OBVIOUS
<1>8. /\ DOMAIN transactions' = 1 .. Len(transactions) + 1
      /\ transactions'[Len(transactions) + 1] = rec
      /\ \A t \in DOMAIN transactions : transactions'[t] = old[t]
  <2> HIDE DEF old
  <2> QED BY <1>1, <1>5, <1>7
<1> HIDE DEF old
<1>9. ASSUME NEW t \in DOMAIN transactions
      PROVE  /\ transactions'[t].txType = transactions[t].txType
             /\ transactions'[t].tenant = transactions[t].tenant
             /\ transactions'[t].reversalOf = transactions[t].reversalOf
             /\ transactions'[t].actor = transactions[t].actor
             /\ transactions'[t].key = transactions[t].key
             /\ t # src => transactions'[t].status = transactions[t].status
             /\ t = src => transactions'[t].status = "REVERSED"
  BY <1>3, <1>6, <1>8 DEF TransactionRecord
<1>10. QED
  BY <1>1, <1>8, <1>9

\* Appending a transaction that reverses nothing, with its entries, keeps the
\* bookkeeping of reversals.
LEMMA AppendKeepsReversals ==
  ASSUME TypeOK, ReversalIntegrity, NEW rec, NEW e,
         rec.status = "POSTED", rec.reversalOf = Null,
         transactions' = Append(transactions, rec),
         entriesByTxId' = Append(entriesByTxId, e),
         reversalBySourceTxId' = reversalBySourceTxId
  PROVE  ReversalIntegrity'
<1>1. /\ DOMAIN transactions = 1 .. Len(transactions) /\ Len(transactions) \in Nat
      /\ DOMAIN entriesByTxId = DOMAIN transactions
      /\ \A s \in DOMAIN reversalBySourceTxId : s \in DOMAIN transactions
                                                /\ reversalBySourceTxId[s] \in DOMAIN transactions
  BY LenProperties DEF TypeOK
<1>2. /\ DOMAIN transactions' = DOMAIN transactions \cup {Len(transactions) + 1}
      /\ transactions'[Len(transactions) + 1] = rec
      /\ \A t \in DOMAIN transactions : transactions'[t] = transactions[t]
      /\ \A t \in DOMAIN transactions : entriesByTxId'[t] = entriesByTxId[t]
  BY <1>1, LenProperties DEF TypeOK
<1>3. QED
  BY <1>1, <1>2 DEF ReversalIntegrity

\* A recorded reversal keeps the bookkeeping of reversals.
LEMMA ReversalKeepsReversals ==
  ASSUME TypeOK, ReversalIntegrity, NEW tenant, NEW src \in DOMAIN transactions, NEW actor,
         src \notin DOMAIN reversalBySourceTxId,
         transactions[src].tenant = tenant, transactions[src].txType # "EXPIRE",
         transactions' = Append([transactions EXCEPT ![src].status = "REVERSED"],
                                Transaction(tenant, "REVERSAL", actor, Null, src)),
         entriesByTxId' = Append(entriesByTxId, Mirror(entriesByTxId[src])),
         reversalBySourceTxId' = Put(reversalBySourceTxId, src, Len(transactions) + 1)
  PROVE  ReversalIntegrity'
<1> DEFINE tx == Len(transactions) + 1
           rec == Transaction(tenant, "REVERSAL", actor, Null, src)
<1>1. /\ DOMAIN transactions' = DOMAIN transactions \cup {tx}
      /\ tx \notin DOMAIN transactions
      /\ transactions'[tx] = rec
      /\ transactions'[src].status = "REVERSED"
      /\ \A t \in DOMAIN transactions :
            /\ transactions'[t].txType = transactions[t].txType
            /\ transactions'[t].tenant = transactions[t].tenant
            /\ transactions'[t].reversalOf = transactions[t].reversalOf
            /\ t # src => transactions'[t].status = transactions[t].status
  <2> HIDE DEF rec
  <2> QED BY RecordedFields DEF rec
<1>2. /\ DOMAIN transactions = 1 .. Len(transactions) /\ Len(transactions) \in Nat
      /\ DOMAIN entriesByTxId = DOMAIN transactions
      /\ \A s \in DOMAIN reversalBySourceTxId : s \in DOMAIN transactions
                                                /\ reversalBySourceTxId[s] \in DOMAIN transactions
  BY LenProperties DEF TypeOK
<1>3. /\ \A t \in DOMAIN transactions : entriesByTxId'[t] = entriesByTxId[t]
      /\ entriesByTxId'[tx] = Mirror(entriesByTxId[src])
  BY <1>2, LenProperties DEF TypeOK
<1>4. /\ rec.txType = "REVERSAL" /\ rec.reversalOf = src
      /\ rec.tenant = tenant /\ rec.status = "POSTED"
  BY DEF Transaction
<1>5. /\ DOMAIN reversalBySourceTxId' = DOMAIN reversalBySourceTxId \cup {src}
      /\ reversalBySourceTxId'[src] = tx
      /\ \A s \in DOMAIN reversalBySourceTxId : reversalBySourceTxId'[s] = reversalBySourceTxId[s]
  BY DEF Put
<1> HIDE DEF tx, rec
<1>6. ASSUME NEW s \in DOMAIN reversalBySourceTxId'
      PROVE  LET r == reversalBySourceTxId'[s] IN
             /\ transactions'[r].txType = "REVERSAL"
             /\ transactions'[r].reversalOf = s
             /\ transactions'[r].tenant = transactions'[s].tenant
             /\ transactions'[s].txType # "EXPIRE"
             /\ entriesByTxId'[r] = Mirror(entriesByTxId'[s])
  <2>1. CASE s = src
    BY <1>1, <1>3, <1>4, <1>5, <2>1
  <2>2. CASE s # src
    BY <1>1, <1>2, <1>3, <1>5, <2>2 DEF ReversalIntegrity
  <2>3. QED
    BY <2>1, <2>2
<1>7. ASSUME NEW t \in DOMAIN transactions'
      PROVE  /\ transactions'[t].status = "REVERSED" <=> t \in DOMAIN reversalBySourceTxId'
             /\ transactions'[t].reversalOf # Null =>
                   /\ transactions'[t].reversalOf \in DOMAIN reversalBySourceTxId'
                   /\ reversalBySourceTxId'[transactions'[t].reversalOf] = t
  <2>1. CASE t = tx
    BY <1>1, <1>2, <1>4, <1>5, <2>1
  <2>2. CASE t # tx
    BY <1>1, <1>2, <1>5, <2>2 DEF ReversalIntegrity
  <2>3. QED
    BY <2>1, <2>2
<1>8. QED
  BY <1>6, <1>7 DEF ReversalIntegrity, Mirror

\* Every step keeps the bookkeeping of reversals.
LEMMA ReversalStep ==
  ASSUME Typed, ReversalIntegrity, [Next]_vars
  PROVE  ReversalIntegrity'
<1>1. TypeOK
  BY DEF Typed
<1>2. CASE UNCHANGED <<transactions, entriesByTxId, reversalBySourceTxId>>
  BY <1>2 DEF ReversalIntegrity, Mirror
<1>3. ASSUME NEW in \in PostInputs, PostTransaction(in) PROVE ReversalIntegrity'
  <2> DEFINE rec == Transaction(in.tenant, in.txType, in.actor, TrimmedKey(in.key), Null)
  <2>1. CASE UNCHANGED <<transactions, entriesByTxId, reversalBySourceTxId>>
    BY <1>2, <2>1
  <2>2. CASE /\ transactions' = Append(transactions, rec)
             /\ entriesByTxId' = Append(entriesByTxId, EntriesOf(in))
             /\ UNCHANGED reversalBySourceTxId
    <3>1. rec.status = "POSTED" /\ rec.reversalOf = Null
      BY DEF Transaction
    <3> HIDE DEF rec
    <3>2. QED
      BY <1>1, <2>2, <3>1, AppendKeepsReversals
  <2>3. QED
    BY <1>3, <2>1, <2>2 DEF PostTransaction, PostAccepted, Detail, Answered, ledger, journal, indexes
<1>4. ASSUME NEW t \in Tenants, NEW src \in 1 .. Len(transactions) + 1,
             NEW actor \in Actors \cup {Null}, ReverseTransaction(t, src, actor)
      PROVE  ReversalIntegrity'
  <2>1. CASE UNCHANGED <<transactions, entriesByTxId, reversalBySourceTxId>>
    BY <1>2, <2>1
  <2>2. CASE /\ HasTransaction(t, src)
             /\ src \notin DOMAIN reversalBySourceTxId
             /\ ReversalVerdict(t, src) = "OK"
             /\ ReversalAccepted(t, src, actor)
             /\ ~ UNCHANGED <<transactions, entriesByTxId, reversalBySourceTxId>>
    <3>1. /\ transactions' = Append([transactions EXCEPT ![src].status = "REVERSED"],
                                    Transaction(t, "REVERSAL", actor, Null, src))
          /\ entriesByTxId' = Append(entriesByTxId, Mirror(entriesByTxId[src]))
          /\ reversalBySourceTxId' = Put(reversalBySourceTxId, src, Len(transactions) + 1)
      BY <2>2 DEF ReversalAccepted, journal
    <3>2. transactions[src].txType # "EXPIRE"
      BY <2>2 DEF ReversalVerdict
    <3>3. src \in DOMAIN transactions /\ transactions[src].tenant = t
      BY <2>2 DEF HasTransaction
    <3>4. QED
      BY <1>1, <2>2, <3>1, <3>2, <3>3, ReversalKeepsReversals
  <2>3. QED
    BY <1>4, <2>1, <2>2 DEF ReverseTransaction, Detail, Answered, ledger, journal, indexes
<1>5. CASE ExpirePost
  <2> DEFINE rec == Transaction(batch.tenant, "EXPIRE", Null, Null, Null)
  <2>1. rec.status = "POSTED" /\ rec.reversalOf = Null
    BY DEF Transaction
  <2>2. /\ transactions' = Append(transactions, rec)
        /\ entriesByTxId' = Append(entriesByTxId, ExpireEntries(NextDue))
        /\ UNCHANGED reversalBySourceTxId
    BY <1>5 DEF ExpirePost, indexes
  <2> HIDE DEF rec
  <2>3. QED
    BY <1>1, <2>1, <2>2, AppendKeepsReversals
<1>6. CASE Tick \/ ExpireAbort \/ ExpireMark \/ ExpireEnd \/ UNCHANGED vars
  BY <1>2, <1>6 DEF Tick, ExpireAbort, ExpireMark, ExpireEnd, vars, ledger, journal, indexes
<1>7. ASSUME NEW t \in Tenants, NEW now \in Times, ExpireBegin(t, now) PROVE ReversalIntegrity'
  BY <1>2, <1>7 DEF ExpireBegin, Answered, ledger, journal, indexes
<1>8. ASSUME NEW in \in AccountInputs, CreateAccount(in) PROVE ReversalIntegrity'
  BY <1>2, <1>8 DEF CreateAccount, Answered, ledger, journal, indexes
<1>9. QED
  BY <1>3, <1>4, <1>5, <1>6, <1>7, <1>8 DEF Next, ExpireStep

\* Every transaction is reversed at most once, by its mirror in its own tenant,
\* and an EXPIRE never is; status and index always say the same.
THEOREM ReversalsAreSound == Spec => []ReversalIntegrity
<1>1. Init => ReversalIntegrity
  BY DEF Init, ReversalIntegrity
<1>2. Typed /\ ReversalIntegrity /\ [Next]_vars => ReversalIntegrity'
  BY ReversalStep
<1>3. QED
  BY <1>1, <1>2, AlwaysTyped, PTL DEF Spec
=============================================================================
