--------------------------- MODULE ComputedProofs ---------------------------
(***************************************************************************)
(* Proofs about Computed, for any acyclic graph of deps, any compute       *)
(* functions and any observers.                                            *)
(***************************************************************************)
EXTENDS Computed, SignalsProofs
-----------------------------------------------------------------------------
(* Recursion along the deps: a Computed is made after its deps. *)

\* f and g are the same on the deps of s.
SameOnDeps(f, g, s) == s \in Derived => \A k \in DOMAIN Deps[s] : f[Deps[s][k]] = g[Deps[s][k]]

\* A set of signals that has every signal whose deps it has, has them all.
LEMMA DepsInduction ==
  ASSUME NEW Good \in SUBSET Signal,
         \A s \in Signal : (s \in Derived => \A k \in DOMAIN Deps[s] : Deps[s][k] \in Good) => s \in Good
  PROVE  Good = Signal
  <1>1. PICK rank \in [Signal -> 1..Cardinality(Signal)] :
          \A c \in Derived : \A k \in DOMAIN Deps[c] : rank[Deps[c][k]] < rank[c]
    BY ComputedAssumption
  <1>2. \A s \in Signal : rank[s] \in Nat
    OBVIOUS
  <1>3. SUFFICES ASSUME Good # Signal PROVE FALSE
    OBVIOUS
  <1>4. {rank[s] : s \in Signal \ Good} \in SUBSET Nat /\ {rank[s] : s \in Signal \ Good} # {}
    BY <1>2, <1>3
  <1>5. PICK n \in {rank[s] : s \in Signal \ Good} : \A m \in {rank[s] : s \in Signal \ Good} : n <= m
    BY <1>4, LeastNat
  <1>6. PICK s \in Signal \ Good : \A t \in Signal \ Good : rank[s] <= rank[t]
    BY <1>5
  <1>7. s \in Derived => \A k \in DOMAIN Deps[s] : Deps[s][k] \in Good
    <2> SUFFICES ASSUME s \in Derived, NEW k \in DOMAIN Deps[s] PROVE Deps[s][k] \in Good
      OBVIOUS
    <2>1. Deps[s] \in Seq(Signal) /\ Deps[s][k] \in Signal
      BY ComputedAssumption
    <2>2. rank[Deps[s][k]] < rank[s]
      BY <1>1
    <2>3. QED
      BY <1>2, <1>6, <2>1, <2>2
  <1>8. QED
    BY <1>6, <1>7

\* G gives the value of a function at a signal, and looks at its values at the deps only.
LooksAtDeps(V, G) ==
  /\ V # {}
  /\ G \in [Signal -> [[Signal -> V] -> V]]
  /\ \A s \in Signal : \A f, g \in [Signal -> V] : SameOnDeps(f, g, s) => G[s][f] = G[s][g]

\* There is such a function.
LEMMA DepsRecursion ==
  ASSUME NEW V, NEW G, LooksAtDeps(V, G)
  PROVE  \E f \in [Signal -> V] : \A s \in Signal : f[s] = G[s][f]
  <1>0. /\ V # {}
        /\ G \in [Signal -> [[Signal -> V] -> V]]
        /\ \A s \in Signal : \A f, g \in [Signal -> V] : SameOnDeps(f, g, s) => G[s][f] = G[s][g]
    BY DEF LooksAtDeps
  <1>1. PICK rank \in [Signal -> 1..Cardinality(Signal)] :
          \A c \in Derived : \A k \in DOMAIN Deps[c] : rank[Deps[c][k]] < rank[c]
    BY ComputedAssumption
  <1>2. Cardinality(Signal) \in Nat /\ \A s \in Signal : rank[s] \in Nat /\ rank[s] # 0
                                                        /\ rank[s] <= Cardinality(Signal)
    BY ComputedAssumption, FS_CardinalityType
  <1> DEFINE Under(n) == {s \in Signal : rank[s] <= n}
             Fits(f, n) == \A s \in Under(n) : f[s] = G[s][f]
             T == {n \in Nat : ~ \E f \in [Signal -> V] : Fits(f, n)}
  <1>3. T = {}
    <2> SUFFICES ASSUME T # {} PROVE FALSE
      OBVIOUS
    <2>1. PICK n \in T : \A m \in T : n <= m
      <3>1. T \in SUBSET Nat
        OBVIOUS
      <3> HIDE DEF T
      <3>2. QED
        BY <3>1, LeastNat
    <2>2. n \in Nat /\ ~ \E f \in [Signal -> V] : Fits(f, n)
      BY <2>1
    <2>3. n # 0
      <3> SUFFICES ASSUME n = 0 PROVE FALSE
        OBVIOUS
      <3>1. Under(0) = {}
        BY <1>2
      <3>2. PICK v \in V : TRUE
        BY <1>0
      <3>3. [s \in Signal |-> v] \in [Signal -> V] /\ Fits([s \in Signal |-> v], 0)
        BY <3>1
      <3>4. QED
        BY <2>2, <3>3
    <2>4. n - 1 \in Nat /\ n - 1 \notin T
      <3> HIDE DEF T
      <3>1. QED
        BY <2>1, <2>2, <2>3
    <2>5. PICK f \in [Signal -> V] : Fits(f, n - 1)
      BY <2>4
    <2>6. PICK g : g = [s \in Signal |-> G[s][f]]
      OBVIOUS
    <2>7. g \in [Signal -> V] /\ \A s \in Signal : g[s] = G[s][f]
      BY <1>0, <2>6
    <2>8. \A s \in Under(n - 1) : g[s] = f[s]
      BY <2>5, <2>7
    <2>9. ASSUME NEW s \in Under(n) PROVE g[s] = G[s][g]
      <3>1. SameOnDeps(f, g, s)
        <4> SUFFICES ASSUME s \in Derived, NEW k \in DOMAIN Deps[s]
                     PROVE  f[Deps[s][k]] = g[Deps[s][k]]
          BY DEF SameOnDeps
        <4>1. Deps[s] \in Seq(Signal) /\ Deps[s][k] \in Signal
          BY ComputedAssumption
        <4>2. rank[Deps[s][k]] < rank[s] /\ rank[s] <= n
          BY <1>1
        <4>3. rank[Deps[s][k]] <= n - 1
          BY <1>2, <2>2, <4>1, <4>2
        <4>4. QED
          BY <2>8, <4>1, <4>3
      <3>2. s \in Signal /\ G[s][f] = G[s][g]
        BY <1>0, <2>7, <3>1
      <3>3. QED
        BY <2>7, <3>2
    <2>10. Fits(g, n)
      BY <2>9
    <2>11. QED
      BY <2>2, <2>7, <2>10
  <1>4. PICK f \in [Signal -> V] : Fits(f, Cardinality(Signal))
    BY <1>2, <1>3
  <1>5. \A s \in Signal : s \in Under(Cardinality(Signal))
    BY <1>2
  <1>6. QED
    BY <1>4, <1>5
-----------------------------------------------------------------------------
(* Through *)

\* What the recursive definition in Through defines.
IsAfter(f, fs, st) == f = [k \in 0..Len(fs) |-> IF k = 0 THEN st ELSE fs[k][f[k - 1]]]

\* The recursive function in Through exists.
LEMMA ThroughDef ==
  ASSUME NEW fs, Len(fs) \in Nat, NEW st
  PROVE  \E f : IsAfter(f, fs, st) /\ Through(fs, st) = f[Len(fs)]
  <1> DEFINE Step(f, k) == IF k = 0 THEN st ELSE fs[k][f[k - 1]]
             Exists(m) == \E f : f = [k \in 0..m |-> Step(f, k)]
             T == {m \in 0..Len(fs) : ~Exists(m)}
  <1>1. Exists(Len(fs))
    <2> SUFFICES ASSUME ~Exists(Len(fs)) PROVE FALSE
      OBVIOUS
    <2>1. T \in SUBSET Nat /\ T # {}
      <3>1. Len(fs) \in 0..Len(fs)
        OBVIOUS
      <3>2. QED
        BY <3>1
    <2> HIDE DEF T
    <2>2. PICK n \in T : \A m \in T : n <= m
      BY <2>1, LeastNat
    <2>3. n \in Nat /\ n <= Len(fs) /\ ~Exists(n)
      BY <2>2 DEF T
    <2>4. CASE n = 0
      <3>1. PICK f : f = [k \in 0..0 |-> st]
        OBVIOUS
      <3>2. f = [k \in 0..0 |-> Step(f, k)]
        BY <3>1
      <3>3. QED
        BY <2>3, <2>4, <3>2
    <2>5. CASE n > 0
      <3> HIDE DEF Exists
      <3>0. n - 1 \in 0..Len(fs) /\ n - 1 \notin T
        BY <2>1, <2>2, <2>3, <2>5
      <3>1. Exists(n - 1)
        BY <3>0 DEF T
      <3> USE DEF Exists
      <3>2. PICK f : f = [k \in 0..(n - 1) |-> Step(f, k)]
        BY <3>1
      <3> HIDE DEF Step
      <3>3. PICK g : g = [k \in 0..n |-> Step(f, k)]
        OBVIOUS
      <3>4. \A k \in 0..(n - 1) : g[k] = f[k]
        BY <2>3, <2>5, <3>2, <3>3
      <3>5. \A k \in 0..n : Step(f, k) = Step(g, k)
        BY <2>3, <2>5, <3>4 DEF Step
      <3>6. g = [k \in 0..n |-> Step(g, k)]
        BY <3>3, <3>5
      <3>7. QED
        BY <3>6, <2>3
    <2>6. QED
      BY <2>3, <2>4, <2>5
  <1>2. \E f : IsAfter(f, fs, st)
    BY <1>1 DEF IsAfter
  <1>3. PICK f : f = CHOOSE g : IsAfter(g, fs, st)
    OBVIOUS
  <1>4. IsAfter(f, fs, st)
    BY <1>2, <1>3, Zenon
  <1>5. Through(fs, st) = f[Len(fs)]
    BY <1>3 DEF Through, IsAfter
  <1>6. QED
    BY <1>4, <1>5

\* Changes that lead from each of a row of sets to the next lead from the first to the last.
LEMMA ThroughRow ==
  ASSUME NEW fs, Len(fs) \in Nat, NEW R, NEW st \in R[0],
         \A k \in 1..Len(fs) : \A x \in R[k - 1] : fs[k][x] \in R[k]
  PROVE  Through(fs, st) \in R[Len(fs)]
  <1>1. PICK f : IsAfter(f, fs, st) /\ Through(fs, st) = f[Len(fs)]
    BY ThroughDef
  <1>2. f[0] = st /\ \A k \in 1..Len(fs) : f[k] = fs[k][f[k - 1]]
    BY <1>1 DEF IsAfter
  <1> DEFINE T == {k \in 0..Len(fs) : f[k] \notin R[k]}
  <1>3. T = {}
    <2> SUFFICES ASSUME T # {} PROVE FALSE
      OBVIOUS
    <2>1. T \in SUBSET Nat
      OBVIOUS
    <2> HIDE DEF T
    <2>2. PICK n \in T : \A m \in T : n <= m
      BY <2>1, LeastNat
    <2>3. n \in 0..Len(fs) /\ f[n] \notin R[n]
      BY <2>2 DEF T
    <2>4. n # 0
      BY <1>2, <2>3
    <2>5. n \in 1..Len(fs) /\ n - 1 \in 0..Len(fs) /\ n - 1 \notin T
      BY <2>1, <2>2, <2>3, <2>4
    <2>6. f[n - 1] \in R[n - 1]
      BY <2>5 DEF T
    <2>7. QED
      BY <1>2, <2>3, <2>5, <2>6
  <1>4. Len(fs) \in 0..Len(fs)
    OBVIOUS
  <1>5. QED
    BY <1>1, <1>3, <1>4
-----------------------------------------------------------------------------
(* refresh *)

\* The deps of a Computed are signals made before it.
LEMMA DepsFacts ==
  ASSUME NEW c \in Derived
  PROVE  /\ c \in Signal /\ c \notin Source
         /\ Deps[c] \in Seq(Signal) /\ Len(Deps[c]) \in Nat /\ DOMAIN Deps[c] = 1..Len(Deps[c])
         /\ DOMAIN Deps[c] \in SUBSET Nat
         /\ \A k \in DOMAIN Deps[c] : Deps[c][k] \in Signal /\ Deps[c][k] # c
  <1>1. c \in Signal /\ c \notin Source /\ Deps[c] \in Seq(Signal)
    BY ComputedAssumption DEF Source
  <1>2. PICK rank \in [Signal -> 1..Cardinality(Signal)] :
          \A d \in Derived : \A k \in DOMAIN Deps[d] : rank[Deps[d][k]] < rank[d]
    BY ComputedAssumption
  <1>3. Len(Deps[c]) \in Nat /\ DOMAIN Deps[c] = 1..Len(Deps[c])
        /\ \A k \in DOMAIN Deps[c] : Deps[c][k] \in Signal
    BY <1>1
  <1>4. rank[c] \in Int /\ ~(rank[c] < rank[c])
    BY <1>1
  <1>5. \A k \in DOMAIN Deps[c] : Deps[c][k] # c
    BY <1>2, <1>4
  <1>6. DOMAIN Deps[c] \in SUBSET Nat
    BY <1>3
  <1>7. QED
    BY <1>1, <1>3, <1>5, <1>6

\* The fields of a store.
LEMMA StoreFields ==
  ASSUME NEW st \in Store
  PROVE  /\ st.value \in [Signal -> Value] /\ st.subs \in [Signal -> Seq(Registration)]
         /\ st.known \in [Derived -> SUBSET Nat] /\ st.notified \in [Derived -> Value]
  BY DEF Store

\* What is known once c is evaluated to v.
KnownAfter(st, c, v) ==
  [(IF v = st.value[c] THEN st.known ELSE Bumped(st.known, c)) EXCEPT ![c] = DOMAIN Deps[c]]

\* Evaluating c changes its value and what is known.
LEMMA EvaluatedFields ==
  ASSUME NEW st \in Store, NEW c \in Derived, NEW v \in Value
  PROVE  /\ Evaluated(st, c, v) \in Store
         /\ Evaluated(st, c, v).value = [st.value EXCEPT ![c] = v]
         /\ Evaluated(st, c, v).known = KnownAfter(st, c, v)
         /\ Evaluated(st, c, v).subs = st.subs
         /\ Evaluated(st, c, v).notified = st.notified
  <1>1. /\ st.value \in [Signal -> Value] /\ st.subs \in [Signal -> Seq(Registration)]
        /\ st.known \in [Derived -> SUBSET Nat] /\ st.notified \in [Derived -> Value]
    BY StoreFields
  <1>2. PICK kn : kn = KnownAfter(st, c, v)
    OBVIOUS
  <1>3. kn \in [Derived -> SUBSET Nat]
    <2>1. Bumped(st.known, c) \in [Derived -> SUBSET Nat]
      BY <1>1 DEF Bumped
    <2>2. DOMAIN Deps[c] \in SUBSET Nat
      BY DepsFacts
    <2>3. QED
      BY <1>1, <1>2, <2>1, <2>2 DEF KnownAfter
  <1>4. PICK vl : vl = [st.value EXCEPT ![c] = v]
    OBVIOUS
  <1>5. vl \in [Signal -> Value]
    BY <1>1, <1>4, DepsFacts
  <1>6. Evaluated(st, c, v) = [st EXCEPT !.value = vl, !.known = kn]
    BY <1>2, <1>4 DEF Evaluated, KnownAfter, Store
  <1>7. Evaluated(st, c, v) = [value |-> vl, subs |-> st.subs, known |-> kn, notified |-> st.notified]
    BY <1>6 DEF Store
  <1>8. QED
    BY <1>1, <1>2, <1>3, <1>4, <1>5, <1>7 DEF Store

\* The value of a Computed that knows all its deps is what compute makes of them.
Memo(st) ==
  \A c \in Derived : /\ st.known[c] \subseteq DOMAIN Deps[c]
                     /\ st.known[c] = DOMAIN Deps[c] => st.value[c] = Compute(c, DepValues(st, c))

\* U has the deps of what it has, and all its Computeds know theirs.
Settled(st, U) ==
  /\ U \subseteq Signal
  /\ \A c \in U \intersect Derived : /\ st.known[c] = DOMAIN Deps[c]
                                     /\ \A k \in DOMAIN Deps[c] : Deps[c][k] \in U

\* What a refresh may do.
Refreshes(st, x) ==
  /\ x \in Store /\ Memo(x)
  /\ x.subs = st.subs /\ x.notified = st.notified
  /\ \A s \in Source : x.value[s] = st.value[s]

\* The deps of c are values.
LEMMA DepValuesType ==
  ASSUME NEW st \in Store, NEW c \in Derived
  PROVE  DepValues(st, c) \in [DOMAIN Deps[c] -> Value] /\ Compute(c, DepValues(st, c)) \in Value
  <1>1. DepValues(st, c) \in [DOMAIN Deps[c] -> Value]
    BY StoreFields, DepsFacts DEF DepValues
  <1>2. QED
    BY <1>1, ComputedAssumption

\* Evaluating a Computed whose deps are settled settles it and keeps every memo.
LEMMA EvaluatedKeeps ==
  ASSUME NEW st \in Store, Memo(st), NEW c \in Derived, Stale(st, c), NEW U, Settled(st, U),
         \A k \in DOMAIN Deps[c] : Deps[c][k] \in U
  PROVE  LET x == Evaluated(st, c, Compute(c, DepValues(st, c)))
         IN  Refreshes(st, x) /\ Settled(x, U \union {c})
  <1>1. PICK v : v = Compute(c, DepValues(st, c))
    OBVIOUS
  <1>2. PICK x : x = Evaluated(st, c, v)
    OBVIOUS
  <1>3. v \in Value
    BY <1>1, DepValuesType
  <1>4. /\ x \in Store /\ x.value = [st.value EXCEPT ![c] = v] /\ x.known = KnownAfter(st, c, v)
        /\ x.subs = st.subs /\ x.notified = st.notified
    BY <1>2, <1>3, EvaluatedFields
  <1>5. st.value \in [Signal -> Value] /\ st.known \in [Derived -> SUBSET Nat] /\ c \in Signal
        /\ c \notin Source
    BY StoreFields, DepsFacts
  <1>6. c \notin U
    BY DEF Stale, Settled
  <1>7. x.value[c] = v /\ \A s \in Signal : s # c => x.value[s] = st.value[s]
    BY <1>4, <1>5
  <1>8. x.known[c] = DOMAIN Deps[c]
    BY <1>4, <1>5 DEF KnownAfter, Bumped
  <1>9. ASSUME NEW d \in Derived, d # c
        PROVE  /\ x.known[d] \subseteq st.known[d]
               /\ v # st.value[c] => \A k \in x.known[d] : Deps[d][k] # c
               /\ (\A k \in st.known[d] : Deps[d][k] # c) => x.known[d] = st.known[d]
    <2>1. x.known[d] = IF v = st.value[c] THEN st.known[d] ELSE {k \in st.known[d] : Deps[d][k] # c}
      BY <1>4, <1>5, <1>9 DEF KnownAfter, Bumped
    <2>2. QED
      BY <2>1
  <1>10. Memo(x)
    <2>1. DepValues(x, c) = DepValues(st, c)
      BY <1>7, DepsFacts DEF DepValues
    <2>2. ASSUME NEW d \in Derived, d # c, x.known[d] = DOMAIN Deps[d]
          PROVE  x.value[d] = Compute(d, DepValues(x, d))
      <3>1. st.known[d] = DOMAIN Deps[d]
        BY <1>9, <2>2 DEF Memo
      <3>2. \A k \in DOMAIN Deps[d] : x.value[Deps[d][k]] = st.value[Deps[d][k]]
        BY <1>7, <1>9, <2>2, DepsFacts
      <3>3. DepValues(x, d) = DepValues(st, d)
        BY <3>2 DEF DepValues
      <3>4. x.value[d] = st.value[d]
        BY <1>7, <2>2, DepsFacts
      <3>5. QED
        BY <3>1, <3>3, <3>4 DEF Memo
    <2>3. \A d \in Derived : x.known[d] \subseteq DOMAIN Deps[d]
      BY <1>8, <1>9 DEF Memo
    <2>4. x.value[c] = Compute(c, DepValues(x, c))
      BY <1>1, <1>7, <2>1
    <2>5. QED
      BY <2>2, <2>3, <2>4 DEF Memo
  <1>11. Settled(x, U \union {c})
    <2>1. ASSUME NEW d \in U \intersect Derived PROVE x.known[d] = DOMAIN Deps[d]
      <3>1. st.known[d] = DOMAIN Deps[d] /\ d # c /\ \A k \in DOMAIN Deps[d] : Deps[d][k] # c
        BY <1>6 DEF Settled
      <3>2. QED
        BY <1>9, <3>1
    <2>2. QED
      BY <1>5, <1>8, <2>1 DEF Settled
  <1>12. \A s \in Source : x.value[s] = st.value[s]
    BY <1>5, <1>7 DEF Source
  <1>13. QED
    BY <1>1, <1>2, <1>4, <1>10, <1>11, <1>12 DEF Refreshes

\* Refreshing, with f for what it is on the deps.
RefreshBody(f, s, st) ==
  IF s \in Source THEN st
  ELSE LET up == Through([k \in DOMAIN Deps[s] |-> f[Deps[s][k]]], st)
       IN  IF Stale(up, s) THEN Evaluated(up, s, Compute(s, DepValues(up, s))) ELSE up

\* A row of changes, one for each dep, is a sequence of them.
LEMMA DepChanges ==
  ASSUME NEW c \in Derived, NEW g, DOMAIN g = DOMAIN Deps[c]
  PROVE  Len(g) = Len(Deps[c]) /\ Len(g) \in Nat
  <1>1. DOMAIN g = 1..Len(Deps[c]) /\ Len(Deps[c]) \in Nat
    BY DepsFacts
  <1>2. QED
    BY <1>1

\* Changes of stores lead from store to store.
LEMMA ThroughStores ==
  ASSUME NEW c \in Derived, NEW g, DOMAIN g = DOMAIN Deps[c],
         \A k \in DOMAIN Deps[c] : g[k] \in [Store -> Store],
         NEW st \in Store
  PROVE  Through(g, st) \in Store
  <1>1. Len(g) \in Nat /\ 1..Len(g) = DOMAIN Deps[c]
    BY DepChanges, DepsFacts
  <1>2. PICK R : R = [k \in 0..Len(g) |-> Store]
    OBVIOUS
  <1>3. st \in R[0] /\ R[Len(g)] = Store
    BY <1>1, <1>2
  <1>4. \A k \in 1..Len(g) : \A x \in R[k - 1] : g[k][x] \in R[k]
    <2> SUFFICES ASSUME NEW k \in 1..Len(g), NEW x \in R[k - 1] PROVE g[k][x] \in R[k]
      OBVIOUS
    <2>1. k - 1 \in 0..Len(g) /\ k \in 0..Len(g)
      BY <1>1
    <2>2. R[k - 1] = Store /\ R[k] = Store
      BY <1>2, <2>1
    <2>3. QED
      BY <1>1, <2>2
  <1>5. QED
    BY <1>1, <1>3, <1>4, ThroughRow

\* A refresh leaves a store.
LEMMA RefreshBodyType ==
  ASSUME NEW s \in Signal, NEW f,
         s \in Derived => \A k \in DOMAIN Deps[s] : f[Deps[s][k]] \in [Store -> Store],
         NEW st \in Store
  PROVE  RefreshBody(f, s, st) \in Store
  <1>1. CASE s \in Source
    BY <1>1 DEF RefreshBody
  <1>2. CASE s \notin Source
    <2>1. s \in Derived
      BY <1>2 DEF Source
    <2>2. PICK g : g = [k \in DOMAIN Deps[s] |-> f[Deps[s][k]]]
      OBVIOUS
    <2>3. PICK up : up = Through(g, st)
      OBVIOUS
    <2>4. up \in Store
      BY <2>1, <2>2, <2>3, ThroughStores
    <2>5. Evaluated(up, s, Compute(s, DepValues(up, s))) \in Store
      BY <2>1, <2>4, DepValuesType, EvaluatedFields
    <2>6. QED
      BY <1>2, <2>2, <2>3, <2>4, <2>5 DEF RefreshBody
  <1>3. QED
    BY <1>1, <1>2

\* What the recursive definition of Refreshing defines.
IsRefreshing(f) == f = [s \in Signal |-> [st \in Store |-> RefreshBody(f, s, st)]]

\* The recursive function Refreshing exists, and takes stores to stores.
LEMMA RefreshingDef ==
  /\ \A s \in Signal : Refreshing[s] \in [Store -> Store]
  /\ \A s \in Signal, st \in Store : Refreshed(st, s) = RefreshBody(Refreshing, s, st)
  <1> DEFINE V == [Store -> Store]
             G == [s \in Signal |-> [f \in [Signal -> V] |-> [st \in Store |-> RefreshBody(f, s, st)]]]
  <1>1. G \in [Signal -> [[Signal -> V] -> V]]
    <2>1. ASSUME NEW s \in Signal, NEW f \in [Signal -> V], NEW st \in Store
          PROVE  RefreshBody(f, s, st) \in Store
      <3>1. s \in Derived => \A k \in DOMAIN Deps[s] : f[Deps[s][k]] \in [Store -> Store]
        BY DepsFacts
      <3>2. QED
        BY <3>1, RefreshBodyType
    <2>2. QED
      BY <2>1
  <1>2. ASSUME NEW s \in Signal, NEW f \in [Signal -> V], NEW g \in [Signal -> V], SameOnDeps(f, g, s)
        PROVE  G[s][f] = G[s][g]
    <2>1. ASSUME NEW st \in Store PROVE RefreshBody(f, s, st) = RefreshBody(g, s, st)
      <3>1. CASE s \in Source
        BY <3>1 DEF RefreshBody
      <3>2. CASE s \notin Source
        <4>1. [k \in DOMAIN Deps[s] |-> f[Deps[s][k]]] = [k \in DOMAIN Deps[s] |-> g[Deps[s][k]]]
          BY <1>2, <3>2 DEF SameOnDeps, Source
        <4>2. QED
          BY <3>2, <4>1 DEF RefreshBody
      <3>3. QED
        BY <3>1, <3>2
    <2>2. QED
      BY <2>1
  <1>3. V # {}
    <2>1. [st \in Store |-> st] \in V
      OBVIOUS
    <2>2. QED
      BY <2>1
  <1> HIDE DEF V
  <1>4. \E f \in [Signal -> V] : \A s \in Signal : f[s] = G[s][f]
    <2> HIDE DEF G
    <2>1. \A s \in Signal : \A f, g \in [Signal -> V] : SameOnDeps(f, g, s) => G[s][f] = G[s][g]
      BY <1>2
    <2>2. LooksAtDeps(V, G)
      BY <1>1, <1>3, <2>1 DEF LooksAtDeps
    <2>3. QED
      BY <2>2, DepsRecursion
  <1>5. \E f : IsRefreshing(f)
    <2>1. PICK f \in [Signal -> V] : \A s \in Signal : f[s] = G[s][f]
      BY <1>4
    <2>2. \A s \in Signal : f[s] = [st \in Store |-> RefreshBody(f, s, st)]
      BY <2>1
    <2>3. QED
      BY <2>1, <2>2 DEF IsRefreshing
  <1>6. PICK f : f = CHOOSE g : IsRefreshing(g)
    OBVIOUS
  <1>7. IsRefreshing(f)
    BY <1>5, <1>6, Zenon
  <1>8. Refreshing = f
    BY <1>6 DEF Refreshing, IsRefreshing, RefreshBody
  <1>9. \A s \in Signal : f[s] = [st \in Store |-> RefreshBody(f, s, st)]
    <2>1. PICK h : h = [s \in Signal |-> [st \in Store |-> RefreshBody(f, s, st)]]
      OBVIOUS
    <2>2. \A s \in Signal : h[s] = [st \in Store |-> RefreshBody(f, s, st)]
      BY <2>1
    <2>3. QED
      BY <1>7, <2>1, <2>2 DEF IsRefreshing
  <1> DEFINE Good == {s \in Signal : f[s] \in [Store -> Store]}
  <1>10. Good = Signal
    <2>1. ASSUME NEW s \in Signal, s \in Derived => \A k \in DOMAIN Deps[s] : Deps[s][k] \in Good
          PROVE  s \in Good
      <3>1. s \in Derived => \A k \in DOMAIN Deps[s] : f[Deps[s][k]] \in [Store -> Store]
        BY <2>1
      <3>2. \A st \in Store : RefreshBody(f, s, st) \in Store
        BY <3>1, RefreshBodyType
      <3>3. QED
        BY <1>9, <3>2
    <2> HIDE DEF Good
    <2>2. Good \in SUBSET Signal
      BY DEF Good
    <2>3. QED
      BY <2>1, <2>2, DepsInduction
  <1>11. QED
    BY <1>8, <1>9, <1>10 DEF Refreshed

\* What a refresh of s does to a store with memos: s and what was settled is settled.
RefreshSettles(st, s) ==
  \A U : Settled(st, U) =>
    /\ Refreshes(st, Refreshed(st, s))
    /\ \E W : U \subseteq W /\ s \in W /\ Settled(Refreshed(st, s), W)

\* The same of the deps of s, up to the k-th.
UpTo(st, s, U, k) ==
  {x \in Store : /\ Refreshes(st, x)
                 /\ \E W : /\ U \subseteq W /\ Settled(x, W)
                           /\ \A j \in 1..k : Deps[s][j] \in W}

\* By induction along the deps.
LEMMA RefreshFacts ==
  ASSUME NEW s \in Signal, NEW st \in Store, Memo(st)
  PROVE  RefreshSettles(st, s)
  <1> DEFINE Good == {t \in Signal : \A x \in Store : Memo(x) => RefreshSettles(x, t)}
  <1>1. ASSUME NEW t \in Signal, t \in Derived => \A k \in DOMAIN Deps[t] : Deps[t][k] \in Good
        PROVE  t \in Good
    <2> SUFFICES ASSUME NEW x \in Store, Memo(x), NEW U, Settled(x, U)
                 PROVE  /\ Refreshes(x, Refreshed(x, t))
                        /\ \E W : U \subseteq W /\ t \in W /\ Settled(Refreshed(x, t), W)
      BY DEF RefreshSettles
    <2>1. Refreshed(x, t) = RefreshBody(Refreshing, t, x)
      BY RefreshingDef
    <2>2. CASE t \in Source
      <3>1. Refreshed(x, t) = x
        BY <2>1, <2>2 DEF RefreshBody
      <3>2. Settled(x, U \union {t})
        BY <2>2 DEF Settled, Source
      <3>3. Refreshes(x, x)
        BY DEF Refreshes
      <3>4. QED
        BY <3>1, <3>2, <3>3
    <2>3. CASE t \notin Source
      <3>1. t \in Derived
        BY <2>3 DEF Source
      <3>2. PICK g : g = [k \in DOMAIN Deps[t] |-> Refreshing[Deps[t][k]]]
        OBVIOUS
      <3>3. PICK up : up = Through(g, x)
        OBVIOUS
      <3>4. Len(g) = Len(Deps[t]) /\ Len(g) \in Nat /\ DOMAIN Deps[t] = 1..Len(g)
        BY <3>1, <3>2, DepChanges, DepsFacts
      <3>5. PICK R : R = [k \in 0..Len(g) |-> UpTo(x, t, U, k)]
        OBVIOUS
      <3>6. up \in UpTo(x, t, U, Len(g))
        <4>1. x \in UpTo(x, t, U, 0)
          BY DEF UpTo, Refreshes
        <4>2. ASSUME NEW k \in 1..Len(g), NEW y \in UpTo(x, t, U, k - 1)
              PROVE  g[k][y] \in UpTo(x, t, U, k)
          <5>1. k \in DOMAIN Deps[t] /\ Deps[t][k] \in Good /\ Deps[t][k] \in Signal
            BY <1>1, <3>1, <3>4, DepsFacts
          <5>2. g[k][y] = Refreshed(y, Deps[t][k])
            BY <3>2, <5>1 DEF Refreshed
          <5>3. PICK z : z = Refreshed(y, Deps[t][k])
            OBVIOUS
          <5>4. y \in Store /\ Memo(y) /\ Refreshes(x, y)
            BY DEF UpTo, Refreshes
          <5>5. PICK W : U \subseteq W /\ Settled(y, W) /\ \A j \in 1..(k - 1) : Deps[t][j] \in W
            BY DEF UpTo
          <5>6. RefreshSettles(y, Deps[t][k])
            BY <5>1, <5>4
          <5>7. Refreshes(y, z) /\ \E X : W \subseteq X /\ Deps[t][k] \in X /\ Settled(z, X)
            BY <5>3, <5>5, <5>6 DEF RefreshSettles
          <5>8. PICK X : W \subseteq X /\ Deps[t][k] \in X /\ Settled(z, X)
            BY <5>7
          <5>9. Refreshes(x, z)
            BY <5>4, <5>7 DEF Refreshes
          <5>10. \A j \in 1..k : j \in 1..(k - 1) \/ j = k
            BY <3>4
          <5>11. U \subseteq X /\ \A j \in 1..k : Deps[t][j] \in X
            BY <5>5, <5>8, <5>10
          <5>12. z \in UpTo(x, t, U, k)
            BY <5>8, <5>9, <5>11 DEF UpTo, Refreshes
          <5>13. QED
            BY <5>2, <5>3, <5>12
        <4>3. x \in R[0] /\ R[Len(g)] = UpTo(x, t, U, Len(g))
          BY <3>4, <3>5, <4>1
        <4>4. \A k \in 1..Len(g) : \A y \in R[k - 1] : g[k][y] \in R[k]
          <5> SUFFICES ASSUME NEW k \in 1..Len(g), NEW y \in R[k - 1] PROVE g[k][y] \in R[k]
            OBVIOUS
          <5>1. k - 1 \in 0..Len(g) /\ k \in 0..Len(g)
            BY <3>4
          <5>2. R[k - 1] = UpTo(x, t, U, k - 1) /\ R[k] = UpTo(x, t, U, k)
            BY <3>5, <5>1
          <5>3. QED
            BY <4>2, <5>2
        <4>5. QED
          BY <3>3, <3>4, <4>3, <4>4, ThroughRow
      <3>7. up \in Store /\ Memo(up) /\ Refreshes(x, up)
        BY <3>6 DEF UpTo, Refreshes
      <3>8. PICK W : U \subseteq W /\ Settled(up, W) /\ \A j \in 1..Len(g) : Deps[t][j] \in W
        BY <3>6 DEF UpTo
      <3>9. Refreshed(x, t) = IF Stale(up, t) THEN Evaluated(up, t, Compute(t, DepValues(up, t))) ELSE up
        BY <2>1, <2>3, <3>2, <3>3 DEF RefreshBody
      <3>10. CASE Stale(up, t)
        <4>1. PICK z : z = Evaluated(up, t, Compute(t, DepValues(up, t)))
          OBVIOUS
        <4>2. Refreshes(up, z) /\ Settled(z, W \union {t})
          BY <3>1, <3>4, <3>7, <3>8, <3>10, <4>1, EvaluatedKeeps
        <4>3. Refreshes(x, z)
          BY <3>7, <4>2 DEF Refreshes
        <4>4. QED
          BY <3>8, <3>9, <3>10, <4>1, <4>2, <4>3
      <3>11. CASE ~Stale(up, t)
        <4>1. Settled(up, W \union {t})
          BY <3>1, <3>4, <3>8, <3>11 DEF Settled, Stale
        <4>2. QED
          BY <3>7, <3>8, <3>9, <3>11, <4>1
      <3>12. QED
        BY <3>10, <3>11
    <2>4. QED
      BY <2>2, <2>3
  <1>2. Good \in SUBSET Signal
    OBVIOUS
  <1>3. Good = Signal
    <2> HIDE DEF Good
    <2>1. QED
      BY <1>1, <1>2, DepsInduction
  <1>4. QED
    BY <1>3
-----------------------------------------------------------------------------
(* Reads are current *)

\* Meaning, from the values vl of the sources, with m for what it is on the deps.
MeaningBody(vl, m, s) ==
  IF s \in Source THEN vl[s] ELSE Compute(s, [k \in DOMAIN Deps[s] |-> m[Deps[s][k]]])

\* What the recursive definition of Meaning defines.
IsMeaning(m, vl) == m = [s \in Signal |-> MeaningBody(vl, m, s)]

\* There is a meaning for any values of the sources.
LEMMA MeaningExists ==
  ASSUME NEW vl \in [Signal -> Value] PROVE \E m : IsMeaning(m, vl)
  <1>1. CASE Signal = {}
    <2>1. PICK m : m = [s \in Signal |-> 0]
      OBVIOUS
    <2>2. m = [s \in Signal |-> MeaningBody(vl, m, s)]
      BY <1>1, <2>1
    <2>3. QED
      BY <2>2 DEF IsMeaning
  <1>2. CASE Signal # {}
    <2> DEFINE G == [s \in Signal |-> [f \in [Signal -> Value] |-> MeaningBody(vl, f, s)]]
    <2>1. G \in [Signal -> [[Signal -> Value] -> Value]]
      <3>1. ASSUME NEW s \in Signal, NEW f \in [Signal -> Value] PROVE MeaningBody(vl, f, s) \in Value
        <4>1. CASE s \in Source
          BY <4>1 DEF MeaningBody
        <4>2. CASE s \notin Source
          <5>1. s \in Derived
            BY <4>2 DEF Source
          <5>2. PICK args : args = [k \in DOMAIN Deps[s] |-> f[Deps[s][k]]]
            OBVIOUS
          <5>3. args \in [DOMAIN Deps[s] -> Value]
            BY <5>1, <5>2, DepsFacts
          <5>4. Compute(s, args) \in Value
            BY <5>1, <5>3, ComputedAssumption
          <5>5. QED
            BY <4>2, <5>2, <5>4 DEF MeaningBody
        <4>3. QED
          BY <4>1, <4>2
      <3>2. QED
        BY <3>1
    <2>2. ASSUME NEW s \in Signal, NEW f \in [Signal -> Value], NEW g \in [Signal -> Value],
                 SameOnDeps(f, g, s)
          PROVE  G[s][f] = G[s][g]
      <3>1. CASE s \in Source
        BY <3>1 DEF MeaningBody
      <3>2. CASE s \notin Source
        <4>1. [k \in DOMAIN Deps[s] |-> f[Deps[s][k]]] = [k \in DOMAIN Deps[s] |-> g[Deps[s][k]]]
          BY <2>2, <3>2 DEF SameOnDeps, Source
        <4>2. QED
          BY <3>2, <4>1 DEF MeaningBody
      <3>3. QED
        BY <3>1, <3>2
    <2>3. \A s \in Signal : \A f \in [Signal -> Value] : G[s][f] = MeaningBody(vl, f, s)
      OBVIOUS
    <2> HIDE DEF G
    <2>4. Value # {}
      BY <1>2
    <2>5. \A s \in Signal : \A f, g \in [Signal -> Value] : SameOnDeps(f, g, s) => G[s][f] = G[s][g]
      BY <2>2
    <2>6. LooksAtDeps(Value, G)
      BY <2>1, <2>4, <2>5 DEF LooksAtDeps
    <2>7. PICK m \in [Signal -> Value] : \A s \in Signal : m[s] = G[s][m]
      BY <2>6, DepsRecursion
    <2>8. \A s \in Signal : m[s] = MeaningBody(vl, m, s)
      BY <2>3, <2>7
    <2>9. QED
      BY <2>7, <2>8 DEF IsMeaning
  <1>3. QED
    BY <1>1, <1>2

\* The recursive function Meaning: what the sources hold, and what compute makes of it.
LEMMA MeaningDef ==
  ASSUME value \in [Signal -> Value]
  PROVE  /\ \A s \in Source : Meaning[s] = value[s]
         /\ \A c \in Derived :
              Meaning[c] = Compute(c, [k \in DOMAIN Deps[c] |-> Meaning[Deps[c][k]]])
  <1>1. PICK vl : vl = value
    OBVIOUS
  <1>2. PICK m : m = CHOOSE f : IsMeaning(f, vl)
    OBVIOUS
  <1>3. IsMeaning(m, vl)
    BY <1>1, <1>2, MeaningExists, Zenon
  <1>4. Meaning = m
    BY <1>1, <1>2 DEF Meaning, IsMeaning, MeaningBody
  <1>5. \A s \in Signal : m[s] = MeaningBody(vl, m, s)
    <2>1. PICK h : h = [s \in Signal |-> MeaningBody(vl, m, s)]
      OBVIOUS
    <2>2. \A s \in Signal : h[s] = MeaningBody(vl, m, s)
      BY <2>1
    <2>3. QED
      BY <1>3, <2>1, <2>2 DEF IsMeaning
  <1>6. \A s \in Source : s \in Signal
    BY DEF Source
  <1>7. \A s \in Source : m[s] = vl[s]
    BY <1>5, <1>6 DEF MeaningBody
  <1>8. \A c \in Derived : m[c] = Compute(c, [k \in DOMAIN Deps[c] |-> m[Deps[c][k]]])
    BY <1>5, DepsFacts DEF MeaningBody
  <1>9. QED
    BY <1>1, <1>4, <1>7, <1>8

\* What is settled has the value the sources give it.
LEMMA SettledMeans ==
  ASSUME NEW st \in Store, Memo(st), NEW U, Settled(st, U), NEW m,
         \A s \in Source : m[s] = st.value[s],
         \A c \in Derived : m[c] = Compute(c, [k \in DOMAIN Deps[c] |-> m[Deps[c][k]]])
  PROVE  \A s \in U : st.value[s] = m[s]
  <1> DEFINE Good == {s \in Signal : s \in U => st.value[s] = m[s]}
  <1>1. ASSUME NEW s \in Signal, s \in Derived => \A k \in DOMAIN Deps[s] : Deps[s][k] \in Good
        PROVE  s \in Good
    <2>1. CASE s \in Source
      BY <2>1
    <2>2. CASE s \notin U
      BY <2>2
    <2>3. CASE s \in U /\ s \notin Source
      <3>1. s \in Derived
        BY <2>3 DEF Source
      <3>2. st.known[s] = DOMAIN Deps[s] /\ \A k \in DOMAIN Deps[s] : Deps[s][k] \in U
        BY <2>3, <3>1 DEF Settled
      <3>3. st.value[s] = Compute(s, DepValues(st, s))
        BY <3>1, <3>2 DEF Memo
      <3>4. \A k \in DOMAIN Deps[s] : st.value[Deps[s][k]] = m[Deps[s][k]]
        BY <1>1, <3>1, <3>2
      <3>5. DepValues(st, s) = [k \in DOMAIN Deps[s] |-> m[Deps[s][k]]]
        BY <3>4 DEF DepValues
      <3>6. QED
        BY <3>1, <3>3, <3>5
    <2>4. QED
      BY <2>1, <2>2, <2>3
  <1>2. Good \in SUBSET Signal
    OBVIOUS
  <1>3. Good = Signal
    <2> HIDE DEF Good
    <2>1. QED
      BY <1>1, <1>2, DepsInduction
  <1>4. QED
    BY <1>3 DEF Settled

\* What holds between any two calls of the cache: it is a store with memos.
CacheInv == Now \in Store /\ Memo(Now)

\* A read of a cache with memos is current.
LEMMA CacheIsCurrent ==
  ASSUME CacheInv PROVE GetIsCurrent
  <1> SUFFICES ASSUME NEW c \in Derived PROVE Current[c] = Meaning[c]
    BY DEF GetIsCurrent
  <1>1. PICK st : st = Now
    OBVIOUS
  <1>2. st \in Store /\ Memo(st) /\ st.value = value
    BY <1>1 DEF CacheInv, Now
  <1>3. PICK m : m = Meaning
    OBVIOUS
  <1>4. /\ \A s \in Source : m[s] = st.value[s]
        /\ \A d \in Derived : m[d] = Compute(d, [k \in DOMAIN Deps[d] |-> m[Deps[d][k]]])
    <2>1. value \in [Signal -> Value]
      BY <1>2, StoreFields
    <2>2. QED
      BY <1>2, <1>3, <2>1, MeaningDef
  <1>5. c \in Signal
    BY DepsFacts
  <1>6. PICK x : x = Refreshed(st, c)
    OBVIOUS
  <1>7. Settled(st, {})
    BY DEF Settled
  <1>8. Refreshes(st, x) /\ \E W : c \in W /\ Settled(x, W)
    BY <1>2, <1>5, <1>6, <1>7, RefreshFacts DEF RefreshSettles
  <1>9. PICK W : c \in W /\ Settled(x, W)
    BY <1>8
  <1>10. x \in Store /\ Memo(x) /\ \A s \in Source : m[s] = x.value[s]
    BY <1>4, <1>8 DEF Refreshes
  <1>11. x.value[c] = m[c]
    BY <1>4, <1>9, <1>10, SettledMeans
  <1>12. Current[c] = x.value[c]
    BY <1>1, <1>5, <1>6 DEF Current
  <1>13. QED
    BY <1>3, <1>11, <1>12
-----------------------------------------------------------------------------
(* Registrations *)

\* The live registration of w.
LiveEntry(w) == [who |-> w, dead |-> FALSE]

\* Who has a live registration, and who has no two.
Lives(entries) == {w \in Who : LiveEntry(w) \in ToSet(entries)}
Single(entries, w) == OnlyOnce(entries, LiveEntry(w))

\* A slice is observed by those who are live in it.
LEMMA LivesFacts ==
  ASSUME NEW entries \in Seq(Registration)
  PROVE  /\ Observed(entries) <=> Lives(entries) # {}
         /\ \A w \in Who : w \in Lives(entries) <=> \E k \in DOMAIN entries : entries[k] = LiveEntry(w)
         /\ \A w : w \notin Lives(entries) /\ w \in Who => Single(entries, w)
  <1>1. \A k \in DOMAIN entries : entries[k] \in Registration
    OBVIOUS
  <1>2. \A w \in Who : w \in Lives(entries) <=> \E k \in DOMAIN entries : entries[k] = LiveEntry(w)
    BY DEF Lives, ToSet
  <1>3. \A k \in DOMAIN entries :
          ~entries[k].dead => entries[k].who \in Who /\ entries[k] = LiveEntry(entries[k].who)
    BY <1>1 DEF Registration, LiveEntry
  <1>4. \A w : ~LiveEntry(w).dead
    BY DEF LiveEntry
  <1>5. Observed(entries) <=> Lives(entries) # {}
    <2>1. ASSUME Observed(entries) PROVE Lives(entries) # {}
      <3>1. PICK k \in DOMAIN entries : ~entries[k].dead
        BY <2>1 DEF Observed
      <3>2. entries[k].who \in Lives(entries)
        BY <1>2, <1>3, <3>1
      <3>3. QED
        BY <3>2
    <2>2. ASSUME NEW w \in Lives(entries) PROVE Observed(entries)
      <3>1. w \in Who
        BY DEF Lives
      <3>2. PICK k \in DOMAIN entries : entries[k] = LiveEntry(w)
        BY <1>2, <3>1
      <3>3. QED
        BY <1>4, <3>2 DEF Observed
    <2>3. QED
      BY <2>1, <2>2
  <1>6. \A w : w \notin Lives(entries) /\ w \in Who => Single(entries, w)
    BY <1>2 DEF Single, OnlyOnce
  <1>7. QED
    BY <1>2, <1>5, <1>6

\* The same who are live, and the same once.
SameLife(old, new, w) == (w \in Lives(new) <=> w \in Lives(old)) /\ (Single(old, w) => Single(new, w))

\* Subscribe adds one live registration.
LEMMA Joining ==
  ASSUME NEW entries \in Seq(Registration), NEW w \in Who
  PROVE  LET new == Append(entries, LiveEntry(w))
         IN  /\ new \in Seq(Registration) /\ Len(entries) <= Len(new)
             /\ w \in Lives(new) /\ Observed(new)
             /\ w \notin Lives(entries) => Single(new, w)
             /\ \A v \in Who : v # w => SameLife(entries, new, v)
  <1>1. PICK e : e = LiveEntry(w)
    OBVIOUS
  <1>2. e \in Registration /\ \A v \in Who : v # w => LiveEntry(v) # e
    BY <1>1 DEF Registration, LiveEntry
  <1>3. PICK new : new = Append(entries, e)
    OBVIOUS
  <1>4. /\ new \in Seq(Registration) /\ Len(new) = Len(entries) + 1 /\ Len(entries) \in Nat
        /\ new[Len(entries) + 1] = e /\ \A k \in 1..Len(entries) : new[k] = entries[k]
    BY <1>2, <1>3
  <1>5. DOMAIN new = 1..(Len(entries) + 1) /\ DOMAIN entries = 1..Len(entries)
    BY <1>4
  <1>6. /\ \A k \in DOMAIN new : k \in DOMAIN entries \/ k = Len(entries) + 1
        /\ \A k \in DOMAIN entries : k \in DOMAIN new /\ new[k] = entries[k] /\ k # Len(entries) + 1
        /\ Len(entries) + 1 \in DOMAIN new
    BY <1>4, <1>5
  <1>7. w \in Lives(new) /\ Observed(new)
    <2>1. w \in Lives(new)
      BY <1>1, <1>4, <1>6, LivesFacts
    <2>2. QED
      BY <1>4, <2>1, LivesFacts
  <1>8. w \notin Lives(entries) => Single(new, w)
    <2>1. w \notin Lives(entries) => \A k \in DOMAIN entries : entries[k] # e
      BY <1>1, LivesFacts
    <2>2. QED
      BY <1>1, <1>6, <2>1 DEF Single, OnlyOnce
  <1>9. ASSUME NEW v \in Who, v # w PROVE SameLife(entries, new, v)
    <2>1. \A k \in DOMAIN new : new[k] = LiveEntry(v) => k \in DOMAIN entries /\ entries[k] = LiveEntry(v)
      BY <1>2, <1>4, <1>6, <1>9
    <2>2. v \in Lives(new) <=> v \in Lives(entries)
      BY <1>4, <1>6, <2>1, LivesFacts
    <2>3. Single(entries, v) => Single(new, v)
      BY <2>1 DEF Single, OnlyOnce
    <2>4. QED
      BY <2>2, <2>3 DEF SameLife
  <1>10. Len(entries) <= Len(new)
    BY <1>4
  <1>11. QED
    BY <1>1, <1>3, <1>4, <1>7, <1>8, <1>9, <1>10

\* compact changes nothing of who is live.
LEMMA Compacting ==
  ASSUME NEW entries \in Seq(Registration)
  PROVE  /\ Compacted(entries) \in Seq(Registration)
         /\ \A w \in Who : SameLife(entries, Compacted(entries), w)
  <1>1. PICK new : new = LiveOnes(entries)
    OBVIOUS
  <1>2. entries \in Seq(EntryOf(Who))
    BY DEF Registration, EntryOf
  <1>3. /\ new \in Seq(EntryOf(Who))
        /\ ToSet(new) = {e \in ToSet(entries) : ~e.dead}
        /\ \A e : OnlyOnce(entries, e) => OnlyOnce(new, e)
    BY <1>1, <1>2, LiveOnesFacts
  <1>4. new \in Seq(Registration)
    BY <1>3 DEF Registration, EntryOf
  <1>5. ASSUME NEW w \in Who PROVE SameLife(entries, new, w)
    <2>1. w \in Lives(new) <=> w \in Lives(entries)
      BY <1>3 DEF Lives, LiveEntry
    <2>2. Single(entries, w) => Single(new, w)
      BY <1>3 DEF Single
    <2>3. QED
      BY <2>1, <2>2 DEF SameLife
  <1>6. \A w \in Who : SameLife(entries, entries, w)
    BY DEF SameLife
  <1>7. Compacted(entries) = new \/ Compacted(entries) = entries
    BY <1>1 DEF Compacted
  <1>8. QED
    BY <1>4, <1>5, <1>6, <1>7

\* Removed, for marks nt.
RemovedIf(nt, s, entries, w) == IF nt[s] THEN Marked(entries, w) ELSE Compacted(Marked(entries, w))

\* The function Subscribe returned leaves its subscriber no live registration, and moves none
\* while the slice is walked.
LEMMA Leaving ==
  ASSUME NEW nt, NEW s, NEW entries \in Seq(Registration), NEW w \in Who
  PROVE  LET new == RemovedIf(nt, s, entries, w)
         IN  /\ new \in Seq(Registration) /\ (nt[s] => Len(entries) <= Len(new))
             /\ w \notin Lives(new)
             /\ \A v \in Who : v # w => SameLife(entries, new, v)
  <1>1. PICK m : m = Marked(entries, w)
    OBVIOUS
  <1>2. \A k \in DOMAIN entries : entries[k] \in Registration
    OBVIOUS
  <1>3. DOMAIN m = DOMAIN entries /\ DOMAIN entries = 1..Len(entries) /\ Len(entries) \in Nat
    BY <1>1 DEF Marked
  <1>4. \A k \in DOMAIN entries :
          m[k] = IF entries[k].who = w THEN [who |-> w, dead |-> TRUE] ELSE entries[k]
    BY <1>1 DEF Marked
  <1>5. [who |-> w, dead |-> TRUE] \in Registration
    BY DEF Registration
  <1>6. m \in Seq(Registration) /\ Len(m) = Len(entries)
    <2>1. m = [k \in 1..Len(entries) |-> m[k]]
      BY <1>1, <1>3 DEF Marked
    <2>2. \A k \in 1..Len(entries) : m[k] \in Registration
      BY <1>2, <1>3, <1>4, <1>5
    <2>3. m \in Seq(Registration)
      BY <1>3, <2>1, <2>2
    <2>4. QED
      BY <1>3, <2>3
  <1>7. w \notin Lives(m)
    <2>1. \A k \in DOMAIN m : m[k] # LiveEntry(w)
      BY <1>3, <1>4 DEF LiveEntry
    <2>2. QED
      BY <1>6, <2>1, LivesFacts
  <1>8. ASSUME NEW v \in Who, v # w PROVE SameLife(entries, m, v)
    <2>1. \A k \in DOMAIN entries : m[k] = LiveEntry(v) <=> entries[k] = LiveEntry(v)
      <3>1. LiveEntry(v).who = v
        BY DEF LiveEntry
      <3>2. ASSUME NEW k \in DOMAIN entries, entries[k].who = w
            PROVE  m[k] # LiveEntry(v) /\ entries[k] # LiveEntry(v)
        <4>1. m[k].who = w
          BY <1>4, <3>2
        <4>2. QED
          BY <1>8, <3>1, <3>2, <4>1
      <3>3. \A k \in DOMAIN entries : entries[k].who # w => m[k] = entries[k]
        BY <1>4
      <3>4. QED
        BY <3>2, <3>3
    <2>2. v \in Lives(m) <=> v \in Lives(entries)
      BY <1>3, <1>6, <2>1, LivesFacts
    <2>3. Single(entries, v) => Single(m, v)
      BY <1>3, <2>1 DEF Single, OnlyOnce
    <2>4. QED
      BY <2>2, <2>3 DEF SameLife
  <1>9. Len(entries) <= Len(m)
    BY <1>3, <1>6
  <1>10. Compacted(m) \in Seq(Registration) /\ \A v \in Who : SameLife(m, Compacted(m), v)
    BY <1>6, Compacting
  <1>11. w \notin Lives(Compacted(m))
    BY <1>7, <1>10 DEF SameLife
  <1>12. \A v \in Who : v # w => SameLife(entries, Compacted(m), v)
    BY <1>8, <1>10 DEF SameLife
  <1>13. QED
    BY <1>1, <1>6, <1>7, <1>8, <1>9, <1>10, <1>11, <1>12 DEF RemovedIf
-----------------------------------------------------------------------------
(* Subscribe and its undo, as changes of a store *)

\* A dep subscription is a subscriber, of one Computed and dep, and no listener.
LEMMA DepSubFacts ==
  ASSUME NEW c \in Derived, NEW k \in DOMAIN Deps[c]
  PROVE  /\ DepSub(c, k) \in Who /\ DepSub(c, k) \notin Listener
         /\ \A d, j : DepSub(d, j) = DepSub(c, k) => d = c /\ j = k
  BY ComputedAssumption DEF DepSub, Who

\* A store with the slice q for s.
WithSubs(st, s, q) == [st EXCEPT !.subs[s] = q]

\* It has the slice q for s and is the same elsewhere.
LEMMA WithSubsFields ==
  ASSUME NEW st \in Store, NEW s \in Signal, NEW q \in Seq(Registration)
  PROVE  /\ WithSubs(st, s, q) \in Store
         /\ WithSubs(st, s, q).subs[s] = q
         /\ \A t \in Signal : t # s => WithSubs(st, s, q).subs[t] = st.subs[t]
         /\ WithSubs(st, s, q).value = st.value /\ WithSubs(st, s, q).known = st.known
         /\ Memo(st) => Memo(WithSubs(st, s, q))
  <1>1. /\ st.value \in [Signal -> Value] /\ st.subs \in [Signal -> Seq(Registration)]
        /\ st.known \in [Derived -> SUBSET Nat] /\ st.notified \in [Derived -> Value]
    BY StoreFields
  <1>2. PICK sl : sl = [st.subs EXCEPT ![s] = q]
    OBVIOUS
  <1>3. sl \in [Signal -> Seq(Registration)] /\ sl[s] = q /\ \A t \in Signal : t # s => sl[t] = st.subs[t]
    BY <1>1, <1>2
  <1>4. PICK x : x = WithSubs(st, s, q)
    OBVIOUS
  <1>5. x = [st EXCEPT !.subs = sl]
    BY <1>2, <1>4 DEF WithSubs, Store
  <1>6. x = [value |-> st.value, subs |-> sl, known |-> st.known, notified |-> st.notified]
    BY <1>5 DEF Store
  <1>7. x \in Store /\ x.subs = sl /\ x.value = st.value /\ x.known = st.known
    BY <1>1, <1>3, <1>6 DEF Store
  <1>8. Memo(st) => Memo(x)
    BY <1>7 DEF Memo, DepValues
  <1>9. QED
    BY <1>3, <1>4, <1>7, <1>8

\* A store whose observers of s are told what it holds.
Synced(st, s) == [st EXCEPT !.notified[s] = st.value[s]]

\* It is the same but for what they were told.
LEMMA SyncedFields ==
  ASSUME NEW st \in Store, NEW s \in Derived
  PROVE  /\ Synced(st, s) \in Store
         /\ Synced(st, s).subs = st.subs /\ Synced(st, s).value = st.value
         /\ Synced(st, s).known = st.known
         /\ Memo(st) => Memo(Synced(st, s))
  <1>1. /\ st.value \in [Signal -> Value] /\ st.subs \in [Signal -> Seq(Registration)]
        /\ st.known \in [Derived -> SUBSET Nat] /\ st.notified \in [Derived -> Value]
        /\ s \in Signal
    BY StoreFields, DepsFacts
  <1>2. PICK nd : nd = [st.notified EXCEPT ![s] = st.value[s]]
    OBVIOUS
  <1>3. nd \in [Derived -> Value]
    BY <1>1, <1>2
  <1>4. PICK x : x = Synced(st, s)
    OBVIOUS
  <1>5. x = [st EXCEPT !.notified = nd]
    BY <1>2, <1>4 DEF Synced, Store
  <1>6. x = [value |-> st.value, subs |-> st.subs, known |-> st.known, notified |-> nd]
    BY <1>5 DEF Store
  <1>7. x \in Store /\ x.subs = st.subs /\ x.value = st.value /\ x.known = st.known
    BY <1>1, <1>3, <1>6 DEF Store
  <1>8. Memo(st) => Memo(x)
    BY <1>7 DEF Memo, DepValues
  <1>9. QED
    BY <1>4, <1>7, <1>8

\* What (un)subscribing does at each dep of s on behalf of s, with f for the function.
AtDeps(f, s) == [k \in DOMAIN Deps[s] |-> f[Deps[s][k]][DepSub(s, k)]]

\* Subscribing and Unsubscribing, with f for what they are on the deps, nt for notifying.
Ready(f, s, st) ==
  IF s \in Derived /\ ~Observed(st.subs[s])
  THEN Through(AtDeps(f, s), Synced(Refreshed(st, s), s)) ELSE st
SubscribeBody(f, s, who, st) ==
  WithSubs(Ready(f, s, st), s, Append(Ready(f, s, st).subs[s], LiveEntry(who)))
Off(nt, s, who, st) == WithSubs(st, s, RemovedIf(nt, s, st.subs[s], who))
UnsubscribeBody(nt, f, s, who, st) ==
  IF s \in Derived /\ ~Observed(Off(nt, s, who, st).subs[s])
  THEN Through(AtDeps(f, s), Off(nt, s, who, st)) ELSE Off(nt, s, who, st)

\* What a function does with its subscribers' stores at the deps of s.
TypedAtDeps(f, s) ==
  s \in Derived => \A k \in DOMAIN Deps[s] : f[Deps[s][k]] \in [Who -> [Store -> Store]]

\* Going through the deps leads from store to store.
LEMMA AtDepsType ==
  ASSUME NEW c \in Derived, NEW f, TypedAtDeps(f, c), NEW st \in Store
  PROVE  Through(AtDeps(f, c), st) \in Store
  <1>1. PICK g : g = AtDeps(f, c)
    OBVIOUS
  <1>2. DOMAIN g = DOMAIN Deps[c] /\ \A k \in DOMAIN Deps[c] : g[k] = f[Deps[c][k]][DepSub(c, k)]
    BY <1>1 DEF AtDeps
  <1>3. \A k \in DOMAIN Deps[c] : g[k] \in [Store -> Store]
    BY <1>2, DepSubFacts DEF TypedAtDeps
  <1>4. QED
    BY <1>1, <1>2, <1>3, ThroughStores

\* Subscribe leaves a store.
LEMMA SubscribeBodyType ==
  ASSUME NEW s \in Signal, NEW f, TypedAtDeps(f, s), NEW who \in Who, NEW st \in Store
  PROVE  SubscribeBody(f, s, who, st) \in Store /\ Ready(f, s, st) \in Store
  <1>1. PICK x : x = Ready(f, s, st)
    OBVIOUS
  <1>2. x \in Store
    <2>1. CASE s \in Derived /\ ~Observed(st.subs[s])
      <3>1. Refreshed(st, s) \in Store
        BY RefreshingDef DEF Refreshed
      <3>2. Synced(Refreshed(st, s), s) \in Store
        BY <2>1, <3>1, SyncedFields
      <3>3. QED
        BY <1>1, <2>1, <3>2, AtDepsType DEF Ready
    <2>2. CASE ~(s \in Derived /\ ~Observed(st.subs[s]))
      BY <1>1, <2>2 DEF Ready
    <2>3. QED
      BY <2>1, <2>2
  <1>3. x.subs[s] \in Seq(Registration)
    BY <1>2, StoreFields
  <1>4. Append(x.subs[s], LiveEntry(who)) \in Seq(Registration)
    BY <1>3, Joining
  <1>5. QED
    BY <1>1, <1>2, <1>4, WithSubsFields DEF SubscribeBody

\* So does its undo.
LEMMA UnsubscribeBodyType ==
  ASSUME NEW nt, NEW s \in Signal, NEW f, TypedAtDeps(f, s), NEW who \in Who, NEW st \in Store
  PROVE  UnsubscribeBody(nt, f, s, who, st) \in Store /\ Off(nt, s, who, st) \in Store
  <1>1. st.subs[s] \in Seq(Registration)
    BY StoreFields
  <1>2. RemovedIf(nt, s, st.subs[s], who) \in Seq(Registration)
    BY <1>1, Leaving
  <1>3. PICK x : x = Off(nt, s, who, st)
    OBVIOUS
  <1>4. x \in Store
    BY <1>2, <1>3, WithSubsFields DEF Off
  <1>5. s \in Derived => Through(AtDeps(f, s), x) \in Store
    BY <1>4, AtDepsType
  <1>6. QED
    BY <1>3, <1>4, <1>5 DEF UnsubscribeBody

\* Both look at the function at the deps only.
LEMMA BodiesLookAtDeps ==
  ASSUME NEW s \in Signal, NEW f, NEW g, SameOnDeps(f, g, s)
  PROVE  /\ \A who, st : SubscribeBody(f, s, who, st) = SubscribeBody(g, s, who, st)
         /\ \A nt, who, st : UnsubscribeBody(nt, f, s, who, st) = UnsubscribeBody(nt, g, s, who, st)
  <1>1. s \in Derived => AtDeps(f, s) = AtDeps(g, s)
    BY DEF SameOnDeps, AtDeps
  <1>2. \A st : Ready(f, s, st) = Ready(g, s, st)
    BY <1>1 DEF Ready
  <1>3. QED
    BY <1>1, <1>2 DEF SubscribeBody, UnsubscribeBody

\* There is a store, so there are changes of stores.
LEMMA ChangesExist ==
  [Who -> [Store -> Store]] # {}
  <1>1. [who \in Who |-> [st \in Store |-> st]] \in [Who -> [Store -> Store]]
    OBVIOUS
  <1>2. QED
    BY <1>1

\* What the recursive definitions of Subscribing and Unsubscribing define.
IsSubscribing(f) ==
  f = [s \in Signal |-> [who \in Who |-> [st \in Store |-> SubscribeBody(f, s, who, st)]]]
IsUnsubscribing(nt, f) ==
  f = [s \in Signal |-> [who \in Who |-> [st \in Store |-> UnsubscribeBody(nt, f, s, who, st)]]]

\* The recursive function Subscribing exists, and takes stores to stores.
LEMMA SubscribingDef ==
  /\ \A s \in Signal : Subscribing[s] \in [Who -> [Store -> Store]]
  /\ \A s \in Signal, who \in Who, st \in Store :
       Subscribed(st, who, s) = SubscribeBody(Subscribing, s, who, st)
  <1> DEFINE V == [Who -> [Store -> Store]]
             G == [s \in Signal |-> [f \in [Signal -> V] |->
                    [who \in Who |-> [st \in Store |-> SubscribeBody(f, s, who, st)]]]]
  <1>1. ASSUME NEW s \in Signal, NEW f \in [Signal -> V], NEW who \in Who, NEW st \in Store
        PROVE  SubscribeBody(f, s, who, st) \in Store
    <2>1. TypedAtDeps(f, s)
      BY DepsFacts DEF TypedAtDeps
    <2>2. QED
      BY <2>1, SubscribeBodyType
  <1>2. G \in [Signal -> [[Signal -> V] -> V]]
    BY <1>1
  <1>3. \A s \in Signal : \A f, g \in [Signal -> V] : SameOnDeps(f, g, s) => G[s][f] = G[s][g]
    BY BodiesLookAtDeps
  <1>4. \A s \in Signal : \A f \in [Signal -> V] :
          G[s][f] = [who \in Who |-> [st \in Store |-> SubscribeBody(f, s, who, st)]]
    OBVIOUS
  <1>5. V # {}
    BY ChangesExist
  <1> HIDE DEF V
  <1>6. \E f : IsSubscribing(f)
    <2> HIDE DEF G
    <2>1. LooksAtDeps(V, G)
      BY <1>2, <1>3, <1>5 DEF LooksAtDeps
    <2>2. PICK f \in [Signal -> V] : \A s \in Signal : f[s] = G[s][f]
      BY <2>1, DepsRecursion
    <2>3. \A s \in Signal : f[s] = [who \in Who |-> [st \in Store |-> SubscribeBody(f, s, who, st)]]
      BY <1>4, <2>2
    <2>4. QED
      BY <2>2, <2>3 DEF IsSubscribing
  <1>7. PICK f : f = CHOOSE g : IsSubscribing(g)
    OBVIOUS
  <1>8. IsSubscribing(f)
    BY <1>6, <1>7, Zenon
  <1>9. Subscribing = f
    BY <1>7 DEF Subscribing, IsSubscribing, SubscribeBody, Ready, WithSubs, Synced, AtDeps, LiveEntry
  <1>10. \A s \in Signal : f[s] = [who \in Who |-> [st \in Store |-> SubscribeBody(f, s, who, st)]]
    <2>1. PICK h : h = [s \in Signal |-> [who \in Who |-> [st \in Store |-> SubscribeBody(f, s, who, st)]]]
      OBVIOUS
    <2>2. \A s \in Signal : h[s] = [who \in Who |-> [st \in Store |-> SubscribeBody(f, s, who, st)]]
      BY <2>1
    <2>3. QED
      BY <1>8, <2>1, <2>2 DEF IsSubscribing
  <1> DEFINE Good == {s \in Signal : f[s] \in [Who -> [Store -> Store]]}
  <1>11. Good = Signal
    <2>1. ASSUME NEW s \in Signal, s \in Derived => \A k \in DOMAIN Deps[s] : Deps[s][k] \in Good
          PROVE  s \in Good
      <3>1. TypedAtDeps(f, s)
        BY <2>1 DEF TypedAtDeps
      <3>2. \A who \in Who, st \in Store : SubscribeBody(f, s, who, st) \in Store
        BY <3>1, SubscribeBodyType
      <3>3. [who \in Who |-> [st \in Store |-> SubscribeBody(f, s, who, st)]] \in [Who -> [Store -> Store]]
        BY <3>2
      <3>4. f[s] \in [Who -> [Store -> Store]]
        BY <1>10, <3>3
      <3>5. QED
        BY <3>4
    <2> HIDE DEF Good
    <2>2. Good \in SUBSET Signal
      BY DEF Good
    <2>3. QED
      BY <2>1, <2>2, DepsInduction
  <1>12. \A s \in Signal : f[s] \in [Who -> [Store -> Store]]
    BY <1>11
  <1>13. ASSUME NEW s \in Signal, NEW who \in Who, NEW st \in Store
         PROVE  f[s][who][st] = SubscribeBody(f, s, who, st)
    <2>1. PICK h : h = [w \in Who |-> [x \in Store |-> SubscribeBody(f, s, w, x)]]
      OBVIOUS
    <2>2. h[who] = [x \in Store |-> SubscribeBody(f, s, who, x)]
      BY <2>1
    <2>3. f[s] = h
      BY <1>10, <2>1
    <2>4. QED
      BY <2>2, <2>3
  <1>14. QED
    BY <1>9, <1>12, <1>13 DEF Subscribed

\* The recursive function Unsubscribing exists, and takes stores to stores.
LEMMA UnsubscribingDef ==
  /\ \A s \in Signal : Unsubscribing[s] \in [Who -> [Store -> Store]]
  /\ \A s \in Signal, who \in Who, st \in Store :
       Unsubscribed(st, who, s) = UnsubscribeBody(notifying, Unsubscribing, s, who, st)
  <1>0. PICK nt : nt = notifying
    OBVIOUS
  <1> DEFINE V == [Who -> [Store -> Store]]
             G == [s \in Signal |-> [f \in [Signal -> V] |->
                    [who \in Who |-> [st \in Store |-> UnsubscribeBody(nt, f, s, who, st)]]]]
  <1>1. ASSUME NEW s \in Signal, NEW f \in [Signal -> V], NEW who \in Who, NEW st \in Store
        PROVE  UnsubscribeBody(nt, f, s, who, st) \in Store
    <2>1. TypedAtDeps(f, s)
      BY DepsFacts DEF TypedAtDeps
    <2>2. QED
      BY <2>1, UnsubscribeBodyType
  <1>2. G \in [Signal -> [[Signal -> V] -> V]]
    BY <1>1
  <1>3. \A s \in Signal : \A f, g \in [Signal -> V] : SameOnDeps(f, g, s) => G[s][f] = G[s][g]
    BY BodiesLookAtDeps
  <1>4. \A s \in Signal : \A f \in [Signal -> V] :
          G[s][f] = [who \in Who |-> [st \in Store |-> UnsubscribeBody(nt, f, s, who, st)]]
    OBVIOUS
  <1>5. V # {}
    BY ChangesExist
  <1> HIDE DEF V
  <1>6. \E f : IsUnsubscribing(nt, f)
    <2> HIDE DEF G
    <2>1. LooksAtDeps(V, G)
      BY <1>2, <1>3, <1>5 DEF LooksAtDeps
    <2>2. PICK f \in [Signal -> V] : \A s \in Signal : f[s] = G[s][f]
      BY <2>1, DepsRecursion
    <2>3. \A s \in Signal : f[s] = [who \in Who |-> [st \in Store |-> UnsubscribeBody(nt, f, s, who, st)]]
      BY <1>4, <2>2
    <2>4. QED
      BY <2>2, <2>3 DEF IsUnsubscribing
  <1>7. PICK f : f = CHOOSE g : IsUnsubscribing(nt, g)
    OBVIOUS
  <1>8. IsUnsubscribing(nt, f)
    BY <1>6, <1>7, Zenon
  <1>9. Unsubscribing = f
    BY <1>0, <1>7 DEF Unsubscribing, IsUnsubscribing, UnsubscribeBody, Off, WithSubs, RemovedIf, Removed,
          Unobserved, AtDeps
  <1>10. \A s \in Signal : f[s] = [who \in Who |-> [st \in Store |-> UnsubscribeBody(nt, f, s, who, st)]]
    <2>1. PICK h : h = [s \in Signal |-> [who \in Who |-> [st \in Store |-> UnsubscribeBody(nt, f, s, who, st)]]]
      OBVIOUS
    <2>2. \A s \in Signal : h[s] = [who \in Who |-> [st \in Store |-> UnsubscribeBody(nt, f, s, who, st)]]
      BY <2>1
    <2>3. QED
      BY <1>8, <2>1, <2>2 DEF IsUnsubscribing
  <1> DEFINE Good == {s \in Signal : f[s] \in [Who -> [Store -> Store]]}
  <1>11. Good = Signal
    <2>1. ASSUME NEW s \in Signal, s \in Derived => \A k \in DOMAIN Deps[s] : Deps[s][k] \in Good
          PROVE  s \in Good
      <3>1. TypedAtDeps(f, s)
        BY <2>1 DEF TypedAtDeps
      <3>2. \A who \in Who, st \in Store : UnsubscribeBody(nt, f, s, who, st) \in Store
        BY <3>1, UnsubscribeBodyType
      <3>3. [who \in Who |-> [st \in Store |-> UnsubscribeBody(nt, f, s, who, st)]] \in [Who -> [Store -> Store]]
        BY <3>2
      <3>4. f[s] \in [Who -> [Store -> Store]]
        BY <1>10, <3>3
      <3>5. QED
        BY <3>4
    <2> HIDE DEF Good
    <2>2. Good \in SUBSET Signal
      BY DEF Good
    <2>3. QED
      BY <2>1, <2>2, DepsInduction
  <1>12. \A s \in Signal : f[s] \in [Who -> [Store -> Store]]
    BY <1>11
  <1>13. ASSUME NEW s \in Signal, NEW who \in Who, NEW st \in Store
         PROVE  f[s][who][st] = UnsubscribeBody(nt, f, s, who, st)
    <2>1. PICK h : h = [w \in Who |-> [x \in Store |-> UnsubscribeBody(nt, f, s, w, x)]]
      OBVIOUS
    <2>2. h[who] = [x \in Store |-> UnsubscribeBody(nt, f, s, who, x)]
      BY <2>1
    <2>3. f[s] = h
      BY <1>10, <2>1
    <2>4. QED
      BY <2>2, <2>3
  <1>14. QED
    BY <1>0, <1>9, <1>12, <1>13 DEF Unsubscribed
-----------------------------------------------------------------------------
(* What subscribing leaves of the slices *)

\* A number for each signal, greater than those of its deps.
Rank ==
  CHOOSE rank \in [Signal -> 1..Cardinality(Signal)] :
    \A c \in Derived : \A k \in DOMAIN Deps[c] : rank[Deps[c][k]] < rank[c]

\* There is such a number.
LEMMA RankFacts ==
  /\ \A s \in Signal : Rank[s] \in Nat
  /\ \A c \in Derived : \A k \in DOMAIN Deps[c] : Rank[Deps[c][k]] < Rank[c]
  <1>1. Cardinality(Signal) \in Nat
    BY ComputedAssumption, FS_CardinalityType
  <1>2. /\ Rank \in [Signal -> 1..Cardinality(Signal)]
        /\ \A c \in Derived : \A k \in DOMAIN Deps[c] : Rank[Deps[c][k]] < Rank[c]
    BY ComputedAssumption DEF Rank
  <1>3. QED
    BY <1>1, <1>2

Slices == [Signal -> Seq(Registration)]

\* In sl, c is subscribed to each of its deps, once, exactly while it is observed.
Agrees(sl, c) ==
  \A k \in DOMAIN Deps[c] : /\ DepSub(c, k) \in Lives(sl[Deps[c][k]]) <=> Observed(sl[c])
                            /\ Single(sl[Deps[c][k]], DepSub(c, k))

\* w is no subscription of a Computed as early as s; nor of s, or of one earlier.
Foreign(s, w) ==
  \A c \in Derived : \A k \in DOMAIN Deps[c] : w = DepSub(c, k) => Rank[s] < Rank[c]
Outside(s, w) ==
  \A c \in Derived : \A k \in DOMAIN Deps[c] : w = DepSub(c, k) => Rank[s] <= Rank[c] /\ c # s

\* What (un)subscribing who at s makes of sl: signals after s and other subscribers are left
\* alone, and all that are not after s agree.  No slice that is walked gets shorter.
Rewired(nt, s, who, sl, new) ==
  /\ \A t \in Signal : Rank[s] < Rank[t] => new[t] = sl[t]
  /\ \A t \in Signal : nt[t] => Len(sl[t]) <= Len(new[t])
  /\ \A c \in Derived : Rank[c] <= Rank[s] => Agrees(new, c)
  /\ \A t \in Signal, w \in Who :
       Foreign(s, w) /\ (t # s \/ w # who) => SameLife(sl[t], new[t], w)

\* What (un)subscribing s at some of its deps makes of sl.
Between(nt, s, sl, mid) ==
  /\ \A t \in Signal : Rank[s] <= Rank[t] => mid[t] = sl[t]
  /\ \A t \in Signal : nt[t] => Len(sl[t]) <= Len(mid[t])
  /\ \A c \in Derived : Rank[c] < Rank[s] => Agrees(mid, c)
  /\ \A t \in Signal, w \in Who : Outside(s, w) => SameLife(sl[t], mid[t], w)

\* What adding or removing who in the slice of s makes of sl.
AtOnly(nt, s, who, sl, new) ==
  /\ \A t \in Signal : t # s => new[t] = sl[t]
  /\ nt[s] => Len(sl[s]) <= Len(new[s])
  /\ \A w \in Who : w # who => SameLife(sl[s], new[s], w)

\* Being the same is transitive.
LEMMA SameLifeTrans ==
  ASSUME NEW a, NEW b, NEW c, NEW w, SameLife(a, b, w), SameLife(b, c, w)
  PROVE  SameLife(a, c, w)
  BY DEF SameLife

\* Slices in which the subscriptions of c and its observers are the same agree if they did.
LEMMA AgreesSame ==
  ASSUME NEW c \in Derived, NEW sl, NEW new, Agrees(sl, c), Observed(new[c]) <=> Observed(sl[c]),
         \A k \in DOMAIN Deps[c] : SameLife(sl[Deps[c][k]], new[Deps[c][k]], DepSub(c, k))
  PROVE  Agrees(new, c)
  BY DEF Agrees, SameLife

\* A Computed after s agrees if it did, but for the subscriber that came or went.
LEMMA LaterAgrees ==
  ASSUME NEW nt, NEW s \in Signal, NEW who, NEW sl, NEW new, Rewired(nt, s, who, sl, new),
         NEW c \in Derived, Rank[s] < Rank[c], Agrees(sl, c),
         \A k \in DOMAIN Deps[c] : who # DepSub(c, k)
  PROVE  Agrees(new, c)
  <1>1. new[c] = sl[c]
    BY DepsFacts DEF Rewired
  <1>2. ASSUME NEW k \in DOMAIN Deps[c]
        PROVE  SameLife(sl[Deps[c][k]], new[Deps[c][k]], DepSub(c, k))
    <2>1. Foreign(s, DepSub(c, k)) /\ DepSub(c, k) \in Who /\ Deps[c][k] \in Signal
      BY DepSubFacts, DepsFacts DEF Foreign
    <2>2. QED
      BY <2>1 DEF Rewired
  <1>3. QED
    BY <1>1, <1>2, AgreesSame

\* (Un)subscribing s at one more dep.
LEMMA BetweenStep ==
  ASSUME NEW nt, NEW s \in Derived, NEW k \in DOMAIN Deps[s],
         NEW sl \in Slices, NEW mid \in Slices, NEW new \in Slices,
         Between(nt, s, sl, mid), Rewired(nt, Deps[s][k], DepSub(s, k), mid, new)
  PROVE  /\ Between(nt, s, sl, new)
         /\ \A j \in DOMAIN Deps[s] :
              j # k => SameLife(mid[Deps[s][j]], new[Deps[s][j]], DepSub(s, j))
  <1>1. PICK d : d = Deps[s][k]
    OBVIOUS
  <1>2. /\ s \in Signal /\ d \in Signal /\ Rank[d] \in Nat /\ Rank[s] \in Nat /\ Rank[d] < Rank[s]
        /\ \A t \in Signal : Rank[t] \in Nat
    BY <1>1, DepsFacts, RankFacts
  <1>3. Rewired(nt, d, DepSub(s, k), mid, new)
    BY <1>1
  <1>4. \A t \in Signal : Rank[s] <= Rank[t] => new[t] = sl[t]
    BY <1>2, <1>3 DEF Between, Rewired
  <1>5. ASSUME NEW t \in Signal, nt[t] PROVE Len(sl[t]) <= Len(new[t])
    <2>1. Len(sl[t]) \in Nat /\ Len(mid[t]) \in Nat /\ Len(new[t]) \in Nat
      BY DEF Slices
    <2>2. Len(sl[t]) <= Len(mid[t]) /\ Len(mid[t]) <= Len(new[t])
      BY <1>3, <1>5 DEF Between, Rewired
    <2>3. QED
      BY <2>1, <2>2
  <1>6. ASSUME NEW c \in Derived, Rank[c] < Rank[s] PROVE Agrees(new, c)
    <2>1. Agrees(mid, c) /\ c # s /\ c \in Signal
      BY <1>2, <1>6, DepsFacts DEF Between
    <2>2. CASE Rank[c] <= Rank[d]
      BY <1>3, <2>2 DEF Rewired
    <2>3. CASE Rank[d] < Rank[c]
      <3>1. \A j \in DOMAIN Deps[c] : DepSub(s, k) # DepSub(c, j)
        BY <2>1, DepSubFacts
      <3>2. QED
        BY <1>2, <1>3, <2>1, <2>3, <3>1, LaterAgrees
    <2>4. QED
      BY <1>2, <2>1, <2>2, <2>3
  <1>7. ASSUME NEW t \in Signal, NEW w \in Who, Outside(s, w) PROVE SameLife(sl[t], new[t], w)
    <2>1. Foreign(d, w)
      <3>1. ASSUME NEW c \in Derived, NEW j \in DOMAIN Deps[c], w = DepSub(c, j) PROVE Rank[d] < Rank[c]
        <4>1. Rank[s] <= Rank[c] /\ c \in Signal
          BY <1>7, <3>1, DepsFacts DEF Outside
        <4>2. QED
          BY <1>2, <4>1
      <3>2. QED
        BY <3>1 DEF Foreign
    <2>2. w # DepSub(s, k)
      BY <1>7 DEF Outside
    <2>3. SameLife(mid[t], new[t], w)
      BY <1>3, <2>1, <2>2 DEF Rewired
    <2>4. SameLife(sl[t], mid[t], w)
      BY <1>7 DEF Between
    <2>5. QED
      BY <2>3, <2>4, SameLifeTrans
  <1>8. ASSUME NEW j \in DOMAIN Deps[s], j # k
        PROVE  SameLife(mid[Deps[s][j]], new[Deps[s][j]], DepSub(s, j))
    <2>1. Foreign(d, DepSub(s, j))
      BY <1>2, DepSubFacts DEF Foreign
    <2>2. DepSub(s, j) # DepSub(s, k) /\ DepSub(s, j) \in Who /\ Deps[s][j] \in Signal
      BY <1>8, DepSubFacts, DepsFacts
    <2>3. QED
      BY <1>3, <2>1, <2>2 DEF Rewired
  <1>9. QED
    BY <1>4, <1>5, <1>6, <1>7, <1>8 DEF Between

\* Before: all that are not after s agree, and who is no subscription of theirs.
Before(s, who, sl) ==
  /\ Foreign(s, who)
  /\ \A c \in Derived : Rank[c] <= Rank[s] => Agrees(sl, c)

\* Nothing has been done yet.
LEMMA BetweenStart ==
  ASSUME NEW nt, NEW s \in Signal, NEW sl \in Slices,
         \A c \in Derived : Rank[c] < Rank[s] => Agrees(sl, c)
  PROVE  Between(nt, s, sl, sl)
  <1>1. \A t \in Signal : Len(sl[t]) \in Nat /\ Len(sl[t]) <= Len(sl[t])
    BY DEF Slices
  <1>2. QED
    BY <1>1 DEF Between, SameLife

\* What comes or goes at s is nothing to the Computeds before it.
LEMMA EarlierAgrees ==
  ASSUME NEW nt, NEW s \in Signal, NEW who, NEW sl, NEW new, AtOnly(nt, s, who, sl, new),
         NEW c \in Derived, Rank[c] <= Rank[s], c # s, Agrees(sl, c)
  PROVE  Agrees(new, c)
  <1>1. c \in Signal /\ \A k \in DOMAIN Deps[c] : Deps[c][k] \in Signal /\ Rank[Deps[c][k]] < Rank[c]
    BY DepsFacts, RankFacts
  <1>2. \A k \in DOMAIN Deps[c] : Deps[c][k] # s
    BY <1>1, RankFacts
  <1>3. new[c] = sl[c] /\ \A k \in DOMAIN Deps[c] : new[Deps[c][k]] = sl[Deps[c][k]]
    BY <1>1, <1>2 DEF AtOnly
  <1>4. QED
    BY <1>3 DEF Agrees

\* The deps of s, and what happens at the slice of s itself, in either order.
LEMMA BetweenThenAt ==
  ASSUME NEW nt, NEW s \in Signal, NEW who \in Who,
         NEW sl \in Slices, NEW mid \in Slices, NEW new \in Slices, Before(s, who, sl),
         \/ Between(nt, s, sl, mid) /\ AtOnly(nt, s, who, mid, new)
         \/ AtOnly(nt, s, who, sl, mid) /\ Between(nt, s, mid, new),
         s \in Derived => Agrees(new, s)
  PROVE  Rewired(nt, s, who, sl, new)
  <1>1. \A t \in Signal : Rank[t] \in Nat
    BY RankFacts
  <1>2. ASSUME NEW t \in Signal, Rank[s] <= Rank[t], t # s PROVE new[t] = sl[t]
    BY <1>2 DEF Between, AtOnly
  <1>3. ASSUME NEW t \in Signal, nt[t] PROVE Len(sl[t]) <= Len(new[t])
    <2>1. Len(sl[t]) \in Nat /\ Len(mid[t]) \in Nat /\ Len(new[t]) \in Nat
      BY DEF Slices
    <2>2. Len(sl[t]) <= Len(mid[t]) /\ Len(mid[t]) <= Len(new[t])
      <3>1. t # s \/ t = s
        OBVIOUS
      <3>2. QED
        BY <1>3, <2>1, <3>1 DEF Between, AtOnly
    <2>3. QED
      BY <2>1, <2>2
  <1>4. ASSUME NEW t \in Signal, NEW w \in Who, Outside(s, w), t # s \/ w # who
        PROVE  SameLife(sl[t], new[t], w)
    <2>1. \A q : SameLife(q, q, w)
      BY DEF SameLife
    <2>2. SameLife(sl[t], mid[t], w) /\ SameLife(mid[t], new[t], w)
      <3>1. CASE Between(nt, s, sl, mid) /\ AtOnly(nt, s, who, mid, new)
        <4>1. SameLife(sl[t], mid[t], w)
          BY <1>4, <3>1 DEF Between
        <4>2. SameLife(mid[t], new[t], w)
          BY <1>4, <2>1, <3>1 DEF AtOnly
        <4>3. QED
          BY <4>1, <4>2
      <3>2. CASE AtOnly(nt, s, who, sl, mid) /\ Between(nt, s, mid, new)
        <4>1. SameLife(mid[t], new[t], w)
          BY <1>4, <3>2 DEF Between
        <4>2. SameLife(sl[t], mid[t], w)
          BY <1>4, <2>1, <3>2 DEF AtOnly
        <4>3. QED
          BY <4>1, <4>2
      <3>3. QED
        BY <3>1, <3>2
    <2>3. QED
      BY <2>2, SameLifeTrans
  <1>5. ASSUME NEW c \in Derived, Rank[c] <= Rank[s] PROVE Agrees(new, c)
    <2>1. c \in Signal /\ \A k \in DOMAIN Deps[c] : Deps[c][k] \in Signal /\ Rank[Deps[c][k]] < Rank[c]
      BY DepsFacts, RankFacts
    <2>2. \A k \in DOMAIN Deps[c] : Deps[c][k] # s
      BY <1>1, <1>5, <2>1
    <2>3. CASE c = s
      BY <2>3
    <2>4. CASE c # s /\ Rank[c] < Rank[s]
      <3>1. CASE Between(nt, s, mid, new)
        BY <2>4, <3>1 DEF Between
      <3>2. CASE Between(nt, s, sl, mid) /\ AtOnly(nt, s, who, mid, new)
        <4>1. Agrees(mid, c)
          BY <2>4, <3>2 DEF Between
        <4>2. new[c] = mid[c] /\ \A k \in DOMAIN Deps[c] : new[Deps[c][k]] = mid[Deps[c][k]]
          BY <2>1, <2>2, <2>4, <3>2 DEF AtOnly
        <4>3. QED
          BY <4>1, <4>2 DEF Agrees
      <3>3. QED
        BY <3>1, <3>2
    <2>5. CASE c # s /\ Rank[c] = Rank[s]
      <3>1. Agrees(sl, c) /\ new[c] = sl[c]
        BY <1>1, <1>2, <1>5, <2>1, <2>5 DEF Before
      <3>2. ASSUME NEW k \in DOMAIN Deps[c]
            PROVE  SameLife(sl[Deps[c][k]], new[Deps[c][k]], DepSub(c, k))
        <4>1. Outside(s, DepSub(c, k))
          BY <1>1, <2>1, <2>5, DepSubFacts DEF Outside
        <4>2. QED
          BY <1>4, <2>1, <2>2, <4>1, DepSubFacts
      <3>3. QED
        BY <3>1, <3>2, AgreesSame
    <2>6. QED
      BY <1>1, <1>5, <2>1, <2>3, <2>4, <2>5
  <1>6. ASSUME NEW w \in Who, Foreign(s, w) PROVE Outside(s, w)
    <2>1. ASSUME NEW c \in Derived, NEW k \in DOMAIN Deps[c], w = DepSub(c, k)
          PROVE  Rank[s] <= Rank[c] /\ c # s
      <3>1. Rank[s] < Rank[c] /\ c \in Signal
        BY <1>6, <2>1, DepsFacts DEF Foreign
      <3>2. QED
        BY <1>1, <3>1
    <2>2. QED
      BY <2>1 DEF Outside
  <1>7. \A t \in Signal : Rank[s] < Rank[t] => Rank[s] <= Rank[t] /\ t # s
    BY <1>1
  <1>8. QED
    BY <1>2, <1>3, <1>4, <1>5, <1>6, <1>7 DEF Rewired
-----------------------------------------------------------------------------
(* What subscribing does *)

\* What Subscribe does for who at s.
Joins(nt, st, who, s) ==
  LET x == Subscribed(st, who, s)
  IN  /\ x \in Store /\ Memo(x)
      /\ Rewired(nt, s, who, st.subs, x.subs)
      /\ who \in Lives(x.subs[s])
      /\ who \notin Lives(st.subs[s]) => Single(x.subs[s], who)

\* s has subscribed to its first k deps; s has left them.
JoinedUpTo(s, sl, k) ==
  \A j \in DOMAIN Deps[s] : /\ DepSub(s, j) \in Lives(sl[Deps[s][j]]) <=> j <= k
                            /\ Single(sl[Deps[s][j]], DepSub(s, j))
LeftUpTo(s, sl, k) ==
  \A j \in DOMAIN Deps[s] : /\ j <= k => DepSub(s, j) \notin Lives(sl[Deps[s][j]])
                            /\ Single(sl[Deps[s][j]], DepSub(s, j))

\* The stores on the way.
JoinRow(nt, s, sl, k) ==
  {x \in Store : Memo(x) /\ Between(nt, s, sl, x.subs) /\ JoinedUpTo(s, x.subs, k)}
LeaveRow(nt, s, sl, k) ==
  {x \in Store : Memo(x) /\ Between(nt, s, sl, x.subs) /\ LeftUpTo(s, x.subs, k)}

\* On the way, the next dep is before s, and the subscription is not one of the dep's.
LEMMA RowBefore ==
  ASSUME NEW nt, NEW s \in Derived, NEW k \in DOMAIN Deps[s], NEW sl, NEW mid, Between(nt, s, sl, mid)
  PROVE  Before(Deps[s][k], DepSub(s, k), mid)
  <1>1. /\ s \in Signal /\ Deps[s][k] \in Signal /\ Rank[Deps[s][k]] \in Nat /\ Rank[s] \in Nat
        /\ Rank[Deps[s][k]] < Rank[s]
    BY DepsFacts, RankFacts
  <1>2. Foreign(Deps[s][k], DepSub(s, k))
    BY <1>1, DepSubFacts DEF Foreign
  <1>3. ASSUME NEW c \in Derived, Rank[c] <= Rank[Deps[s][k]] PROVE Agrees(mid, c)
    <2>1. Rank[c] \in Nat
      BY DepsFacts, RankFacts
    <2>2. Rank[c] < Rank[s]
      BY <1>1, <1>3, <2>1
    <2>3. QED
      BY <2>2 DEF Between
  <1>4. QED
    BY <1>2, <1>3 DEF Before

\* Subscribing s at one more dep.
LEMMA JoinStep ==
  ASSUME NEW nt, NEW s \in Derived, NEW k \in DOMAIN Deps[s], NEW sl \in Slices,
         NEW x \in JoinRow(nt, s, sl, k - 1), Joins(nt, x, DepSub(s, k), Deps[s][k])
  PROVE  Subscribed(x, DepSub(s, k), Deps[s][k]) \in JoinRow(nt, s, sl, k)
  <1>1. PICK y : y = Subscribed(x, DepSub(s, k), Deps[s][k])
    OBVIOUS
  <1>2. /\ y \in Store /\ Memo(y) /\ Rewired(nt, Deps[s][k], DepSub(s, k), x.subs, y.subs)
        /\ DepSub(s, k) \in Lives(y.subs[Deps[s][k]])
        /\ DepSub(s, k) \notin Lives(x.subs[Deps[s][k]]) => Single(y.subs[Deps[s][k]], DepSub(s, k))
    BY <1>1 DEF Joins
  <1>3. x \in Store /\ Between(nt, s, sl, x.subs) /\ JoinedUpTo(s, x.subs, k - 1)
    BY DEF JoinRow
  <1>4. x.subs \in Slices /\ y.subs \in Slices
    BY <1>2, <1>3, StoreFields DEF Slices
  <1>5. /\ Between(nt, s, sl, y.subs)
        /\ \A j \in DOMAIN Deps[s] :
             j # k => SameLife(x.subs[Deps[s][j]], y.subs[Deps[s][j]], DepSub(s, j))
    BY <1>2, <1>3, <1>4, BetweenStep
  <1>6. k \in Nat /\ \A j \in DOMAIN Deps[s] : j \in Nat
    BY DepsFacts
  <1>7. ASSUME NEW j \in DOMAIN Deps[s]
        PROVE  /\ DepSub(s, j) \in Lives(y.subs[Deps[s][j]]) <=> j <= k
               /\ Single(y.subs[Deps[s][j]], DepSub(s, j))
    <2>1. /\ DepSub(s, j) \in Lives(x.subs[Deps[s][j]]) <=> j <= k - 1
          /\ Single(x.subs[Deps[s][j]], DepSub(s, j))
      BY <1>3 DEF JoinedUpTo
    <2>2. CASE j = k
      <3>1. ~(k <= k - 1) /\ k <= k
        BY <1>6
      <3>2. QED
        BY <1>2, <2>1, <2>2, <3>1
    <2>3. CASE j # k
      <3>1. j <= k - 1 <=> j <= k
        BY <1>6, <2>3
      <3>2. QED
        BY <1>5, <2>1, <2>3, <3>1 DEF SameLife
    <2>4. QED
      BY <2>2, <2>3
  <1>8. JoinedUpTo(s, y.subs, k)
    BY <1>7 DEF JoinedUpTo
  <1>9. QED
    BY <1>1, <1>2, <1>5, <1>8 DEF JoinRow

\* A Computed that nobody observes, evaluated and subscribed to its deps.
LEMMA Activating ==
  ASSUME NEW nt, NEW s \in Derived, NEW st \in Store, Memo(st), ~Observed(st.subs[s]),
         \A c \in Derived : Rank[c] <= Rank[s] => Agrees(st.subs, c),
         \A k \in DOMAIN Deps[s] : \A x \in Store :
           Memo(x) /\ Before(Deps[s][k], DepSub(s, k), x.subs) => Joins(nt, x, DepSub(s, k), Deps[s][k])
  PROVE  Ready(Subscribing, s, st) \in JoinRow(nt, s, st.subs, Len(Deps[s]))
  <1>1. s \in Signal /\ Rank[s] \in Nat /\ Len(Deps[s]) \in Nat
        /\ \A c \in Derived : Rank[c] \in Nat
    BY DepsFacts, RankFacts
  <1>2. PICK x : x = Synced(Refreshed(st, s), s)
    OBVIOUS
  <1>3. x \in Store /\ Memo(x) /\ x.subs = st.subs
    <2>1. PICK y : y = Refreshed(st, s)
      OBVIOUS
    <2>2. Settled(st, {})
      BY DEF Settled
    <2>3. Refreshes(st, y)
      BY <1>1, <2>1, <2>2, RefreshFacts DEF RefreshSettles
    <2>4. QED
      BY <1>2, <2>1, <2>3, SyncedFields DEF Refreshes
  <1>4. PICK sl : sl = st.subs
    OBVIOUS
  <1>5. sl \in Slices /\ ~Observed(sl[s]) /\ \A c \in Derived : Rank[c] <= Rank[s] => Agrees(sl, c)
    BY <1>4, StoreFields DEF Slices
  <1>6. PICK g : g = AtDeps(Subscribing, s)
    OBVIOUS
  <1>7. /\ DOMAIN g = DOMAIN Deps[s] /\ DOMAIN Deps[s] = 1..Len(Deps[s])
        /\ Len(g) = Len(Deps[s])
        /\ \A k \in DOMAIN Deps[s] : g[k] = Subscribing[Deps[s][k]][DepSub(s, k)]
    <2>1. DOMAIN g = DOMAIN Deps[s] /\ \A k \in DOMAIN Deps[s] : g[k] = Subscribing[Deps[s][k]][DepSub(s, k)]
      BY <1>6 DEF AtDeps
    <2>2. QED
      BY <2>1, DepChanges, DepsFacts
  <1>8. PICK R : R = [k \in 0..Len(g) |-> JoinRow(nt, s, sl, k)]
    OBVIOUS
  <1>9. x \in JoinRow(nt, s, sl, 0)
    <2>1. Between(nt, s, sl, sl)
      BY <1>1, <1>5, BetweenStart
    <2>2. Agrees(sl, s)
      BY <1>1, <1>5
    <2>3. \A j \in DOMAIN Deps[s] : ~(j <= 0)
      BY <1>1, <1>7
    <2>4. JoinedUpTo(s, sl, 0)
      BY <1>5, <2>2, <2>3 DEF JoinedUpTo, Agrees
    <2>5. QED
      BY <1>3, <1>4, <2>1, <2>4 DEF JoinRow
  <1>10. ASSUME NEW k \in 1..Len(g), NEW y \in JoinRow(nt, s, sl, k - 1)
         PROVE  g[k][y] \in JoinRow(nt, s, sl, k)
    <2>1. k \in DOMAIN Deps[s]
      BY <1>7
    <2>2. y \in Store /\ Memo(y) /\ Between(nt, s, sl, y.subs)
      BY DEF JoinRow
    <2>3. Before(Deps[s][k], DepSub(s, k), y.subs)
      BY <2>1, <2>2, RowBefore
    <2>4. Joins(nt, y, DepSub(s, k), Deps[s][k])
      BY <2>1, <2>2, <2>3
    <2>5. g[k][y] = Subscribed(y, DepSub(s, k), Deps[s][k])
      BY <1>7, <2>1 DEF Subscribed
    <2>6. QED
      BY <1>5, <2>1, <2>4, <2>5, JoinStep
  <1>11. x \in R[0] /\ R[Len(g)] = JoinRow(nt, s, sl, Len(g))
    BY <1>1, <1>7, <1>8, <1>9
  <1>12. \A k \in 1..Len(g) : \A y \in R[k - 1] : g[k][y] \in R[k]
    <2> SUFFICES ASSUME NEW k \in 1..Len(g), NEW y \in R[k - 1] PROVE g[k][y] \in R[k]
      OBVIOUS
    <2>1. k - 1 \in 0..Len(g) /\ k \in 0..Len(g)
      BY <1>1, <1>7
    <2>2. R[k - 1] = JoinRow(nt, s, sl, k - 1) /\ R[k] = JoinRow(nt, s, sl, k)
      BY <1>8, <2>1
    <2>3. QED
      BY <1>10, <2>2
  <1>13. Len(g) \in Nat
    BY <1>1, <1>7
  <1>14. Through(g, x) \in R[Len(g)]
    BY <1>11, <1>12, <1>13, ThroughRow
  <1>15. Ready(Subscribing, s, st) = Through(g, x)
    BY <1>2, <1>6 DEF Ready
  <1>16. QED
    BY <1>4, <1>7, <1>11, <1>14, <1>15

\* Adding who to the slice of s.
LEMMA JoinAt ==
  ASSUME NEW nt, NEW s \in Signal, NEW who \in Who, NEW st \in Store
  PROVE  LET x == WithSubs(st, s, Append(st.subs[s], LiveEntry(who)))
         IN  /\ x \in Store /\ (Memo(st) => Memo(x))
             /\ AtOnly(nt, s, who, st.subs, x.subs)
             /\ who \in Lives(x.subs[s]) /\ Observed(x.subs[s])
             /\ who \notin Lives(st.subs[s]) => Single(x.subs[s], who)
  <1>1. PICK q : q = Append(st.subs[s], LiveEntry(who))
    OBVIOUS
  <1>2. PICK x : x = WithSubs(st, s, q)
    OBVIOUS
  <1>3. st.subs[s] \in Seq(Registration)
    BY StoreFields
  <1>4. /\ q \in Seq(Registration) /\ Len(st.subs[s]) <= Len(q)
        /\ who \in Lives(q) /\ Observed(q)
        /\ who \notin Lives(st.subs[s]) => Single(q, who)
        /\ \A v \in Who : v # who => SameLife(st.subs[s], q, v)
    BY <1>1, <1>3, Joining
  <1>5. /\ x \in Store /\ x.subs[s] = q /\ \A t \in Signal : t # s => x.subs[t] = st.subs[t]
        /\ Memo(st) => Memo(x)
    BY <1>2, <1>4, WithSubsFields
  <1>6. AtOnly(nt, s, who, st.subs, x.subs)
    BY <1>4, <1>5 DEF AtOnly
  <1>7. QED
    BY <1>1, <1>2, <1>4, <1>5, <1>6

\* By induction along the deps.
LEMMA SubscribeJoins ==
  ASSUME NEW nt, NEW s \in Signal, NEW st \in Store, Memo(st), NEW who \in Who,
         Before(s, who, st.subs)
  PROVE  Joins(nt, st, who, s)
  <1> DEFINE Good == {t \in Signal : \A x \in Store : \A w \in Who :
                        Memo(x) /\ Before(t, w, x.subs) => Joins(nt, x, w, t)}
  <1>1. ASSUME NEW t \in Signal, t \in Derived => \A k \in DOMAIN Deps[t] : Deps[t][k] \in Good
        PROVE  t \in Good
    <2> SUFFICES ASSUME NEW x \in Store, NEW w \in Who, Memo(x), Before(t, w, x.subs)
                 PROVE  Joins(nt, x, w, t)
      OBVIOUS
    <2>1. PICK mid : mid = Ready(Subscribing, t, x)
      OBVIOUS
    <2>2. PICK new : new = Subscribed(x, w, t)
      OBVIOUS
    <2>3. new = WithSubs(mid, t, Append(mid.subs[t], LiveEntry(w)))
      BY <2>1, <2>2, SubscribingDef DEF SubscribeBody
    <2>4. t \in Derived => Agrees(x.subs, t)
      BY RankFacts DEF Before
    <2>5. x.subs \in Slices
      BY StoreFields DEF Slices
    <2>6. \A c \in Derived : Rank[c] <= Rank[t] => Agrees(x.subs, c)
      BY DEF Before
    <2>7. CASE t \in Derived /\ ~Observed(x.subs[t])
      <3>1. \A k \in DOMAIN Deps[t] : \A y \in Store :
              Memo(y) /\ Before(Deps[t][k], DepSub(t, k), y.subs) => Joins(nt, y, DepSub(t, k), Deps[t][k])
        BY <1>1, <2>7, DepSubFacts
      <3>2. mid \in JoinRow(nt, t, x.subs, Len(Deps[t]))
        BY <2>1, <2>6, <2>7, <3>1, Activating
      <3>3. /\ mid \in Store /\ Memo(mid) /\ Between(nt, t, x.subs, mid.subs)
            /\ JoinedUpTo(t, mid.subs, Len(Deps[t]))
        BY <3>2 DEF JoinRow
      <3>4. /\ new \in Store /\ Memo(new) /\ AtOnly(nt, t, w, mid.subs, new.subs)
            /\ w \in Lives(new.subs[t]) /\ Observed(new.subs[t])
            /\ w \notin Lives(mid.subs[t]) => Single(new.subs[t], w)
        BY <2>3, <3>3, JoinAt
      <3>5. mid.subs \in Slices /\ new.subs \in Slices
        BY <3>3, <3>4, StoreFields DEF Slices
      <3>6. Agrees(new.subs, t)
        <4>1. \A k \in DOMAIN Deps[t] : k <= Len(Deps[t]) /\ Deps[t][k] \in Signal /\ Deps[t][k] # t
          BY <2>7, DepsFacts
        <4>2. \A k \in DOMAIN Deps[t] : new.subs[Deps[t][k]] = mid.subs[Deps[t][k]]
          BY <3>4, <4>1 DEF AtOnly
        <4>3. QED
          BY <3>3, <3>4, <4>1, <4>2 DEF JoinedUpTo, Agrees
      <3>7. Rewired(nt, t, w, x.subs, new.subs)
        BY <2>5, <3>3, <3>4, <3>5, <3>6, BetweenThenAt
      <3>8. mid.subs[t] = x.subs[t]
        <4>1. Rank[t] <= Rank[t]
          BY RankFacts
        <4>2. QED
          BY <3>3, <4>1 DEF Between
      <3>9. QED
        BY <2>2, <3>4, <3>7, <3>8 DEF Joins
    <2>8. CASE ~(t \in Derived /\ ~Observed(x.subs[t]))
      <3>1. mid = x
        BY <2>1, <2>8 DEF Ready
      <3>2. /\ new \in Store /\ Memo(new) /\ AtOnly(nt, t, w, x.subs, new.subs)
            /\ w \in Lives(new.subs[t]) /\ Observed(new.subs[t])
            /\ w \notin Lives(x.subs[t]) => Single(new.subs[t], w)
        BY <2>3, <3>1, JoinAt
      <3>3. new.subs \in Slices
        BY <3>2, StoreFields DEF Slices
      <3>4. Between(nt, t, x.subs, x.subs)
        <4>1. \A c \in Derived : Rank[c] < Rank[t] => Agrees(x.subs, c)
          BY <2>6, RankFacts, DepsFacts
        <4>2. QED
          BY <2>5, <4>1, BetweenStart
      <3>5. t \in Derived => Agrees(new.subs, t)
        <4>1. SUFFICES ASSUME t \in Derived PROVE Agrees(new.subs, t)
          OBVIOUS
        <4>2. \A k \in DOMAIN Deps[t] : Deps[t][k] \in Signal /\ Deps[t][k] # t
          BY <4>1, DepsFacts
        <4>3. \A k \in DOMAIN Deps[t] : new.subs[Deps[t][k]] = x.subs[Deps[t][k]]
          BY <3>2, <4>2 DEF AtOnly
        <4>4. Observed(x.subs[t]) /\ Observed(new.subs[t])
          BY <2>8, <3>2, <4>1
        <4>5. QED
          BY <2>4, <4>1, <4>3, <4>4 DEF Agrees
      <3>6. Rewired(nt, t, w, x.subs, new.subs)
        BY <2>5, <3>2, <3>3, <3>4, <3>5, BetweenThenAt
      <3>7. QED
        BY <2>2, <3>2, <3>6 DEF Joins
    <2>9. QED
      BY <2>7, <2>8
  <1>2. Good \in SUBSET Signal
    OBVIOUS
  <1>3. Good = Signal
    <2> HIDE DEF Good
    <2>1. QED
      BY <1>1, <1>2, DepsInduction
  <1>4. QED
    BY <1>3
-----------------------------------------------------------------------------
(* What unsubscribing does *)

\* f is what Unsubscribing is, with nt for notifying.
Undoes(nt, f) ==
  \A s \in Signal : \A who \in Who : \A st \in Store :
    f[s][who][st] = UnsubscribeBody(nt, f, s, who, st)

\* What the undo of Subscribe does for who at s, with x for the store it leaves.
Leaves(nt, st, who, s, x) ==
  /\ x \in Store /\ Memo(x)
  /\ Rewired(nt, s, who, st.subs, x.subs)
  /\ who \notin Lives(x.subs[s])

\* Taking who out of the slice of s.
LEMMA LeaveAt ==
  ASSUME NEW nt, NEW s \in Signal, NEW who \in Who, NEW st \in Store
  PROVE  LET x == Off(nt, s, who, st)
         IN  /\ x \in Store /\ (Memo(st) => Memo(x))
             /\ AtOnly(nt, s, who, st.subs, x.subs)
             /\ who \notin Lives(x.subs[s])
             /\ Observed(x.subs[s]) => Observed(st.subs[s])
  <1>1. PICK q : q = RemovedIf(nt, s, st.subs[s], who)
    OBVIOUS
  <1>2. PICK x : x = Off(nt, s, who, st)
    OBVIOUS
  <1>3. st.subs[s] \in Seq(Registration)
    BY StoreFields
  <1>4. /\ q \in Seq(Registration) /\ (nt[s] => Len(st.subs[s]) <= Len(q))
        /\ who \notin Lives(q)
        /\ \A v \in Who : v # who => SameLife(st.subs[s], q, v)
    BY <1>1, <1>3, Leaving
  <1>5. /\ x \in Store /\ x.subs[s] = q /\ \A t \in Signal : t # s => x.subs[t] = st.subs[t]
        /\ Memo(st) => Memo(x)
    BY <1>1, <1>2, <1>4, WithSubsFields DEF Off
  <1>6. AtOnly(nt, s, who, st.subs, x.subs)
    BY <1>4, <1>5 DEF AtOnly
  <1>7. Observed(q) => Observed(st.subs[s])
    <2>1. ASSUME Observed(q) PROVE Observed(st.subs[s])
      <3>1. PICK v : v \in Lives(q)
        BY <1>4, <2>1, LivesFacts
      <3>2. v \in Who /\ v # who
        BY <1>4, <3>1 DEF Lives
      <3>3. v \in Lives(st.subs[s])
        BY <1>4, <3>1, <3>2 DEF SameLife
      <3>4. QED
        BY <1>3, <3>3, LivesFacts
    <2>2. QED
      BY <2>1
  <1>8. QED
    BY <1>2, <1>4, <1>5, <1>6, <1>7

\* One more dep left.
LEMMA LeaveStep ==
  ASSUME NEW nt, NEW s \in Derived, NEW k \in DOMAIN Deps[s], NEW sl \in Slices,
         NEW x \in LeaveRow(nt, s, sl, k - 1), NEW y, Leaves(nt, x, DepSub(s, k), Deps[s][k], y)
  PROVE  y \in LeaveRow(nt, s, sl, k)
  <1>1. /\ y \in Store /\ Memo(y) /\ Rewired(nt, Deps[s][k], DepSub(s, k), x.subs, y.subs)
        /\ DepSub(s, k) \notin Lives(y.subs[Deps[s][k]])
    BY DEF Leaves
  <1>2. x \in Store /\ Between(nt, s, sl, x.subs) /\ LeftUpTo(s, x.subs, k - 1)
    BY DEF LeaveRow
  <1>3. x.subs \in Slices /\ y.subs \in Slices
    BY <1>1, <1>2, StoreFields DEF Slices
  <1>4. /\ Between(nt, s, sl, y.subs)
        /\ \A j \in DOMAIN Deps[s] :
             j # k => SameLife(x.subs[Deps[s][j]], y.subs[Deps[s][j]], DepSub(s, j))
    BY <1>1, <1>2, <1>3, BetweenStep
  <1>5. k \in Nat /\ \A j \in DOMAIN Deps[s] : j \in Nat
    BY DepsFacts
  <1>6. Single(y.subs[Deps[s][k]], DepSub(s, k))
    <2>1. y.subs[Deps[s][k]] \in Seq(Registration) /\ DepSub(s, k) \in Who
      BY <1>1, DepsFacts, DepSubFacts, StoreFields
    <2>2. QED
      BY <1>1, <2>1, LivesFacts
  <1>7. ASSUME NEW j \in DOMAIN Deps[s]
        PROVE  /\ j <= k => DepSub(s, j) \notin Lives(y.subs[Deps[s][j]])
               /\ Single(y.subs[Deps[s][j]], DepSub(s, j))
    <2>1. /\ j <= k - 1 => DepSub(s, j) \notin Lives(x.subs[Deps[s][j]])
          /\ Single(x.subs[Deps[s][j]], DepSub(s, j))
      BY <1>2 DEF LeftUpTo
    <2>2. CASE j = k
      BY <1>1, <1>6, <2>2
    <2>3. CASE j # k
      <3>1. j <= k => j <= k - 1
        BY <1>5, <2>3
      <3>2. QED
        BY <1>4, <2>1, <2>3, <3>1 DEF SameLife
    <2>4. QED
      BY <2>2, <2>3
  <1>8. LeftUpTo(s, y.subs, k)
    BY <1>7 DEF LeftUpTo
  <1>9. QED
    BY <1>1, <1>4, <1>8 DEF LeaveRow

\* A Computed whose last observer has left leaves its deps.
LEMMA Deactivating ==
  ASSUME NEW nt, NEW f, NEW s \in Derived, NEW st \in Store, Memo(st),
         \A c \in Derived : Rank[c] < Rank[s] => Agrees(st.subs, c),
         \A j \in DOMAIN Deps[s] : Single(st.subs[Deps[s][j]], DepSub(s, j)),
         \A k \in DOMAIN Deps[s] : \A x \in Store :
           Memo(x) /\ Before(Deps[s][k], DepSub(s, k), x.subs)
             => Leaves(nt, x, DepSub(s, k), Deps[s][k], f[Deps[s][k]][DepSub(s, k)][x])
  PROVE  Through(AtDeps(f, s), st) \in LeaveRow(nt, s, st.subs, Len(Deps[s]))
  <1>1. s \in Signal /\ Len(Deps[s]) \in Nat /\ \A j \in DOMAIN Deps[s] : j \in Nat
    BY DepsFacts
  <1>2. PICK sl : sl = st.subs
    OBVIOUS
  <1>3. /\ sl \in Slices
        /\ \A c \in Derived : Rank[c] < Rank[s] => Agrees(sl, c)
        /\ \A j \in DOMAIN Deps[s] : Single(sl[Deps[s][j]], DepSub(s, j))
    BY <1>2, StoreFields DEF Slices
  <1>4. PICK g : g = AtDeps(f, s)
    OBVIOUS
  <1>5. /\ DOMAIN g = DOMAIN Deps[s] /\ DOMAIN Deps[s] = 1..Len(Deps[s])
        /\ Len(g) = Len(Deps[s])
        /\ \A k \in DOMAIN Deps[s] : g[k] = f[Deps[s][k]][DepSub(s, k)]
    <2>1. DOMAIN g = DOMAIN Deps[s] /\ \A k \in DOMAIN Deps[s] : g[k] = f[Deps[s][k]][DepSub(s, k)]
      BY <1>4 DEF AtDeps
    <2>2. QED
      BY <2>1, DepChanges, DepsFacts
  <1>6. PICK R : R = [k \in 0..Len(g) |-> LeaveRow(nt, s, sl, k)]
    OBVIOUS
  <1>7. st \in LeaveRow(nt, s, sl, 0)
    <2>1. Between(nt, s, sl, sl)
      BY <1>1, <1>3, BetweenStart
    <2>2. \A j \in DOMAIN Deps[s] : ~(j <= 0)
      BY <1>1, <1>5
    <2>3. LeftUpTo(s, sl, 0)
      BY <1>3, <2>2 DEF LeftUpTo
    <2>4. QED
      BY <1>2, <2>1, <2>3 DEF LeaveRow
  <1>8. ASSUME NEW k \in 1..Len(g), NEW y \in LeaveRow(nt, s, sl, k - 1)
        PROVE  g[k][y] \in LeaveRow(nt, s, sl, k)
    <2>1. k \in DOMAIN Deps[s]
      BY <1>5
    <2>2. y \in Store /\ Memo(y) /\ Between(nt, s, sl, y.subs)
      BY DEF LeaveRow
    <2>3. Before(Deps[s][k], DepSub(s, k), y.subs)
      BY <2>1, <2>2, RowBefore
    <2>4. Leaves(nt, y, DepSub(s, k), Deps[s][k], g[k][y])
      BY <1>5, <2>1, <2>2, <2>3
    <2>5. QED
      BY <1>3, <2>1, <2>4, LeaveStep
  <1>9. st \in R[0] /\ R[Len(g)] = LeaveRow(nt, s, sl, Len(g))
    BY <1>1, <1>5, <1>6, <1>7
  <1>10. \A k \in 1..Len(g) : \A y \in R[k - 1] : g[k][y] \in R[k]
    <2> SUFFICES ASSUME NEW k \in 1..Len(g), NEW y \in R[k - 1] PROVE g[k][y] \in R[k]
      OBVIOUS
    <2>1. k - 1 \in 0..Len(g) /\ k \in 0..Len(g)
      BY <1>1, <1>5
    <2>2. R[k - 1] = LeaveRow(nt, s, sl, k - 1) /\ R[k] = LeaveRow(nt, s, sl, k)
      BY <1>6, <2>1
    <2>3. QED
      BY <1>8, <2>2
  <1>11. Len(g) \in Nat
    BY <1>1, <1>5
  <1>12. Through(g, st) \in R[Len(g)]
    BY <1>9, <1>10, <1>11, ThroughRow
  <1>13. QED
    BY <1>2, <1>4, <1>5, <1>9, <1>12

\* By induction along the deps.
LEMMA UndoLeaves ==
  ASSUME NEW nt, NEW f, Undoes(nt, f), NEW s \in Signal, NEW st \in Store, Memo(st), NEW who \in Who,
         Before(s, who, st.subs)
  PROVE  Leaves(nt, st, who, s, f[s][who][st])
  <1> DEFINE Good == {t \in Signal : \A x \in Store : \A w \in Who :
                        Memo(x) /\ Before(t, w, x.subs) => Leaves(nt, x, w, t, f[t][w][x])}
  <1>1. ASSUME NEW t \in Signal, t \in Derived => \A k \in DOMAIN Deps[t] : Deps[t][k] \in Good
        PROVE  t \in Good
    <2> SUFFICES ASSUME NEW x \in Store, NEW w \in Who, Memo(x), Before(t, w, x.subs)
                 PROVE  Leaves(nt, x, w, t, f[t][w][x])
      OBVIOUS
    <2>1. PICK off : off = Off(nt, t, w, x)
      OBVIOUS
    <2>2. PICK new : new = f[t][w][x]
      OBVIOUS
    <2>3. new = IF t \in Derived /\ ~Observed(off.subs[t]) THEN Through(AtDeps(f, t), off) ELSE off
      BY <2>1, <2>2 DEF Undoes, UnsubscribeBody
    <2>4. /\ off \in Store /\ Memo(off) /\ AtOnly(nt, t, w, x.subs, off.subs)
          /\ w \notin Lives(off.subs[t])
          /\ Observed(off.subs[t]) => Observed(x.subs[t])
      BY <2>1, LeaveAt
    <2>5. x.subs \in Slices /\ off.subs \in Slices
      BY <2>4, StoreFields DEF Slices
    <2>6. \A c \in Derived : Rank[c] <= Rank[t] => Agrees(x.subs, c)
      BY DEF Before
    <2>7. \A c \in Derived : Rank[c] < Rank[t] => Agrees(off.subs, c)
      <3> SUFFICES ASSUME NEW c \in Derived, Rank[c] < Rank[t] PROVE Agrees(off.subs, c)
        OBVIOUS
      <3>1. Rank[c] <= Rank[t] /\ c # t
        BY RankFacts, DepsFacts
      <3>2. Agrees(x.subs, c)
        BY <2>6, <3>1
      <3>3. QED
        BY <2>4, <3>1, <3>2, EarlierAgrees
    <2>8. ASSUME t \in Derived
          PROVE  /\ Agrees(x.subs, t)
                 /\ \A k \in DOMAIN Deps[t] : Deps[t][k] \in Signal /\ Deps[t][k] # t
                                              /\ off.subs[Deps[t][k]] = x.subs[Deps[t][k]]
      <3>1. \A k \in DOMAIN Deps[t] : Deps[t][k] \in Signal /\ Deps[t][k] # t
        BY <2>8, DepsFacts
      <3>2. Rank[t] <= Rank[t]
        BY RankFacts
      <3>3. QED
        BY <2>4, <2>6, <2>8, <3>1, <3>2 DEF AtOnly
    <2>9. CASE t \in Derived /\ ~Observed(off.subs[t])
      <3>1. \A k \in DOMAIN Deps[t] : \A y \in Store :
              Memo(y) /\ Before(Deps[t][k], DepSub(t, k), y.subs)
                => Leaves(nt, y, DepSub(t, k), Deps[t][k], f[Deps[t][k]][DepSub(t, k)][y])
        BY <1>1, <2>9, DepSubFacts
      <3>2. \A k \in DOMAIN Deps[t] : Single(off.subs[Deps[t][k]], DepSub(t, k))
        BY <2>8, <2>9 DEF Agrees
      <3>3. new \in LeaveRow(nt, t, off.subs, Len(Deps[t]))
        BY <2>3, <2>4, <2>7, <2>9, <3>1, <3>2, Deactivating
      <3>4. /\ new \in Store /\ Memo(new) /\ Between(nt, t, off.subs, new.subs)
            /\ LeftUpTo(t, new.subs, Len(Deps[t]))
        BY <3>3 DEF LeaveRow
      <3>5. new.subs \in Slices
        BY <3>4, StoreFields DEF Slices
      <3>6. new.subs[t] = off.subs[t]
        <4>1. Rank[t] <= Rank[t]
          BY RankFacts
        <4>2. QED
          BY <3>4, <4>1 DEF Between
      <3>7. Agrees(new.subs, t)
        <4>1. \A k \in DOMAIN Deps[t] : k <= Len(Deps[t])
          BY <2>9, DepsFacts
        <4>2. QED
          BY <2>9, <3>4, <3>6, <4>1 DEF LeftUpTo, Agrees
      <3>8. Rewired(nt, t, w, x.subs, new.subs)
        BY <2>4, <2>5, <3>4, <3>5, <3>7, BetweenThenAt
      <3>9. QED
        BY <2>2, <2>4, <3>4, <3>6, <3>8 DEF Leaves
    <2>10. CASE ~(t \in Derived /\ ~Observed(off.subs[t]))
      <3>1. new = off
        BY <2>3, <2>10
      <3>2. Between(nt, t, off.subs, off.subs)
        BY <2>5, <2>7, BetweenStart
      <3>3. t \in Derived => Agrees(off.subs, t)
        BY <2>4, <2>8, <2>10 DEF Agrees
      <3>4. Rewired(nt, t, w, x.subs, off.subs)
        BY <2>4, <2>5, <3>2, <3>3, BetweenThenAt
      <3>5. QED
        BY <2>2, <2>4, <3>1, <3>4 DEF Leaves
    <2>11. QED
      BY <2>9, <2>10
  <1>2. Good \in SUBSET Signal
    OBVIOUS
  <1>3. Good = Signal
    <2> HIDE DEF Good
    <2>1. QED
      BY <1>1, <1>2, DepsInduction
  <1>4. QED
    BY <1>3

\* The undo of Subscribe is such a function.
LEMMA UnsubscribeLeaves ==
  ASSUME NEW nt, nt = notifying, NEW s \in Signal, NEW st \in Store, Memo(st), NEW who \in Who,
         Before(s, who, st.subs)
  PROVE  Leaves(nt, st, who, s, Unsubscribed(st, who, s))
  <1>1. PICK f : f = Unsubscribing
    OBVIOUS
  <1>2. \A t \in Signal : \A w \in Who : \A x \in Store :
          f[t][w][x] = UnsubscribeBody(nt, f, t, w, x)
    BY <1>1, UnsubscribingDef DEF Unsubscribed
  <1>3. Undoes(nt, f)
    BY <1>2 DEF Undoes
  <1>4. Leaves(nt, st, who, s, f[s][who][st])
    BY <1>3, UndoLeaves
  <1>5. QED
    BY <1>1, <1>4 DEF Unsubscribed
-----------------------------------------------------------------------------
(* Calls *)

\* The calls of the stack.
NotifyCall == [op : {"notify"}, sig : Signal, pass : Nat, i : Nat \ {0}, n : Nat, todo : SUBSET Who]
Call ==
  [op : {"batch", "recover"}]
    \union [op : {"call"}, who : Who]
    \union [op : {"drain"}, rest : Seq(Signal), rethrow : BOOLEAN]
    \union NotifyCall

\* A signal that is notified is marked, once, and its slice is as long as it was.
CallsFit(st, marked, slices) ==
  /\ \A k \in DOMAIN st : st[k].op = "notify" =>
       /\ st[k].sig \in Signal /\ marked[st[k].sig]
       /\ st[k].n \in Nat /\ st[k].n <= Len(slices[st[k].sig])
  /\ \A j, k \in DOMAIN st :
       st[j].op = "notify" /\ st[k].op = "notify" /\ st[j].sig = st[k].sig => j = k

\* What holds between any two steps of the calls.
CallsInv ==
  /\ stack \in Seq(Call)
  /\ notifying \in [Signal -> BOOLEAN]
  /\ batchQueue \in Seq(Signal)
  /\ panicking \in BOOLEAN
  /\ CallsFit(stack, notifying, subs)

\* The fields of calls.
LEMMA CallFields ==
  ASSUME NEW f \in Call
  PROVE  /\ f.op = "notify" => /\ f \in NotifyCall
                               /\ f.sig \in Signal /\ f.pass \in Nat /\ f.i \in Nat \ {0} /\ f.n \in Nat
         /\ f.op = "call" => f.who \in Who
         /\ f.op = "drain" => f.rest \in Seq(Signal) /\ f.rethrow \in BOOLEAN
  BY DEF Call, NotifyCall

\* The calls below that are made, but for notify, are calls.
LEMMA OtherCalls ==
  /\ [op |-> "batch"] \in Call /\ [op |-> "batch"].op = "batch"
  /\ [op |-> "recover"] \in Call /\ [op |-> "recover"].op = "recover"
  /\ \A w \in Who : [op |-> "call", who |-> w] \in Call /\ [op |-> "call", who |-> w].op = "call"
  /\ \A rest \in Seq(Signal), b \in BOOLEAN :
       /\ [op |-> "drain", rest |-> rest, rethrow |-> b] \in Call
       /\ [op |-> "drain", rest |-> rest, rethrow |-> b].op = "drain"
  BY DEF Call

\* A pass that moves on is the same pass.
LEMMA SteppedCall ==
  ASSUME NEW f \in Call, f.op = "notify", NEW x
  PROVE  /\ Stepped(f, x) \in Call /\ Stepped(f, x).op = "notify"
         /\ Stepped(f, x).sig = f.sig /\ Stepped(f, x).n = f.n
  <1>1. f \in NotifyCall
    BY CallFields
  <1>2. f.i + 1 \in Nat \ {0} /\ f.todo \ {x} \in SUBSET Who
    BY <1>1 DEF NotifyCall
  <1>3. Stepped(f, x) \in NotifyCall
    BY <1>1, <1>2 DEF Stepped, NotifyCall
  <1>4. QED
    BY <1>1, <1>3 DEF Stepped, Call, NotifyCall

\* A drain that takes another queue is still a drain.
LEMMA HoldingCall ==
  ASSUME NEW f \in Call, f.op = "drain", NEW rest \in Seq(Signal)
  PROVE  Holding(f, rest) \in Call /\ Holding(f, rest).op = "drain"
  <1>1. f \in [op : {"drain"}, rest : Seq(Signal), rethrow : BOOLEAN]
    BY DEF Call, NotifyCall
  <1>2. Holding(f, rest) \in [op : {"drain"}, rest : Seq(Signal), rethrow : BOOLEAN]
    BY <1>1 DEF Holding
  <1>3. QED
    BY <1>1, <1>2 DEF Holding, Call

\* The calls of a stack fit if the innermost fits and those below do.
LEMMA CallsPushed ==
  ASSUME NEW f \in Call, NEW q \in Seq(Call), NEW m, NEW sl
  PROVE  CallsFit(Push(f, q), m, sl) <=>
           /\ CallsFit(q, m, sl)
           /\ f.op = "notify" => m[f.sig] /\ f.n <= Len(sl[f.sig]) /\ ~Notified(q, f.sig)
  <1>1. Places(f, q)
    BY PushedPlaces
  <1>2. f.op = "notify" => f.sig \in Signal /\ f.n \in Nat
    BY CallFields
  <1>3. ASSUME CallsFit(Push(f, q), m, sl)
        PROVE  /\ CallsFit(q, m, sl)
               /\ f.op = "notify" => m[f.sig] /\ f.n <= Len(sl[f.sig])
    BY <1>1, <1>3 DEF CallsFit, Places
  <1>4. ASSUME CallsFit(Push(f, q), m, sl), f.op = "notify" PROVE ~Notified(q, f.sig)
    <2> SUFFICES ASSUME NEW k \in DOMAIN q, q[k].op = "notify", q[k].sig = f.sig PROVE FALSE
      BY DEF Notified, IsNotify
    <2>1. /\ 1 \in DOMAIN Push(f, q) /\ k + 1 \in DOMAIN Push(f, q) /\ k \in Nat /\ k # 0
          /\ Push(f, q)[1] = f /\ Push(f, q)[k + 1] = q[k]
      BY <1>1 DEF Places
    <2>2. 1 = k + 1
      BY <1>4, <2>1 DEF CallsFit
    <2>3. QED
      BY <2>1, <2>2
  <1>5. ASSUME CallsFit(q, m, sl),
               f.op = "notify" => m[f.sig] /\ f.n <= Len(sl[f.sig]) /\ ~Notified(q, f.sig)
        PROVE  CallsFit(Push(f, q), m, sl)
    <2>1. ASSUME NEW k \in DOMAIN Push(f, q), Push(f, q)[k].op = "notify"
          PROVE  /\ Push(f, q)[k].sig \in Signal /\ m[Push(f, q)[k].sig]
                 /\ Push(f, q)[k].n \in Nat /\ Push(f, q)[k].n <= Len(sl[Push(f, q)[k].sig])
      BY <1>1, <1>2, <1>5, <2>1 DEF CallsFit, Places
    <2>2. ASSUME NEW j \in DOMAIN Push(f, q), NEW k \in DOMAIN Push(f, q),
                 Push(f, q)[j].op = "notify", Push(f, q)[k].op = "notify",
                 Push(f, q)[j].sig = Push(f, q)[k].sig
          PROVE  j = k
      <3>1. j = 1 \/ \E i \in DOMAIN q : j = i + 1 /\ Push(f, q)[j] = q[i]
        BY <1>1 DEF Places
      <3>2. k = 1 \/ \E i \in DOMAIN q : k = i + 1 /\ Push(f, q)[k] = q[i]
        BY <1>1 DEF Places
      <3>3. Push(f, q)[1] = f
        BY <1>1 DEF Places
      <3>4. CASE j = 1 /\ k = 1
        BY <3>4
      <3>5. CASE j = 1 /\ k # 1
        BY <1>5, <2>2, <3>2, <3>3, <3>5 DEF Notified, IsNotify
      <3>6. CASE j # 1 /\ k = 1
        BY <1>5, <2>2, <3>1, <3>3, <3>6 DEF Notified, IsNotify
      <3>7. CASE j # 1 /\ k # 1
        <4>1. PICK a \in DOMAIN q : j = a + 1 /\ Push(f, q)[j] = q[a]
          BY <3>1, <3>7
        <4>2. PICK b \in DOMAIN q : k = b + 1 /\ Push(f, q)[k] = q[b]
          BY <3>2, <3>7
        <4>3. a = b
          BY <1>5, <2>2, <4>1, <4>2 DEF CallsFit
        <4>4. QED
          BY <4>1, <4>2, <4>3
      <3>8. QED
        BY <3>4, <3>5, <3>6, <3>7
    <2>3. QED
      BY <2>1, <2>2 DEF CallsFit
  <1>6. QED
    BY <1>3, <1>4, <1>5

\* Calls fit slices that are as long wherever a pass walks, or elsewhere than at s, if none is of s.
LEMMA CallsKept ==
  ASSUME NEW q \in Seq(Call), NEW m, NEW sl \in Slices, NEW n, NEW new \in Slices, CallsFit(q, m, sl),
         \A t \in Signal : Notified(q, t) /\ m[t] => n[t] /\ Len(sl[t]) <= Len(new[t])
  PROVE  CallsFit(q, n, new)
  <1>1. ASSUME NEW k \in DOMAIN q, q[k].op = "notify"
        PROVE  /\ q[k].sig \in Signal /\ n[q[k].sig]
               /\ q[k].n \in Nat /\ q[k].n <= Len(new[q[k].sig])
    <2>1. PICK t, a : t = q[k].sig /\ a = q[k].n
      OBVIOUS
    <2>2. t \in Signal /\ m[t] /\ a \in Nat /\ a <= Len(sl[t])
      BY <1>1, <2>1 DEF CallsFit
    <2>3. Notified(q, t)
      BY <1>1, <2>1 DEF Notified, IsNotify
    <2>4. n[t] /\ Len(sl[t]) <= Len(new[t]) /\ Len(sl[t]) \in Nat /\ Len(new[t]) \in Nat
      BY <2>2, <2>3 DEF Slices
    <2>5. QED
      BY <2>1, <2>2, <2>4
  <1>2. QED
    BY <1>1 DEF CallsFit

\* No pass of an unmarked signal is on the stack.
LEMMA UnmarkedCalls ==
  ASSUME NEW q, NEW m, NEW sl, CallsFit(q, m, sl), NEW s, ~m[s]
  PROVE  ~Notified(q, s)
  BY DEF CallsFit, Notified, IsNotify

\* The innermost call is a call on top of calls that fit.
LEMMA TopCall ==
  ASSUME CallsInv, Top.op # "loop"
  PROVE  /\ Top \in Call /\ Below \in Seq(Call)
         /\ CallsFit(Below, notifying, subs)
         /\ Top.op = "notify" => /\ notifying[Top.sig] /\ Top.n <= Len(subs[Top.sig])
                                 /\ ~Notified(Below, Top.sig)
  <1>1. stack # <<>> /\ Top = Head(stack)
    BY DEF Top
  <1>2. stack \in Seq(Call) /\ CallsFit(stack, notifying, subs)
    BY DEF CallsInv
  <1>3. Top \in Call /\ Below \in Seq(Call) /\ stack = Push(Top, Below)
    BY <1>1, <1>2, Popped DEF Below
  <1>4. PICK f, q, m, sl : f = Top /\ q = Below /\ m = notifying /\ sl = subs
    OBVIOUS
  <1>5. CallsFit(Push(f, q), m, sl) /\ f \in Call /\ q \in Seq(Call)
    BY <1>2, <1>3, <1>4
  <1>6. /\ CallsFit(q, m, sl)
        /\ f.op = "notify" => m[f.sig] /\ f.n <= Len(sl[f.sig]) /\ ~Notified(q, f.sig)
    BY <1>5, CallsPushed
  <1>7. QED
    BY <1>3, <1>4, <1>6
-----------------------------------------------------------------------------
(* The inductive invariant *)

\* Every Computed is subscribed to its deps, once, exactly while it is observed.
SubsInv == \A c \in Derived : Agrees(subs, c)

DerivedInv == CacheInv /\ SubsInv /\ CallsInv

\* The fields of the state, while its store is a store.
LEMMA NowFields ==
  ASSUME CacheInv
  PROVE  /\ value \in [Signal -> Value] /\ subs \in Slices
         /\ known \in [Derived -> SUBSET Nat] /\ notified \in [Derived -> Value]
         /\ Now.value = value /\ Now.subs = subs /\ Now.known = known /\ Now.notified = notified
  <1>1. Now.value = value /\ Now.subs = subs /\ Now.known = known /\ Now.notified = notified
    BY DEF Now
  <1>2. Now \in Store
    BY DEF CacheInv
  <1>3. PICK st : st = Now
    OBVIOUS
  <1>4. /\ st.value \in [Signal -> Value] /\ st.subs \in [Signal -> Seq(Registration)]
        /\ st.known \in [Derived -> SUBSET Nat] /\ st.notified \in [Derived -> Value]
    BY <1>2, <1>3, StoreFields
  <1>5. QED
    BY <1>1, <1>3, <1>4 DEF Slices

\* The state becomes a store with memos.
LEMMA BecomesCache ==
  ASSUME NEW x \in Store, Memo(x),
         value' = x.value, subs' = x.subs, known' = x.known, notified' = x.notified
  PROVE  CacheInv'
  <1>1. x = [value |-> x.value, subs |-> x.subs, known |-> x.known, notified |-> x.notified]
    BY DEF Store
  <1>2. Now' = x
    BY <1>1 DEF Now
  <1>3. QED
    BY <1>2 DEF CacheInv

\* Nothing that the caches and the subscriptions look at changes.
LEMMA Quiet ==
  ASSUME CacheInv, SubsInv, UNCHANGED <<value, subs, known, notified>>
  PROVE  CacheInv' /\ SubsInv'
  <1>1. Now' = Now
    BY DEF Now
  <1>2. CacheInv'
    BY <1>1 DEF CacheInv
  <1>3. PICK sl : sl = subs
    OBVIOUS
  <1>4. \A c \in Derived : Agrees(sl, c)
    BY <1>3 DEF SubsInv
  <1>5. subs' = sl
    BY <1>3
  <1>6. QED
    BY <1>2, <1>4, <1>5 DEF SubsInv

\* The end of a notification compacts a slice: nobody comes or goes.
LEMMA Compacts ==
  ASSUME CacheInv, SubsInv, NEW s \in Signal, subs' = [subs EXCEPT ![s] = Compacted(@)],
         UNCHANGED <<value, known, notified>>
  PROVE  /\ CacheInv' /\ SubsInv' /\ subs' \in Slices
         /\ \A t \in Signal : t # s => subs'[t] = subs[t]
  <1>1. PICK st : st = Now
    OBVIOUS
  <1>2. /\ st \in Store /\ Memo(st) /\ st.value = value /\ st.subs = subs /\ st.known = known
        /\ st.notified = notified /\ subs \in Slices
    BY <1>1, NowFields DEF CacheInv
  <1>3. PICK q : q = Compacted(st.subs[s])
    OBVIOUS
  <1>4. st.subs[s] \in Seq(Registration)
    BY <1>2 DEF Slices
  <1>5. q \in Seq(Registration) /\ \A w \in Who : SameLife(st.subs[s], q, w)
    BY <1>3, <1>4, Compacting
  <1>6. PICK sl : sl = [st.subs EXCEPT ![s] = q]
    OBVIOUS
  <1>7. sl \in Slices /\ sl[s] = q /\ \A t \in Signal : t # s => sl[t] = st.subs[t]
    BY <1>2, <1>5, <1>6 DEF Slices
  <1>8. subs' = sl
    BY <1>2, <1>3, <1>6
  <1>9. PICK x : x = [value |-> st.value, subs |-> sl, known |-> st.known, notified |-> st.notified]
    OBVIOUS
  <1>10. /\ x \in Store /\ x.value = st.value /\ x.subs = sl /\ x.known = st.known
         /\ x.notified = st.notified
    BY <1>2, <1>7, <1>9 DEF Store, Slices
  <1>11. Memo(x)
    BY <1>2, <1>10 DEF Memo, DepValues
  <1>12. CacheInv'
    BY <1>2, <1>8, <1>10, <1>11, BecomesCache
  <1>13. ASSUME NEW c \in Derived PROVE Agrees(sl, c)
    <2>1. Agrees(st.subs, c) /\ c \in Signal
      BY <1>2, DepsFacts DEF SubsInv
    <2>2. \A t \in Signal, w \in Who : SameLife(st.subs[t], sl[t], w)
      BY <1>5, <1>7 DEF SameLife
    <2>3. \A w \in Who : w \in Lives(sl[c]) <=> w \in Lives(st.subs[c])
      BY <2>1, <2>2 DEF SameLife
    <2>4. Lives(sl[c]) = Lives(st.subs[c])
      BY <2>3 DEF Lives
    <2>5. Observed(sl[c]) <=> Observed(st.subs[c])
      BY <1>2, <1>7, <2>1, <2>4, LivesFacts DEF Slices
    <2>6. \A k \in DOMAIN Deps[c] : SameLife(st.subs[Deps[c][k]], sl[Deps[c][k]], DepSub(c, k))
      BY <2>2, DepsFacts, DepSubFacts
    <2>7. QED
      BY <2>1, <2>5, <2>6, AgreesSame
  <1>14. SubsInv'
    BY <1>8, <1>13 DEF SubsInv
  <1>15. QED
    BY <1>2, <1>7, <1>8, <1>12, <1>14
-----------------------------------------------------------------------------
(* Calls that notify *)

\* A pass over a slice is a call.
LEMMA NewCall ==
  ASSUME CacheInv, NEW s \in Signal, NEW pass \in Nat
  PROVE  /\ NotifyFrame(s, pass) \in Call
         /\ NotifyFrame(s, pass).op = "notify" /\ NotifyFrame(s, pass).sig = s
         /\ NotifyFrame(s, pass).n = Len(subs[s])
  <1>1. subs[s] \in Seq(Registration)
    BY NowFields DEF Slices
  <1>2. \A entry \in ToSet(subs[s]) : entry.who \in Who
    <2>1. PICK q : q = subs[s]
      OBVIOUS
    <2>2. \A k \in DOMAIN q : q[k] \in Registration
      BY <1>1, <2>1
    <2>3. QED
      BY <2>1, <2>2 DEF ToSet, Registration
  <1>3. LiveOf(s) \in SUBSET Who /\ Len(subs[s]) \in Nat
    BY <1>1, <1>2 DEF LiveOf
  <1>4. NotifyFrame(s, pass) \in NotifyCall
    BY <1>3 DEF NotifyFrame, NotifyCall
  <1>5. NotifyFrame(s, pass) \in Call
    BY <1>4 DEF Call
  <1>6. QED
    BY <1>5 DEF NotifyFrame

\* notify marks the signal of the pass it starts.
LEMMA NotifyCalls ==
  ASSUME CacheInv, CallsInv, NEW s \in Signal, NEW below \in Seq(Call),
         CallsFit(below, notifying, subs), Notify(s, below), subs' = subs
  PROVE  /\ stack' \in Seq(Call) /\ notifying' \in [Signal -> BOOLEAN]
         /\ CallsFit(stack', notifying', subs')
  <1>1. notifying \in [Signal -> BOOLEAN] /\ subs \in Slices
    BY NowFields DEF CallsInv
  <1>2. PICK m, sl : m = notifying /\ sl = subs
    OBVIOUS
  <1>3. CallsFit(below, m, sl) /\ m \in [Signal -> BOOLEAN] /\ sl \in Slices
    BY <1>1, <1>2
  <1>4. CASE notifying[s] /\ stack' = below /\ notifying' = notifying
    BY <1>1, <1>4
  <1>5. CASE /\ ~notifying[s]
             /\ notifying' = [notifying EXCEPT ![s] = TRUE]
             /\ stack' = <<NotifyFrame(s, 0)>> \o below
    <2>1. PICK f : f = NotifyFrame(s, 0)
      OBVIOUS
    <2>2. f \in Call /\ f.op = "notify" /\ f.sig = s /\ f.n = Len(sl[s])
      BY <1>2, <2>1, NewCall
    <2>3. PICK n : n = [m EXCEPT ![s] = TRUE]
      OBVIOUS
    <2>4. n[s] /\ n \in [Signal -> BOOLEAN] /\ \A t \in Signal : t # s => n[t] = m[t]
      BY <1>3, <2>3
    <2>5. ~Notified(below, s)
      BY <1>2, <1>3, <1>5, UnmarkedCalls
    <2>6. \A t \in Signal : Len(sl[t]) <= Len(sl[t])
      BY <1>3 DEF Slices
    <2>7. \A t \in Signal : Notified(below, t) /\ m[t] => n[t] /\ Len(sl[t]) <= Len(sl[t])
      BY <2>4, <2>6
    <2>8. CallsFit(below, n, sl)
      BY <1>3, <2>7, CallsKept
    <2>9. CallsFit(Push(f, below), n, sl) /\ Push(f, below) \in Seq(Call)
      <3>1. n[f.sig] /\ f.n <= Len(sl[f.sig]) /\ ~Notified(below, f.sig)
        BY <2>2, <2>4, <2>5, <2>6
      <3>2. CallsFit(Push(f, below), n, sl)
        BY <2>2, <2>8, <3>1, CallsPushed
      <3>3. Push(f, below) \in Seq(Call)
        BY <2>2, Pushed
      <3>4. QED
        BY <3>2, <3>3
    <2>10. stack' = Push(f, below) /\ notifying' = n /\ subs' = sl
      BY <1>2, <1>5, <2>1, <2>3 DEF Push
    <2>11. QED
      BY <2>4, <2>9, <2>10
  <1>6. QED
    BY <1>4, <1>5 DEF Notify

\* publish notifies, or queues the signal.
LEMMA PublishCalls ==
  ASSUME CacheInv, CallsInv, NEW s \in Signal, NEW below \in Seq(Call),
         CallsFit(below, notifying, subs), Publish(s, below), subs' = subs, panicking' = panicking
  PROVE  CallsInv'
  <1>1. CASE Deferring /\ stack' = below /\ notifying' = notifying
             /\ (batchQueue' = batchQueue \/ batchQueue' = Append(batchQueue, s))
    <2>1. batchQueue' \in Seq(Signal) /\ panicking' \in BOOLEAN
      <3>1. batchQueue \in Seq(Signal) /\ panicking \in BOOLEAN
        BY DEF CallsInv
      <3>2. Append(batchQueue, s) \in Seq(Signal)
        BY <3>1
      <3>3. QED
        BY <1>1, <3>1, <3>2
    <2>2. stack' \in Seq(Call) /\ notifying' \in [Signal -> BOOLEAN]
      BY <1>1 DEF CallsInv
    <2>3. CallsFit(stack', notifying', subs')
      BY <1>1
    <2>4. QED
      BY <2>1, <2>2, <2>3 DEF CallsInv
  <1>2. CASE Notify(s, below) /\ batchQueue' = batchQueue
    <2>1. /\ stack' \in Seq(Call) /\ notifying' \in [Signal -> BOOLEAN]
          /\ CallsFit(stack', notifying', subs')
      BY <1>2, NotifyCalls
    <2>2. QED
      BY <1>2, <2>1 DEF CallsInv
  <1>3. QED
    BY <1>1, <1>2, PublishStep

\* The end of a notification unmarks the signal, whose slice may get shorter.
LEMMA EndNotifyCalls ==
  ASSUME CacheInv, SubsInv, CallsInv, Top.op = "notify", EndNotify(Top.sig), stack' = Below,
         UNCHANGED <<value, known, notified, batchQueue, panicking>>
  PROVE  DerivedInv'
  <1>1. /\ Top \in Call /\ Below \in Seq(Call) /\ CallsFit(Below, notifying, subs)
        /\ ~Notified(Below, Top.sig)
    BY TopCall
  <1>2. PICK s : s = Top.sig
    OBVIOUS
  <1>3. s \in Signal
    BY <1>1, <1>2, CallFields
  <1>4. subs' = [subs EXCEPT ![s] = Compacted(@)] /\ notifying' = [notifying EXCEPT ![s] = FALSE]
    BY <1>2 DEF EndNotify
  <1>5. /\ CacheInv' /\ SubsInv' /\ subs' \in Slices
        /\ \A t \in Signal : t # s => subs'[t] = subs[t]
    BY <1>3, <1>4, Compacts
  <1>6. PICK q, m, n, sl, new : /\ q = Below /\ m = notifying /\ n = notifying' /\ sl = subs
                                /\ new = subs'
    OBVIOUS
  <1>7. /\ q \in Seq(Call) /\ CallsFit(q, m, sl) /\ ~Notified(q, s)
        /\ sl \in Slices /\ new \in Slices /\ m \in [Signal -> BOOLEAN] /\ n = [m EXCEPT ![s] = FALSE]
        /\ \A t \in Signal : t # s => new[t] = sl[t]
    BY <1>1, <1>2, <1>4, <1>5, <1>6, NowFields DEF CallsInv
  <1>8. ASSUME NEW t \in Signal, Notified(q, t), m[t] PROVE n[t] /\ Len(sl[t]) <= Len(new[t])
    <2>1. t # s
      BY <1>7, <1>8
    <2>2. n[t] = m[t] /\ new[t] = sl[t] /\ Len(sl[t]) \in Nat
      BY <1>7, <2>1 DEF Slices
    <2>3. QED
      BY <1>8, <2>2
  <1>9. CallsFit(q, n, new)
    BY <1>7, <1>8, CallsKept
  <1>10. n \in [Signal -> BOOLEAN]
    BY <1>7
  <1>11. CallsInv'
    BY <1>6, <1>7, <1>9, <1>10 DEF CallsInv
  <1>12. QED
    BY <1>5, <1>11 DEF DerivedInv
-----------------------------------------------------------------------------
(* Steps *)

\* A write makes every memo of its signal stale.
LEMMA SetKeeps ==
  ASSUME DerivedInv, NEW s \in Source, NEW v \in Value, SetSource(s, v)
  PROVE  DerivedInv'
  <1>0. CacheInv /\ SubsInv /\ CallsInv
    BY DEF DerivedInv
  <1>1. /\ value' = [value EXCEPT ![s] = v] /\ known' = Bumped(known, s)
        /\ subs' = subs /\ notified' = notified
        /\ Publish(s, stack) /\ panicking' = panicking
    BY DEF SetSource, Set
  <1>2. s \in Signal /\ s \notin Derived
    BY DEF Source
  <1>3. PICK st : st = Now
    OBVIOUS
  <1>4. /\ st \in Store /\ Memo(st) /\ st.value = value /\ st.subs = subs /\ st.known = known
        /\ st.notified = notified
    BY <1>0, <1>3, NowFields DEF CacheInv
  <1>5. /\ st.value \in [Signal -> Value] /\ st.subs \in [Signal -> Seq(Registration)]
        /\ st.known \in [Derived -> SUBSET Nat] /\ st.notified \in [Derived -> Value]
    BY <1>4, StoreFields
  <1>6. PICK vl, kn : vl = [st.value EXCEPT ![s] = v] /\ kn = Bumped(st.known, s)
    OBVIOUS
  <1>7. /\ vl \in [Signal -> Value] /\ \A t \in Signal : t # s => vl[t] = st.value[t]
        /\ kn \in [Derived -> SUBSET Nat]
        /\ \A c \in Derived : kn[c] = {k \in st.known[c] : Deps[c][k] # s}
    BY <1>5, <1>6 DEF Bumped
  <1>8. PICK x : x = [value |-> vl, subs |-> st.subs, known |-> kn, notified |-> st.notified]
    OBVIOUS
  <1>9. /\ x \in Store /\ x.value = vl /\ x.subs = st.subs /\ x.known = kn
        /\ x.notified = st.notified
    BY <1>5, <1>7, <1>8 DEF Store
  <1>10. ASSUME NEW c \in Derived
         PROVE  /\ x.known[c] \subseteq DOMAIN Deps[c]
                /\ x.known[c] = DOMAIN Deps[c] => x.value[c] = Compute(c, DepValues(x, c))
    <2>1. st.known[c] \subseteq DOMAIN Deps[c] /\ x.known[c] \subseteq st.known[c]
      BY <1>4, <1>7, <1>9 DEF Memo
    <2>2. ASSUME x.known[c] = DOMAIN Deps[c] PROVE x.value[c] = Compute(c, DepValues(x, c))
      <3>1. st.known[c] = DOMAIN Deps[c] /\ \A k \in DOMAIN Deps[c] : Deps[c][k] # s
        BY <1>7, <1>9, <2>1, <2>2
      <3>2. \A k \in DOMAIN Deps[c] : x.value[Deps[c][k]] = st.value[Deps[c][k]]
        BY <1>7, <1>9, <3>1, DepsFacts
      <3>3. DepValues(x, c) = DepValues(st, c)
        BY <3>2 DEF DepValues
      <3>4. x.value[c] = st.value[c]
        BY <1>2, <1>7, <1>9, DepsFacts
      <3>5. st.value[c] = Compute(c, DepValues(st, c))
        BY <1>4, <3>1 DEF Memo
      <3>6. QED
        BY <3>3, <3>4, <3>5
    <2>3. QED
      BY <2>1, <2>2
  <1>11. Memo(x)
    BY <1>10 DEF Memo
  <1>12. value' = x.value /\ subs' = x.subs /\ known' = x.known /\ notified' = x.notified
    BY <1>1, <1>4, <1>6, <1>9
  <1>13. CacheInv'
    BY <1>9, <1>11, <1>12, BecomesCache
  <1>14. SubsInv'
    <2>1. \A c \in Derived : Agrees(st.subs, c)
      BY <1>0, <1>4 DEF SubsInv
    <2>2. subs' = st.subs
      BY <1>1, <1>4
    <2>3. QED
      BY <2>1, <2>2 DEF SubsInv
  <1>15. CallsInv'
    <2>1. stack \in Seq(Call) /\ CallsFit(stack, notifying, subs)
      BY <1>0 DEF CallsInv
    <2>2. QED
      BY <1>0, <1>1, <1>2, <2>1, PublishCalls
  <1>16. QED
    BY <1>13, <1>14, <1>15 DEF DerivedInv

\* A listener is a subscriber, and no subscription of a Computed.
LEMMA ListenerFacts ==
  ASSUME NEW x \in Listener
  PROVE  /\ x \in Who /\ \A s \in Signal : Foreign(s, x)
         /\ \A c \in Derived : \A k \in DOMAIN Deps[c] : x # DepSub(c, k)
  <1>1. x \in Who
    BY DEF Who
  <1>2. \A c \in Derived : \A k \in DOMAIN Deps[c] : x # DepSub(c, k)
    BY DepSubFacts
  <1>3. QED
    BY <1>1, <1>2 DEF Foreign

\* A listener that comes or goes rewires the slices: all Computeds agree again.
LEMMA RewiredKeeps ==
  ASSUME DerivedInv, NEW s \in Signal, NEW x \in Listener, NEW nt, nt = notifying,
         NEW y \in Store, Memo(y), Rewired(nt, s, x, subs, y.subs),
         value' = y.value, subs' = y.subs, known' = y.known, notified' = y.notified,
         UNCHANGED <<stack, notifying, batchQueue, panicking>>
  PROVE  DerivedInv'
  <1>0. CacheInv /\ SubsInv /\ CallsInv
    BY DEF DerivedInv
  <1>1. CacheInv'
    BY BecomesCache
  <1>2. PICK sl : sl = subs
    OBVIOUS
  <1>3. sl \in Slices /\ y.subs \in Slices /\ Rewired(nt, s, x, sl, y.subs)
    BY <1>0, <1>2, NowFields, StoreFields DEF Slices
  <1>4. ASSUME NEW c \in Derived PROVE Agrees(y.subs, c)
    <2>1. Agrees(sl, c) /\ c \in Signal
      BY <1>0, <1>2, DepsFacts DEF SubsInv
    <2>2. CASE Rank[c] <= Rank[s]
      BY <1>3, <2>2 DEF Rewired
    <2>3. CASE Rank[s] < Rank[c]
      BY <1>3, <2>1, <2>3, LaterAgrees, ListenerFacts
    <2>4. QED
      BY <2>1, <2>2, <2>3, RankFacts
  <1>5. SubsInv'
    BY <1>4 DEF SubsInv
  <1>6. PICK q : q = stack
    OBVIOUS
  <1>7. q \in Seq(Call) /\ CallsFit(q, nt, sl) /\ \A t \in Signal : nt[t] => Len(sl[t]) <= Len(y.subs[t])
    BY <1>0, <1>2, <1>3, <1>6 DEF CallsInv, Rewired
  <1>8. CallsFit(q, nt, y.subs)
    BY <1>3, <1>7, CallsKept
  <1>9. CallsInv'
    BY <1>0, <1>6, <1>8 DEF CallsInv
  <1>10. QED
    BY <1>1, <1>5, <1>9 DEF DerivedInv

\* All Computeds agree before a listener comes or goes.
LEMMA ListenerBefore ==
  ASSUME DerivedInv, NEW s \in Signal, NEW x \in Listener, NEW st, st = Now
  PROVE  /\ st \in Store /\ Memo(st) /\ st.subs = subs /\ x \in Who
         /\ Before(s, x, st.subs)
  <1>1. st \in Store /\ Memo(st) /\ st.subs = subs
    BY NowFields DEF DerivedInv, CacheInv
  <1>2. \A c \in Derived : Agrees(st.subs, c)
    BY <1>1 DEF DerivedInv, SubsInv
  <1>3. QED
    BY <1>1, <1>2, ListenerFacts DEF Before

\* Subscribe.
LEMMA SubscribeKeeps ==
  ASSUME DerivedInv, NEW s \in Signal, NEW x \in Listener, SubscribeTo(x, s)
  PROVE  DerivedInv'
  <1>1. PICK st, nt : st = Now /\ nt = notifying
    OBVIOUS
  <1>2. PICK y : y = Subscribed(st, x, s)
    OBVIOUS
  <1>3. /\ value' = y.value /\ subs' = y.subs /\ known' = y.known /\ notified' = y.notified
        /\ UNCHANGED <<stack, notifying, batchQueue, panicking>>
    BY <1>1, <1>2 DEF SubscribeTo, Becomes
  <1>4. st \in Store /\ Memo(st) /\ st.subs = subs /\ x \in Who /\ Before(s, x, st.subs)
    BY <1>1, ListenerBefore
  <1>5. Joins(nt, st, x, s)
    BY <1>4, SubscribeJoins
  <1>6. y \in Store /\ Memo(y) /\ Rewired(nt, s, x, subs, y.subs)
    BY <1>2, <1>4, <1>5 DEF Joins
  <1>7. QED
    BY <1>1, <1>3, <1>6, RewiredKeeps

\* Its undo.
LEMMA UnsubscribeKeeps ==
  ASSUME DerivedInv, NEW s \in Signal, NEW x \in Listener, UnsubscribeFrom(x, s)
  PROVE  DerivedInv'
  <1>1. PICK st, nt : st = Now /\ nt = notifying
    OBVIOUS
  <1>2. PICK y : y = Unsubscribed(st, x, s)
    OBVIOUS
  <1>3. /\ value' = y.value /\ subs' = y.subs /\ known' = y.known /\ notified' = y.notified
        /\ UNCHANGED <<stack, notifying, batchQueue, panicking>>
    BY <1>1, <1>2 DEF UnsubscribeFrom, Becomes
  <1>4. st \in Store /\ Memo(st) /\ st.subs = subs /\ x \in Who /\ Before(s, x, st.subs)
    BY <1>1, ListenerBefore
  <1>5. Leaves(nt, st, x, s, y)
    BY <1>1, <1>2, <1>4, UnsubscribeLeaves
  <1>6. y \in Store /\ Memo(y) /\ Rewired(nt, s, x, subs, y.subs)
    BY <1>4, <1>5 DEF Leaves
  <1>7. QED
    BY <1>1, <1>3, <1>6, RewiredKeeps

\* A refresh keeps the memos, and touches no slice.
LEMMA RefreshKeeps ==
  ASSUME DerivedInv, NEW c \in Derived, NEW st, st = Now
  PROVE  LET x == Refreshed(st, c) IN x \in Store /\ Memo(x) /\ x.subs = subs
  <1>1. st \in Store /\ Memo(st) /\ st.subs = subs
    BY NowFields DEF DerivedInv, CacheInv
  <1>2. Settled(st, {}) /\ c \in Signal
    BY DepsFacts DEF Settled
  <1>3. Refreshes(st, Refreshed(st, c))
    BY <1>1, <1>2, RefreshFacts DEF RefreshSettles
  <1>4. QED
    BY <1>1, <1>3 DEF Refreshes

\* The caches become those of x, which has the same slices.
LEMMA CacheKeeps ==
  ASSUME DerivedInv, NEW x \in Store, Memo(x), x.subs = subs,
         value' = x.value, subs' = x.subs, known' = x.known, notified' = x.notified
  PROVE  CacheInv' /\ SubsInv'
  <1>1. CacheInv'
    BY BecomesCache
  <1>2. \A c \in Derived : Agrees(x.subs, c)
    BY DEF DerivedInv, SubsInv
  <1>3. QED
    BY <1>1, <1>2 DEF SubsInv

\* Get and Peek.
LEMMA ReadKeeps ==
  ASSUME DerivedInv, NEW c \in Derived, Read(c)
  PROVE  DerivedInv'
  <1>1. PICK st : st = Now
    OBVIOUS
  <1>2. PICK x : x = Refreshed(st, c)
    OBVIOUS
  <1>3. x \in Store /\ Memo(x) /\ x.subs = subs
    BY <1>1, <1>2, RefreshKeeps
  <1>4. /\ value' = x.value /\ subs' = x.subs /\ known' = x.known /\ notified' = x.notified
        /\ UNCHANGED <<stack, notifying, batchQueue, panicking>>
    BY <1>1, <1>2 DEF Read, Becomes, ReadBy
  <1>5. CacheInv' /\ SubsInv'
    BY <1>3, <1>4, CacheKeeps
  <1>6. subs' = subs
    BY <1>3, <1>4
  <1>7. CallsInv'
    BY <1>4, <1>6 DEF DerivedInv, CallsInv
  <1>8. QED
    BY <1>5, <1>7 DEF DerivedInv

\* A subscription that is no listener is one of a Computed.
LEMMA DepSubWho ==
  ASSUME NEW w \in Who, w \notin Listener
  PROVE  w[1] \in Derived
  <1>1. PICK c \in Derived : w \in {DepSub(c, k) : k \in DOMAIN Deps[c]}
    BY DEF Who
  <1>2. QED
    BY <1>1 DEF DepSub

\* A Computed that hears from a dep.
LEMMA OnDepChangeKeeps ==
  ASSUME DerivedInv, OnDepChange
  PROVE  DerivedInv'
  <1>0. CacheInv /\ SubsInv /\ CallsInv
    BY DEF DerivedInv
  <1>1. Top.op = "call" /\ Top.who \notin Listener /\ panicking' = panicking
    BY DEF OnDepChange, IsDepSub
  <1>2. Top \in Call /\ Below \in Seq(Call) /\ CallsFit(Below, notifying, subs)
    BY <1>0, <1>1, TopCall
  <1>3. PICK c : c = Top.who[1]
    OBVIOUS
  <1>4. c \in Derived /\ c \in Signal
    BY <1>1, <1>2, <1>3, CallFields, DepSubWho, DepsFacts
  <1>5. PICK st : st = Now
    OBVIOUS
  <1>6. PICK x : x = Refreshed(st, c)
    OBVIOUS
  <1>7. x \in Store /\ Memo(x) /\ x.subs = subs
    BY <1>4, <1>5, <1>6, RefreshKeeps
  <1>8. \/ /\ value' = Synced(x, c).value /\ subs' = Synced(x, c).subs
           /\ known' = Synced(x, c).known /\ notified' = Synced(x, c).notified
           /\ Publish(c, Below)
        \/ /\ value' = x.value /\ subs' = x.subs /\ known' = x.known /\ notified' = x.notified
           /\ stack' = Below
           /\ UNCHANGED <<notifying, batchQueue>>
    BY <1>3, <1>5, <1>6 DEF OnDepChange, Becomes, Synced
  <1>9. CASE /\ value' = Synced(x, c).value /\ subs' = Synced(x, c).subs
             /\ known' = Synced(x, c).known /\ notified' = Synced(x, c).notified
             /\ Publish(c, Below)
    <2>1. PICK y : y = Synced(x, c)
      OBVIOUS
    <2>2. y \in Store /\ Memo(y) /\ y.subs = subs
      BY <1>4, <1>7, <2>1, SyncedFields
    <2>3. value' = y.value /\ subs' = y.subs /\ known' = y.known /\ notified' = y.notified
      BY <1>9, <2>1
    <2>4. CacheInv' /\ SubsInv' /\ subs' = subs
      BY <2>2, <2>3, CacheKeeps
    <2>5. CallsInv'
      BY <1>0, <1>1, <1>2, <1>4, <1>9, <2>4, PublishCalls
    <2>6. QED
      BY <2>4, <2>5 DEF DerivedInv
  <1>10. CASE /\ value' = x.value /\ subs' = x.subs /\ known' = x.known /\ notified' = x.notified
              /\ stack' = Below
              /\ UNCHANGED <<notifying, batchQueue>>
    <2>1. CacheInv' /\ SubsInv' /\ subs' = subs
      BY <1>7, <1>10, CacheKeeps
    <2>2. CallsInv'
      BY <1>0, <1>1, <1>2, <1>10, <2>1 DEF CallsInv
    <2>3. QED
      BY <2>1, <2>2 DEF DerivedInv
  <1>11. QED
    BY <1>8, <1>9, <1>10

\* A call is made in place of, or on top of, calls that fit.
LEMMA OnTop ==
  ASSUME DerivedInv, NEW f \in Call, f.op # "notify", NEW q \in Seq(Call),
         CallsFit(q, notifying, subs)
  PROVE  Push(f, q) \in Seq(Call) /\ CallsFit(Push(f, q), notifying, subs)
  <1>1. PICK m, sl : m = notifying /\ sl = subs
    OBVIOUS
  <1>2. CallsFit(Push(f, q), m, sl)
    BY <1>1, CallsPushed
  <1>3. QED
    BY <1>1, <1>2, Pushed

\* The calls change while the caches, the slices and the marks stay.
LEMMA CallsOnly ==
  ASSUME DerivedInv, UNCHANGED <<value, subs, known, notified, notifying>>,
         stack' \in Seq(Call), CallsFit(stack', notifying, subs),
         batchQueue' \in Seq(Signal), panicking' \in BOOLEAN
  PROVE  DerivedInv'
  <1>1. CacheInv' /\ SubsInv'
    BY Quiet DEF DerivedInv
  <1>2. CallsInv'
    BY DEF DerivedInv, CallsInv
  <1>3. QED
    BY <1>1, <1>2 DEF DerivedInv

\* A stack that is not empty has a call for its head.
LEMMA CallTop ==
  ASSUME CallsInv, stack # <<>>
  PROVE  Top.op # "loop"
  <1>1. stack \in Seq(Call) /\ Top = Head(stack)
    BY DEF CallsInv, Top
  <1>2. Top \in Call
    BY <1>1
  <1>3. QED
    BY <1>2 DEF Call, NotifyCall

\* A pass calls the next subscriber, or passes over a dead one.
LEMMA CallNextKeeps ==
  ASSUME DerivedInv, CallNext
  PROVE  DerivedInv'
  <1>0. CacheInv /\ CallsInv
    BY DEF DerivedInv
  <1>1. /\ Top.op = "notify" /\ Top.i <= Top.n
        /\ UNCHANGED <<value, subs, known, notified, notifying, batchQueue, panicking>>
        /\ \/ stack' = Advance(subs[Top.sig][Top.i].who)
           \/ /\ ~subs[Top.sig][Top.i].dead
              /\ stack' = <<[op |-> "call", who |-> subs[Top.sig][Top.i].who]>>
                            \o Advance(subs[Top.sig][Top.i].who)
    BY DEF CallNext, NotifyNext, derivedVars
  <1>2. /\ Top \in Call /\ Below \in Seq(Call) /\ CallsFit(Below, notifying, subs)
        /\ notifying[Top.sig] /\ Top.n <= Len(subs[Top.sig]) /\ ~Notified(Below, Top.sig)
    BY <1>0, <1>1, TopCall
  <1>3. PICK f, q, m, sl : f = Top /\ q = Below /\ m = notifying /\ sl = subs
    OBVIOUS
  <1>4. /\ f \in Call /\ f.op = "notify" /\ q \in Seq(Call) /\ CallsFit(q, m, sl) /\ sl \in Slices
        /\ m[f.sig] /\ f.n <= Len(sl[f.sig]) /\ ~Notified(q, f.sig) /\ f.i <= f.n
    BY <1>0, <1>1, <1>2, <1>3, NowFields
  <1>5. PICK w : w = sl[f.sig][f.i].who
    OBVIOUS
  <1>6. w \in Who
    <2>1. f.sig \in Signal /\ f.i \in Nat \ {0} /\ f.n \in Nat
      BY <1>4, CallFields
    <2>2. sl[f.sig] \in Seq(Registration) /\ Len(sl[f.sig]) \in Nat
      BY <1>4, <2>1 DEF Slices
    <2>3. f.i \in 1..Len(sl[f.sig])
      BY <1>4, <2>1, <2>2
    <2>4. sl[f.sig][f.i] \in Registration
      BY <2>2, <2>3
    <2>5. QED
      BY <1>5, <2>4 DEF Registration
  <1>7. PICK g : g = Stepped(f, w)
    OBVIOUS
  <1>8. g \in Call /\ g.op = "notify" /\ g.sig = f.sig /\ g.n = f.n
    BY <1>4, <1>7, SteppedCall
  <1>9. Push(g, q) \in Seq(Call) /\ CallsFit(Push(g, q), m, sl)
    <2>1. CallsFit(Push(g, q), m, sl)
      BY <1>4, <1>8, CallsPushed
    <2>2. QED
      BY <1>4, <1>8, <2>1, Pushed
  <1>10. Advance(w) = Push(g, q)
    BY <1>3, <1>7 DEF Advance, Push, Stepped
  <1>11. PICK h : h = [op |-> "call", who |-> w]
    OBVIOUS
  <1>12. h \in Call /\ h.op # "notify"
    BY <1>6, <1>11, OtherCalls
  <1>13. Push(h, Push(g, q)) \in Seq(Call) /\ CallsFit(Push(h, Push(g, q)), notifying, subs)
    BY <1>3, <1>9, <1>12, OnTop
  <1>14. stack' = Push(g, q) \/ stack' = Push(h, Push(g, q))
    BY <1>1, <1>3, <1>5, <1>10, <1>11 DEF Push
  <1>15. stack' \in Seq(Call) /\ CallsFit(stack', notifying, subs)
    BY <1>3, <1>9, <1>13, <1>14
  <1>16. batchQueue' \in Seq(Signal) /\ panicking' \in BOOLEAN
    BY <1>0, <1>1 DEF CallsInv
  <1>17. QED
    BY <1>1, <1>15, <1>16, CallsOnly

\* The start and the end of a Batch, and the return of a call.
LEMMA BatchKeeps ==
  ASSUME DerivedInv, BeginBatch \/ EndBatch \/ Return, UNCHANGED derivedVars
  PROVE  DerivedInv'
  <1>0. CallsInv /\ UNCHANGED <<known, notified>>
    BY DEF DerivedInv, derivedVars
  <1>1. CASE BeginBatch
    <2>1. /\ UNCHANGED <<value, subs, notifying, batchQueue, panicking>>
          /\ stack' = Push([op |-> "batch"], stack)
      BY <1>1 DEF BeginBatch, Push
    <2>2. stack \in Seq(Call) /\ CallsFit(stack, notifying, subs)
          /\ batchQueue \in Seq(Signal) /\ panicking \in BOOLEAN
      BY <1>0 DEF CallsInv
    <2>3. stack' \in Seq(Call) /\ CallsFit(stack', notifying, subs)
      <3>1. PICK q : q = stack
        OBVIOUS
      <3>2. Push([op |-> "batch"], q) \in Seq(Call) /\ CallsFit(Push([op |-> "batch"], q), notifying, subs)
        BY <2>2, <3>1, OtherCalls, OnTop
      <3>3. QED
        BY <2>1, <3>1, <3>2
    <2>4. QED
      BY <1>0, <2>1, <2>2, <2>3, CallsOnly
  <1>2. CASE EndBatch
    <2>1. /\ Top.op = "batch"
          /\ UNCHANGED <<value, subs, notifying>>
          /\ \/ /\ stack' = Push([op |-> "drain", rest |-> batchQueue, rethrow |-> panicking], Below)
                /\ batchQueue' = <<>> /\ panicking' = FALSE
             \/ stack' = Below /\ UNCHANGED <<batchQueue, panicking>>
      BY <1>2 DEF EndBatch, Push
    <2>2. Below \in Seq(Call) /\ CallsFit(Below, notifying, subs)
      BY <1>0, <2>1, TopCall
    <2>3. batchQueue \in Seq(Signal) /\ panicking \in BOOLEAN
      BY <1>0 DEF CallsInv
    <2>4. PICK f, q : f = [op |-> "drain", rest |-> batchQueue, rethrow |-> panicking] /\ q = Below
      OBVIOUS
    <2>5. f \in Call /\ f.op # "notify"
      BY <2>3, <2>4, OtherCalls
    <2>6. Push(f, q) \in Seq(Call) /\ CallsFit(Push(f, q), notifying, subs)
      BY <2>2, <2>4, <2>5, OnTop
    <2>7. stack' = Push(f, q) \/ stack' = Below
      BY <2>1, <2>4
    <2>8. stack' \in Seq(Call) /\ CallsFit(stack', notifying, subs)
      BY <2>2, <2>6, <2>7
    <2>9. <<>> \in Seq(Signal)
      OBVIOUS
    <2>10. batchQueue' \in Seq(Signal) /\ panicking' \in BOOLEAN
      BY <2>1, <2>3, <2>9
    <2>11. QED
      BY <1>0, <2>1, <2>8, <2>10, CallsOnly
  <1>3. CASE Return
    <2>1. /\ Top.op # "loop" /\ stack' = Below
          /\ UNCHANGED <<value, subs, notifying, batchQueue, panicking>>
      BY <1>3 DEF Return, signalVars
    <2>2. Below \in Seq(Call) /\ CallsFit(Below, notifying, subs)
      BY <1>0, <2>1, TopCall
    <2>3. stack' \in Seq(Call) /\ CallsFit(stack', notifying, subs)
      BY <2>1, <2>2
    <2>4. batchQueue' \in Seq(Signal) /\ panicking' \in BOOLEAN
      BY <1>0, <2>1 DEF CallsInv
    <2>5. QED
      BY <1>0, <2>1, <2>3, <2>4, CallsOnly
  <1>4. QED
    BY <1>1, <1>2, <1>3

\* What a drain delivers.
LEMMA DrainKeeps ==
  ASSUME DerivedInv, DrainNext \/ DrainEnd, UNCHANGED derivedVars
  PROVE  DerivedInv'
  <1>0. CacheInv /\ SubsInv /\ CallsInv /\ UNCHANGED <<known, notified>>
    BY DEF DerivedInv, derivedVars
  <1>1. Top.op = "drain"
    BY DEF DrainNext, DrainEnd
  <1>2. Top \in Call /\ Below \in Seq(Call) /\ CallsFit(Below, notifying, subs)
    BY <1>0, <1>1, TopCall
  <1>3. PICK f, q : f = Top /\ q = Below
    OBVIOUS
  <1>4. f \in Call /\ f.op = "drain" /\ q \in Seq(Call) /\ CallsFit(q, notifying, subs)
        /\ f.rest \in Seq(Signal) /\ f.rethrow \in BOOLEAN
    BY <1>1, <1>2, <1>3, CallFields
  <1>5. ASSUME NEW rest \in Seq(Signal)
        PROVE  /\ Push(Holding(f, rest), q) \in Seq(Call)
               /\ CallsFit(Push(Holding(f, rest), q), notifying, subs)
    <2>1. Holding(f, rest) \in Call /\ Holding(f, rest).op # "notify"
      BY <1>4, HoldingCall
    <2>2. PICK g : g = Holding(f, rest)
      OBVIOUS
    <2>3. QED
      BY <1>4, <2>1, <2>2, OnTop
  <1>6. CASE DrainNext
    <2>1. PICK s : s = Head(f.rest)
      OBVIOUS
    <2>2. f.rest # <<>>
      BY <1>3, <1>6 DEF DrainNext
    <2>3. s \in Signal /\ Tail(f.rest) \in Seq(Signal)
      BY <1>4, <2>1, <2>2
    <2>4. PICK below : below = Push(Holding(f, Tail(f.rest)), q)
      OBVIOUS
    <2>5. below \in Seq(Call) /\ CallsFit(below, notifying, subs)
      BY <1>5, <2>3, <2>4
    <2>6. Notify(s, below) /\ UNCHANGED <<value, subs, batchQueue, panicking>>
      BY <1>3, <1>6, <2>1, <2>4 DEF DrainNext, Push, Holding
    <2>7. /\ stack' \in Seq(Call) /\ notifying' \in [Signal -> BOOLEAN]
          /\ CallsFit(stack', notifying', subs')
      BY <1>0, <2>3, <2>5, <2>6, NotifyCalls
    <2>8. CallsInv'
      BY <1>0, <2>6, <2>7 DEF CallsInv
    <2>9. CacheInv' /\ SubsInv'
      BY <1>0, <2>6, Quiet
    <2>10. QED
      BY <2>8, <2>9 DEF DerivedInv
  <1>7. CASE DrainEnd
    <2>1. /\ UNCHANGED <<value, subs, notifying>> /\ batchQueue' = <<>>
          /\ \/ stack' = Push(Holding(f, batchQueue), q) /\ panicking' = panicking
             \/ stack' = q /\ panicking' = f.rethrow
      BY <1>3, <1>7 DEF DrainEnd, Push, Holding
    <2>2. batchQueue \in Seq(Signal) /\ panicking \in BOOLEAN
      BY <1>0 DEF CallsInv
    <2>3. PICK rest : rest = batchQueue
      OBVIOUS
    <2>4. Push(Holding(f, rest), q) \in Seq(Call) /\ CallsFit(Push(Holding(f, rest), q), notifying, subs)
      BY <1>5, <2>2, <2>3
    <2>5. stack' \in Seq(Call) /\ CallsFit(stack', notifying, subs)
      BY <1>4, <2>1, <2>3, <2>4
    <2>6. <<>> \in Seq(Signal)
      OBVIOUS
    <2>7. batchQueue' \in Seq(Signal) /\ panicking' \in BOOLEAN
      BY <1>4, <2>1, <2>2, <2>6
    <2>8. QED
      BY <1>0, <2>1, <2>5, <2>7, CallsOnly
  <1>8. QED
    BY <1>6, <1>7

\* The end of a pass, and what a panic leaves.
LEMMA EndKeeps ==
  ASSUME DerivedInv, NotifyPassEnd \/ Unwind \/ Recovered, UNCHANGED derivedVars
  PROVE  DerivedInv'
  <1>0. CacheInv /\ SubsInv /\ CallsInv /\ UNCHANGED <<known, notified>>
    BY DEF DerivedInv, derivedVars
  <1>1. batchQueue \in Seq(Signal) /\ panicking \in BOOLEAN
    BY <1>0 DEF CallsInv
  <1>2. CASE NotifyPassEnd
    <2>1. Top.op = "notify" /\ UNCHANGED <<value, batchQueue, panicking>>
      BY <1>2 DEF NotifyPassEnd
    <2>2. /\ Top \in Call /\ Below \in Seq(Call) /\ CallsFit(Below, notifying, subs)
          /\ notifying[Top.sig] /\ ~Notified(Below, Top.sig)
      BY <1>0, <2>1, TopCall
    <2>3. CASE EndNotify(Top.sig) /\ stack' = Below
      BY <1>0, <2>1, <2>3, EndNotifyCalls
    <2>4. CASE stack' = <<NotifyFrame(Top.sig, Top.pass + 1)>> \o Below /\ UNCHANGED <<subs, notifying>>
      <3>1. Top.sig \in Signal /\ Top.pass + 1 \in Nat
        BY <2>1, <2>2, CallFields
      <3>2. PICK s, f, q, m, sl : /\ s = Top.sig /\ f = NotifyFrame(Top.sig, Top.pass + 1)
                                  /\ q = Below /\ m = notifying /\ sl = subs
        OBVIOUS
      <3>3. f \in Call /\ f.op = "notify" /\ f.sig = s /\ f.n = Len(sl[s])
        BY <1>0, <3>1, <3>2, NewCall
      <3>4. /\ q \in Seq(Call) /\ CallsFit(q, m, sl) /\ m[s] /\ ~Notified(q, s)
            /\ Len(sl[s]) \in Nat
        BY <1>0, <2>2, <3>1, <3>2, NowFields DEF Slices
      <3>5. f.n <= Len(sl[f.sig])
        BY <3>3, <3>4
      <3>6. CallsFit(Push(f, q), m, sl)
        BY <3>3, <3>4, <3>5, CallsPushed
      <3>7. Push(f, q) \in Seq(Call)
        BY <3>3, <3>4, Pushed
      <3>8. stack' = Push(f, q)
        BY <2>4, <3>2 DEF Push
      <3>9. stack' \in Seq(Call) /\ CallsFit(stack', notifying, subs)
        BY <3>2, <3>6, <3>7, <3>8
      <3>10. QED
        BY <1>0, <1>1, <2>1, <2>4, <3>9, CallsOnly
    <2>5. QED
      BY <1>2, <2>3, <2>4 DEF NotifyPassEnd
  <1>3. CASE Unwind
    <2>1. Top.op # "loop" /\ stack' = Below /\ UNCHANGED <<value, batchQueue, panicking>>
      BY <1>3 DEF Unwind
    <2>2. Below \in Seq(Call) /\ CallsFit(Below, notifying, subs)
      BY <1>0, <2>1, TopCall
    <2>3. CASE Top.op = "notify" /\ EndNotify(Top.sig)
      BY <1>0, <2>1, <2>3, EndNotifyCalls
    <2>4. CASE UNCHANGED <<notifying, subs>>
      <3>1. stack' \in Seq(Call) /\ CallsFit(stack', notifying, subs)
        BY <2>1, <2>2
      <3>2. QED
        BY <1>0, <1>1, <2>1, <2>4, <3>1, CallsOnly
    <2>5. QED
      BY <1>3, <2>3, <2>4 DEF Unwind
  <1>4. CASE Recovered
    <2>1. /\ panicking' = FALSE /\ UNCHANGED <<value, subs, notifying, batchQueue>>
          /\ stack' = IF stack = <<>> THEN <<>> ELSE Below
      BY <1>4 DEF Recovered, signalVars
    <2>2. stack' \in Seq(Call) /\ CallsFit(stack', notifying, subs)
      <3>1. CASE stack = <<>>
        BY <1>0, <2>1, <3>1 DEF CallsInv
      <3>2. CASE stack # <<>>
        <4>1. Top.op # "loop"
          BY <1>0, <3>2, CallTop
        <4>2. QED
          BY <1>0, <2>1, <3>2, <4>1, TopCall
      <3>3. QED
        BY <3>1, <3>2
    <2>3. QED
      BY <1>0, <1>1, <2>1, <2>2, CallsOnly
  <1>5. QED
    BY <1>2, <1>3, <1>4

\* The start of a Recover, and a panic of user code.
LEMMA PanicKeeps ==
  ASSUME DerivedInv, BeginRecover \/ Panic, UNCHANGED derivedVars
  PROVE  DerivedInv'
  <1>0. CallsInv /\ UNCHANGED <<known, notified>>
    BY DEF DerivedInv, derivedVars
  <1>1. /\ stack \in Seq(Call) /\ CallsFit(stack, notifying, subs)
        /\ batchQueue \in Seq(Signal) /\ panicking \in BOOLEAN
    BY <1>0 DEF CallsInv
  <1>2. PICK q : q = stack
    OBVIOUS
  <1>3. CASE BeginRecover
    <2>1. /\ UNCHANGED <<value, subs, notifying, batchQueue, panicking>>
          /\ stack' = Push([op |-> "recover"], q)
      BY <1>2, <1>3 DEF BeginRecover, Push, signalVars
    <2>2. Push([op |-> "recover"], q) \in Seq(Call) /\ CallsFit(Push([op |-> "recover"], q), notifying, subs)
      BY <1>1, <1>2, OtherCalls, OnTop
    <2>3. stack' \in Seq(Call) /\ CallsFit(stack', notifying, subs)
      BY <2>1, <2>2
    <2>4. QED
      BY <1>0, <1>1, <2>1, <2>3, CallsOnly
  <1>4. CASE Panic
    <2>1. UNCHANGED <<value, subs, notifying, batchQueue>> /\ stack' = q /\ panicking' = TRUE
      BY <1>2, <1>4 DEF Panic, signalVars
    <2>2. stack' \in Seq(Call) /\ CallsFit(stack', notifying, subs)
      BY <1>1, <1>2, <2>1
    <2>3. QED
      BY <1>0, <1>1, <2>1, <2>2, CallsOnly
  <1>5. QED
    BY <1>3, <1>4

\* The steps of a system whose listeners and handlers may panic too, which Computed leaves
\* out to be small enough to check.
PanickyNext == DerivedNext \/ Unwatched(BeginRecover \/ Panic)

\* Every step keeps the invariant.
LEMMA DerivedStep ==
  ASSUME DerivedInv, [PanickyNext]_allVars
  PROVE  DerivedInv'
  <1>1. ASSUME NEW s \in Source, NEW v \in Value, SetSource(s, v) PROVE DerivedInv'
    BY <1>1, SetKeeps
  <1>2. ASSUME NEW s \in Signal, NEW x \in Listener, SubscribeTo(x, s) PROVE DerivedInv'
    BY <1>2, SubscribeKeeps
  <1>3. ASSUME NEW s \in Signal, NEW x \in Listener, UnsubscribeFrom(x, s) PROVE DerivedInv'
    BY <1>3, UnsubscribeKeeps
  <1>4. ASSUME NEW c \in Derived, Read(c) PROVE DerivedInv'
    BY <1>4, ReadKeeps
  <1>5. CASE OnDepChange
    BY <1>5, OnDepChangeKeeps
  <1>6. CASE CallNext
    BY <1>6, CallNextKeeps
  <1>7. CASE Unwatched(BeginBatch \/ EndBatch \/ Return \/ Deliver)
    <2>1. (BeginBatch \/ EndBatch \/ Return \/ Deliver) /\ UNCHANGED derivedVars
      BY <1>7 DEF Unwatched
    <2>2. CASE BeginBatch \/ EndBatch \/ Return
      BY <2>1, <2>2, BatchKeeps
    <2>3. CASE DrainNext \/ DrainEnd
      BY <2>1, <2>3, DrainKeeps
    <2>4. CASE NotifyPassEnd \/ Unwind \/ Recovered
      BY <2>1, <2>4, EndKeeps
    <2>5. QED
      BY <2>1, <2>2, <2>3, <2>4 DEF Deliver
  <1>8. CASE UNCHANGED allVars
    <2>1. UNCHANGED <<value, subs, known, notified, notifying, stack, batchQueue, panicking>>
      BY <1>8 DEF allVars, vars, signalVars, derivedVars
    <2>2. /\ stack \in Seq(Call) /\ CallsFit(stack, notifying, subs)
          /\ batchQueue \in Seq(Signal) /\ panicking \in BOOLEAN
      BY DEF DerivedInv, CallsInv
    <2>3. PICK q : q = stack
      OBVIOUS
    <2>4. stack' \in Seq(Call) /\ CallsFit(stack', notifying, subs)
      BY <2>1, <2>2, <2>3
    <2>5. QED
      BY <2>1, <2>2, <2>4, CallsOnly
  <1>9. CASE Unwatched(BeginRecover \/ Panic)
    BY <1>9, PanicKeeps DEF Unwatched
  <1>10. QED
    BY <1>1, <1>2, <1>3, <1>4, <1>5, <1>6, <1>7, <1>8, <1>9 DEF DerivedNext, PanickyNext

\* Before anything ran no Computed has been evaluated, and nobody is subscribed.
LEMMA DerivedStart ==
  ASSUME DerivedInit PROVE DerivedInv
  <1>1. /\ value \in [Signal -> Value] /\ subs = [s \in Signal |-> <<>>]
        /\ known = [c \in Derived |-> {}] /\ notified = [c \in Derived |-> Zero]
        /\ \A c \in Derived : value[c] = Zero
        /\ notifying = [s \in Signal |-> FALSE] /\ batchQueue = <<>> /\ stack = <<>>
        /\ panicking = FALSE
    BY DEF DerivedInit, Init
  <1>2. notified \in [Derived -> Value]
    <2>1. \A c \in Derived : value[c] \in Value
      BY <1>1, DepsFacts
    <2>2. \A c \in Derived : Zero \in Value
      BY <1>1, <2>1
    <2>3. QED
      BY <1>1, <2>2
  <1>3. known \in [Derived -> SUBSET Nat]
    BY <1>1
  <1>4. <<>> \in Seq(Registration) /\ <<>> \in Seq(Signal) /\ <<>> \in Seq(Call)
    OBVIOUS
  <1>5. subs \in [Signal -> Seq(Registration)]
    BY <1>1, <1>4
  <1>6. Now \in Store /\ Now.known = known
    BY <1>1, <1>2, <1>3, <1>5 DEF Now, Store
  <1>7. ASSUME NEW c \in Derived PROVE {} # DOMAIN Deps[c]
    <2>1. Deps[c] \in Seq(Signal) /\ Deps[c] # <<>>
      BY ComputedAssumption
    <2>2. PICK q : q = Deps[c]
      OBVIOUS
    <2>3. q \in Seq(Signal) /\ q # <<>> /\ Len(q) \in Nat /\ DOMAIN q = 1..Len(q)
      BY <2>1, <2>2
    <2>4. Len(q) # 0
      BY <2>3
    <2>5. 1 \in DOMAIN q
      BY <2>3, <2>4
    <2>6. QED
      BY <2>2, <2>5
  <1>8. Memo(Now)
    BY <1>1, <1>6, <1>7 DEF Memo
  <1>9. SubsInv
    <2>1. Lives(<<>>) = {} /\ ~Observed(<<>>) /\ \A w : Single(<<>>, w)
      BY DEF Lives, ToSet, Observed, Single, OnlyOnce
    <2>2. PICK sl : sl = [s \in Signal |-> <<>>]
      OBVIOUS
    <2>3. \A c \in Derived : sl[c] = <<>> /\ \A k \in DOMAIN Deps[c] : sl[Deps[c][k]] = <<>>
      BY <2>2, DepsFacts
    <2>4. \A c \in Derived : Agrees(sl, c)
      BY <2>1, <2>3 DEF Agrees
    <2>5. QED
      BY <1>1, <2>2, <2>4 DEF SubsInv
  <1>10. CallsInv
    <2>1. CallsFit(<<>>, notifying, subs)
      BY DEF CallsFit
    <2>2. QED
      BY <1>1, <1>4, <2>1 DEF CallsInv
  <1>11. QED
    BY <1>6, <1>8, <1>9, <1>10 DEF DerivedInv, CacheInv
-----------------------------------------------------------------------------
(* Theorems *)

\* The inductive invariant holds in every behaviour, for any acyclic graph of Computeds:
\* what is cached under the versions of all deps is what compute makes of them, every
\* Computed is subscribed to its deps exactly while it is observed, and every notification
\* under way marks its signal and walks a slice that does not get shorter
\* (core/computed.go, core/signal.go, core/batch.go).
THEOREM DerivedInvariant == DerivedSpec => []DerivedInv
  <1>1. DerivedInit => DerivedInv
    BY DerivedStart
  <1>2. DerivedInv /\ [DerivedNext]_allVars => DerivedInv'
    BY DerivedStep DEF PanickyNext
  <1>3. QED
    BY <1>1, <1>2, PTL DEF DerivedSpec

\* Get and Peek of a Computed always give what its compute functions make of the values
\* the sources have now (core/signal.go:48-50, core/computed.go:51-70).
THEOREM GetIsCurrentAlways == DerivedSpec => []GetIsCurrent
  <1>1. DerivedInv => GetIsCurrent
    BY CacheIsCurrent DEF DerivedInv
  <1>2. QED
    BY <1>1, DerivedInvariant, PTL

\* Slices in which every Computed agrees count one live subscription to each dep of one that
\* is observed, and none to those of one that is not.
LEMMA AgreeingIsSubscribed ==
  ASSUME SubsInv, CacheInv PROVE ObservedIsSubscribed
  <1> SUFFICES ASSUME NEW c \in Derived, NEW k \in DOMAIN Deps[c]
               PROVE  LiveSubs(DepSub(c, k), Deps[c][k]) = IF Observed(subs[c]) THEN 1 ELSE 0
    BY DEF ObservedIsSubscribed
  <1>1. PICK w, q : w = DepSub(c, k) /\ q = subs[Deps[c][k]]
    OBVIOUS
  <1>2. w \in Who /\ q \in Seq(Registration)
    BY <1>1, NowFields, DepsFacts, DepSubFacts DEF Slices
  <1>3. (w \in Lives(q) <=> Observed(subs[c])) /\ Single(q, w)
    BY <1>1 DEF SubsInv, Agrees
  <1>4. PICK K : K = {j \in DOMAIN q : q[j] = LiveEntry(w)}
    OBVIOUS
  <1>5. LiveSubs(DepSub(c, k), Deps[c][k]) = Cardinality(K)
    BY <1>1, <1>4 DEF LiveSubs, LiveEntry
  <1>6. CASE Observed(subs[c])
    <2>1. PICK j \in DOMAIN q : q[j] = LiveEntry(w)
      BY <1>2, <1>3, <1>6, LivesFacts
    <2>2. K = {j}
      BY <1>3, <1>4, <2>1 DEF Single, OnlyOnce
    <2>3. Cardinality(K) = 1
      BY <2>2, FS_Singleton
    <2>4. QED
      BY <1>5, <1>6, <2>3
  <1>7. CASE ~Observed(subs[c])
    <2>1. K = {}
      BY <1>2, <1>3, <1>4, <1>7, LivesFacts
    <2>2. Cardinality(K) = 0
      BY <2>1, FS_EmptySet
    <2>3. QED
      BY <1>5, <1>7, <2>2
  <1>8. QED
    BY <1>6, <1>7

\* A Computed is subscribed to each of its deps once while it is observed, and to none while
\* it is not, at any depth and however observers come and go during notifications
\* (core/computed.go:3-9, 72-85).
THEOREM ObservedIsSubscribedAlways == DerivedSpec => []ObservedIsSubscribed
  <1>1. DerivedInv => ObservedIsSubscribed
    BY AgreeingIsSubscribed DEF DerivedInv
  <1>2. QED
    BY <1>1, DerivedInvariant, PTL

\* Both hold as well when listeners, handlers and Batches panic, under a Recover or not: a panic
\* unwinds notifications and drains, and leaves no cache or subscription half done
\* (core/signal.go:172-181, core/batch.go:21-51).
THEOREM DespitePanics ==
  DerivedInit /\ [][PanickyNext]_allVars => [](GetIsCurrent /\ ObservedIsSubscribed)
  <1>1. DerivedInit => DerivedInv
    BY DerivedStart
  <1>2. DerivedInv /\ [PanickyNext]_allVars => DerivedInv'
    BY DerivedStep
  <1>3. DerivedInv => GetIsCurrent /\ ObservedIsSubscribed
    BY CacheIsCurrent, AgreeingIsSubscribed DEF DerivedInv
  <1>4. QED
    BY <1>1, <1>2, <1>3, PTL
=============================================================================
