---------------------------- MODULE SignalsProofs ----------------------------
(***************************************************************************)
(* Proofs about Signals, for any signals, subscriptions and values, any    *)
(* nesting of calls and any bound on the passes of a notification.         *)
(***************************************************************************)
EXTENDS Signals, FiniteSetTheorems, FunctionTheorems, TLAPS

\* The registrations that members of W can have.
EntryOf(W) == [who : W, dead : BOOLEAN]

Entry == EntryOf(Listener)
Frame ==
  [op : {"batch", "recover"}]
    \union [op : {"call"}, who : Listener]
    \union [op : {"drain"}, rest : Seq(Signal), rethrow : BOOLEAN]
    \union [op : {"notify"}, sig : Signal, pass : Nat, i : Nat, n : Nat, todo : SUBSET Listener]
-----------------------------------------------------------------------------
(* compact *)


\* Every set of naturals has a least member: the principle of every induction below.
LEMMA LeastNat ==
  ASSUME NEW T \in SUBSET Nat, T # {}
  PROVE  \E n \in T : \A m \in T : n <= m
  <1>1. PICK R : R = OpToRel(<, Nat)
    OBVIOUS
  <1>2. IsWellFoundedOn(R, Nat)
    BY <1>1, NatLessThanWellFounded
  <1>3. \A m, n \in Nat : m < n => <<m, n>> \in R
    BY <1>1 DEF OpToRel
  <1>4. PICK n \in T : \A m \in T : ~(<<m, n>> \in R)
    BY <1>2, WFMin
  <1>5. \A m \in T : m \in Nat /\ n \in Nat /\ ~(m < n)
    BY <1>3, <1>4
  <1>6. \A m, k \in Nat : ~(m < k) => k <= m
    OBVIOUS
  <1>7. QED
    BY <1>5, <1>6

\* The recursive definition in LiveOnes defines a function.
KeptOf(f, entries, k) ==
  IF k = 0 THEN <<>>
  ELSE IF entries[k].dead THEN f[k - 1] ELSE Append(f[k - 1], entries[k])
IsKept(f, entries, n) == f = [k \in 0..n |-> KeptOf(f, entries, k)]

\* The recursive function in LiveOnes exists: by induction on the length of the slice.
LEMMA LiveOnesDef ==
  ASSUME NEW W, NEW entries \in Seq(EntryOf(W))
  PROVE  \E f : IsKept(f, entries, Len(entries)) /\ LiveOnes(entries) = f[Len(entries)]
  <1> DEFINE Exists(m) == \E f : IsKept(f, entries, m)
             T == {m \in 0..Len(entries) : ~Exists(m)}
  <1>1. Exists(Len(entries))
    <2> SUFFICES ASSUME ~Exists(Len(entries)) PROVE FALSE
      OBVIOUS
    <2>1. T \in SUBSET Nat /\ T # {}
      <3>1. Len(entries) \in 0..Len(entries)
        OBVIOUS
      <3>2. QED
        BY <3>1
    <2> HIDE DEF T
    <2>2. PICK n \in T : \A m \in T : n <= m
      BY <2>1, LeastNat
    <2>3. n \in Nat /\ n <= Len(entries) /\ ~Exists(n)
      BY <2>2 DEF T
    <2>4. CASE n = 0
      <3>1. IsKept([k \in 0..0 |-> <<>>], entries, 0)
        BY DEF IsKept, KeptOf
      <3>2. QED
        BY <2>3, <2>4, <3>1
    <2>5. CASE n > 0
      <3>1. Exists(n - 1)
        BY <2>2, <2>3, <2>5 DEF T
      <3>2. PICK f : IsKept(f, entries, n - 1)
        BY <3>1
      <3>3. PICK g : g = [k \in 0..n |-> KeptOf(f, entries, k)]
        OBVIOUS
      <3>4. \A k \in 0..(n - 1) : g[k] = f[k]
        BY <2>3, <2>5, <3>2, <3>3 DEF IsKept
      <3>5. \A k \in 0..n : KeptOf(f, entries, k) = KeptOf(g, entries, k)
        BY <2>3, <2>5, <3>4 DEF KeptOf
      <3>6. IsKept(g, entries, n)
        BY <3>3, <3>5 DEF IsKept
      <3>7. QED
        BY <3>6, <2>3
    <2>6. QED
      BY <2>3, <2>4, <2>5
  <1>2. PICK kept : kept = CHOOSE f : IsKept(f, entries, Len(entries))
    OBVIOUS
  <1>3. IsKept(kept, entries, Len(entries))
    BY <1>1, <1>2, Zenon
  <1>4. LiveOnes(entries) = kept[Len(entries)]
    BY <1>2 DEF LiveOnes, IsKept, KeptOf
  <1>5. QED
    BY <1>3, <1>4

\* Nobody is registered twice.
OneEach(entries) == \A j, k \in DOMAIN entries : entries[j].who = entries[k].who => j = k

\* The entry e is there at one place at most.
OnlyOnce(entries, e) == \A j, k \in DOMAIN entries : entries[j] = e /\ entries[k] = e => j = k

\* What compact keeps of a slice (signal.go:111-120): the entries that are not dead, and
\* no others, each once.
LEMMA LiveOnesFacts ==
  ASSUME NEW W, NEW entries \in Seq(EntryOf(W))
  PROVE  /\ LiveOnes(entries) \in Seq(EntryOf(W))
         /\ ToSet(LiveOnes(entries)) = {e \in ToSet(entries) : ~e.dead}
         /\ OneEach(entries) => OneEach(LiveOnes(entries))
         /\ \A e : OnlyOnce(entries, e) => OnlyOnce(LiveOnes(entries), e)
  <1>1. PICK kept : IsKept(kept, entries, Len(entries)) /\ LiveOnes(entries) = kept[Len(entries)]
    BY LiveOnesDef
  <1> DEFINE n == Len(entries)
             First(k) == {entries[j] : j \in 1..k}
             Good(k) == /\ kept[k] \in Seq(EntryOf(W))
                        /\ ToSet(kept[k]) = {e \in First(k) : ~e.dead}
                        /\ OneEach(entries) => OneEach(kept[k])
                        /\ \A e : OnlyOnce(entries, e) => OnlyOnce(kept[k], e)
             Bad == {k \in 0..n : ~Good(k)}
  <1>2. Good(0)
    <2>1. kept[0] = <<>>
      BY <1>1 DEF IsKept, KeptOf
    <2>2. QED
      BY <2>1 DEF ToSet, OneEach, OnlyOnce
  <1>3. ASSUME NEW k \in 1..n, Good(k - 1) PROVE Good(k)
    <2>1. k - 1 \in 0..n /\ k \in DOMAIN entries /\ entries[k] \in EntryOf(W)
      OBVIOUS
    <2>2. First(k) = First(k - 1) \union {entries[k]}
      OBVIOUS
    <2>3. kept[k] = IF entries[k].dead THEN kept[k - 1] ELSE Append(kept[k - 1], entries[k])
      <3>1. k \in 0..n /\ k # 0
        OBVIOUS
      <3>2. kept = [j \in 0..n |-> KeptOf(kept, entries, j)]
        BY <1>1 DEF IsKept
      <3>3. kept[k] = KeptOf(kept, entries, k)
        BY <3>1, <3>2, Zenon
      <3>4. QED
        BY <3>1, <3>3 DEF KeptOf
    <2>4. CASE entries[k].dead
      BY <1>3, <2>2, <2>3, <2>4
    <2>5. CASE ~entries[k].dead
      <3> DEFINE q == kept[k - 1]
      <3>1. kept[k] = Append(q, entries[k]) /\ q \in Seq(EntryOf(W))
        BY <1>3, <2>3, <2>5
      <3>2. kept[k] \in Seq(EntryOf(W)) /\ ToSet(kept[k]) = ToSet(q) \union {entries[k]}
        <4>1. DOMAIN kept[k] = 1..(Len(q) + 1) /\ DOMAIN q = 1..Len(q) /\ Len(q) \in Nat
          BY <2>1, <3>1
        <4>2. kept[k][Len(q) + 1] = entries[k] /\ \A j \in DOMAIN q : kept[k][j] = q[j]
          BY <2>1, <3>1
        <4>3. DOMAIN kept[k] = DOMAIN q \union {Len(q) + 1}
          BY <4>1
        <4>4. ASSUME NEW e PROVE e \in ToSet(kept[k]) <=> e \in ToSet(q) \/ e = entries[k]
          BY <4>2, <4>3 DEF ToSet
        <4>5. kept[k] \in Seq(EntryOf(W))
          BY <2>1, <3>1
        <4>6. QED
          BY <4>4, <4>5
      <3>3. ASSUME OneEach(entries) PROVE OneEach(kept[k])
        <4>1. OneEach(q)
          BY <1>3, <3>3
        <4>2. ASSUME NEW j \in DOMAIN q PROVE q[j].who # entries[k].who
          <5>1. q[j] \in First(k - 1)
            BY <1>3 DEF ToSet
          <5>2. PICK i \in 1..(k - 1) : q[j] = entries[i]
            BY <5>1
          <5>3. i \in DOMAIN entries /\ i # k
            BY <2>1
          <5>4. QED
            BY <2>1, <3>3, <5>2, <5>3 DEF OneEach
        <4>3. \A j \in DOMAIN kept[k] : \/ j \in DOMAIN q /\ kept[k][j] = q[j]
                                        \/ j = Len(q) + 1 /\ kept[k][j] = entries[k]
          BY <2>1, <3>1
        <4>4. QED
          BY <4>1, <4>2, <4>3 DEF OneEach
      <3>4. ASSUME NEW e, OnlyOnce(entries, e) PROVE OnlyOnce(kept[k], e)
        <4>1. OnlyOnce(q, e)
          BY <1>3, <3>4
        <4>2. ASSUME NEW j \in DOMAIN q, q[j] = e PROVE entries[k] # e
          <5>1. q[j] \in First(k - 1)
            BY <1>3 DEF ToSet
          <5>2. PICK i \in 1..(k - 1) : q[j] = entries[i]
            BY <5>1
          <5>3. i \in DOMAIN entries /\ i # k
            BY <2>1
          <5>4. QED
            BY <2>1, <3>4, <4>2, <5>2, <5>3 DEF OnlyOnce
        <4>3. \A j \in DOMAIN kept[k] : \/ j \in DOMAIN q /\ kept[k][j] = q[j]
                                        \/ j = Len(q) + 1 /\ kept[k][j] = entries[k]
          BY <2>1, <3>1
        <4>4. QED
          BY <4>1, <4>2, <4>3 DEF OnlyOnce
      <3>5. QED
        BY <1>3, <2>2, <2>5, <3>2, <3>3, <3>4
    <2>6. QED
      BY <2>4, <2>5
  <1>4. Bad = {}
    <2> SUFFICES ASSUME Bad # {} PROVE FALSE
      OBVIOUS
    <2>1. Bad \in SUBSET Nat
      OBVIOUS
    <2> HIDE DEF Bad
    <2>2. PICK k \in Bad : \A m \in Bad : k <= m
      BY <2>1, LeastNat
    <2>3. k \in 0..n /\ ~Good(k)
      BY <2>2 DEF Bad
    <2> HIDE DEF Good
    <2>4. k # 0 /\ k \in 1..n
      BY <1>2, <2>3
    <2>5. k - 1 \in 0..n /\ k - 1 \notin Bad
      BY <2>1, <2>2, <2>4
    <2>6. Good(k - 1)
      BY <2>5 DEF Bad
    <2>7. QED
      BY <1>3, <2>3, <2>4, <2>6
  <1>5. Good(n)
    <2>1. n \in 0..n
      OBVIOUS
    <2> HIDE DEF Good
    <2>2. QED
      BY <1>4, <2>1
  <1>6. First(n) = ToSet(entries)
    BY DEF ToSet
  <1>7. QED
    BY <1>1, <1>5, <1>6
-----------------------------------------------------------------------------
(* The call stack: what each part of the invariant says of a stack says it *)
(* of the innermost call and of the calls below.                           *)

IsNotify(f, s) == f.op = "notify" /\ f.sig = s
Holds(f, s) == f.op = "drain" /\ s \in ToSet(f.rest)
NoRepeat(queue) == \A i, j \in DOMAIN queue : queue[i] = queue[j] => i = j

Batches(st) == {k \in DOMAIN st : st[k].op = "batch"}
BatchCount(st) == Cardinality(Batches(st))
Isolated(st) ==
  \A j, k \in DOMAIN st : st[j].op = "batch" /\ st[k].op \in {"notify", "drain"} => j < k
Notified(st, s) == \E k \in DOMAIN st : IsNotify(st[k], s)
NotifiedOnce(st, s) ==
  \A j, k \in DOMAIN st : IsNotify(st[j], s) /\ IsNotify(st[k], s) => j = k
Held(st, s) == \E k \in DOMAIN st : Holds(st[k], s)
HeldOnce(st, s) == \A j, k \in DOMAIN st : Holds(st[j], s) /\ Holds(st[k], s) => j = k

\* A stack with one call more.
Push(f, q) == <<f>> \o q

\* The longer stack is a stack, and gives back the call and the calls below it.
LEMMA Pushed ==
  ASSUME NEW F, NEW f \in F, NEW q \in Seq(F)
  PROVE  /\ Push(f, q) \in Seq(F) /\ Push(f, q) # <<>>
         /\ Head(Push(f, q)) = f /\ Tail(Push(f, q)) = q
         /\ ToSet(Push(f, q)) = {f} \union ToSet(q)
  <1>1. Push(f, q) \in Seq(F) /\ Len(Push(f, q)) = Len(q) + 1 /\ Len(q) \in Nat
    BY DEF Push
  <1>2. Push(f, q)[1] = f /\ \A k \in 1..Len(q) : Push(f, q)[k + 1] = q[k]
    BY DEF Push
  <1> HIDE DEF Push
  <1>3. Push(f, q) # <<>> /\ Head(Push(f, q)) = f
    BY <1>1, <1>2
  <1>4. Tail(Push(f, q)) = q
    <2>1. Tail(Push(f, q)) \in Seq(F) /\ Len(Tail(Push(f, q))) = Len(q)
      BY <1>1, <1>3
    <2>2. \A k \in 1..Len(q) : Tail(Push(f, q))[k] = q[k]
      BY <1>1, <1>2, <1>3
    <2>3. PICK r : r = Tail(Push(f, q))
      OBVIOUS
    <2>4. r \in Seq(F) /\ Len(r) = Len(q) /\ \A k \in 1..Len(q) : r[k] = q[k]
      BY <2>1, <2>2, <2>3
    <2>5. r = q
      BY <2>4
    <2>6. QED
      BY <2>3, <2>5
  <1>5. ToSet(Push(f, q)) = {f} \union ToSet(q)
    <2>1. DOMAIN Push(f, q) = 1..(Len(q) + 1) /\ DOMAIN q = 1..Len(q)
      BY <1>1
    <2>2. \A k \in 1..(Len(q) + 1) : k = 1 \/ (k - 1 \in 1..Len(q) /\ k = (k - 1) + 1)
      BY <1>1
    <2>3. PICK r : r = Push(f, q)
      OBVIOUS
    <2>4. ToSet(r) = {r[k] : k \in 1..(Len(q) + 1)}
      BY <2>1, <2>3 DEF ToSet
    <2>5. ToSet(q) = {q[k] : k \in 1..Len(q)}
      BY <2>1 DEF ToSet
    <2>6. r[1] = f /\ \A k \in 1..Len(q) : r[k + 1] = q[k]
      BY <1>2, <2>3
    <2>7. \A k \in 1..Len(q) : k + 1 \in 1..(Len(q) + 1)
      BY <1>1
    <2>8. 1 \in 1..(Len(q) + 1)
      BY <1>1
    <2>9. ToSet(r) \subseteq {f} \union ToSet(q)
      <3> SUFFICES ASSUME NEW k \in 1..(Len(q) + 1), k # 1 PROVE \E j \in 1..Len(q) : r[k] = q[j]
        BY <2>4, <2>5, <2>6
      <3>1. k - 1 \in 1..Len(q) /\ k = (k - 1) + 1
        BY <1>1
      <3>2. r[k] = q[k - 1]
        BY <2>6, <3>1
      <3>3. QED
        BY <3>1, <3>2
    <2>10. ToSet(q) \subseteq ToSet(r)
      BY <2>4, <2>5, <2>6, <2>7
    <2>11. f \in ToSet(r)
      BY <2>4, <2>6, <2>8
    <2>12. QED
      BY <2>3, <2>9, <2>10, <2>11
  <1>6. QED
    BY <1>1, <1>3, <1>4, <1>5

\* Where the calls of the longer stack are.
Places(f, q) ==
  /\ 1 \in DOMAIN Push(f, q) /\ Push(f, q)[1] = f
  /\ \A k \in DOMAIN q : /\ k \in Nat /\ k # 0
                         /\ k + 1 \in DOMAIN Push(f, q)
                         /\ Push(f, q)[k + 1] = q[k]
  /\ \A k \in DOMAIN Push(f, q) :
       k = 1 \/ \E i \in DOMAIN q : k = i + 1 /\ Push(f, q)[k] = q[i]

\* Its first place is the call, every other one is a place of the calls below.
LEMMA PushedPlaces ==
  ASSUME NEW F, NEW f \in F, NEW q \in Seq(F)
  PROVE  Places(f, q)
  <1>1. Push(f, q) \in Seq(F) /\ Len(Push(f, q)) = Len(q) + 1 /\ Len(q) \in Nat
    BY DEF Push
  <1>2. Push(f, q)[1] = f /\ \A k \in 1..Len(q) : Push(f, q)[k + 1] = q[k]
    BY DEF Push
  <1>3. DOMAIN Push(f, q) = 1..(Len(q) + 1) /\ DOMAIN q = 1..Len(q)
    BY <1>1
  <1>4. \A k \in 1..(Len(q) + 1) : k = 1 \/ (k - 1 \in 1..Len(q) /\ k = (k - 1) + 1)
    BY <1>1
  <1> HIDE DEF Push
  <1>5. 1 \in DOMAIN Push(f, q) /\ \A k \in DOMAIN q : k \in Nat /\ k # 0 /\ k + 1 \in DOMAIN Push(f, q)
    BY <1>1, <1>3
  <1>6. \A k \in DOMAIN Push(f, q) : k = 1 \/ \E i \in DOMAIN q : k = i + 1 /\ Push(f, q)[k] = q[i]
    <2> SUFFICES ASSUME NEW k \in 1..(Len(q) + 1), k # 1
                 PROVE  \E i \in 1..Len(q) : k = i + 1 /\ Push(f, q)[k] = q[i]
      BY <1>3
    <2>1. k - 1 \in 1..Len(q) /\ k = (k - 1) + 1
      BY <1>4
    <2>2. Push(f, q)[k] = q[k - 1]
      BY <1>2, <2>1
    <2>3. QED
      BY <2>1, <2>2
  <1>7. QED
    BY <1>2, <1>3, <1>5, <1>6 DEF Places


\* Any stack that is not empty is its innermost call on top of the others.
LEMMA Popped ==
  ASSUME NEW F, NEW st \in Seq(F), st # <<>>
  PROVE  Head(st) \in F /\ Tail(st) \in Seq(F) /\ st = Push(Head(st), Tail(st))
  <1>1. Head(st) \in F /\ Tail(st) \in Seq(F)
    OBVIOUS
  <1>2. PICK f, q : f = Head(st) /\ q = Tail(st)
    OBVIOUS
  <1>3. Len(st) \in Nat \ {0} /\ Len(q) = Len(st) - 1 /\ st[1] = f
    BY <1>2
  <1>4. Push(f, q) \in Seq(F) /\ Len(Push(f, q)) = Len(st)
    BY <1>1, <1>2, <1>3 DEF Push
  <1>5. \A k \in 1..Len(st) : Push(f, q)[k] = st[k]
    BY <1>1, <1>2, <1>3 DEF Push
  <1>6. Push(f, q) = st
    BY <1>4, <1>5
  <1>7. QED
    BY <1>1, <1>2, <1>6

\* A call adds to the count of batches if it is one, and keeps them isolated unless it
\* delivers something above one.
LEMMA BatchesPushed ==
  ASSUME NEW f \in Frame, NEW q \in Seq(Frame)
  PROVE  /\ BatchCount(q) \in Nat
         /\ BatchCount(Push(f, q)) = BatchCount(q) + (IF f.op = "batch" THEN 1 ELSE 0)
         /\ Isolated(Push(f, q)) <=> Isolated(q) /\ (f.op \in {"notify", "drain"} => BatchCount(q) = 0)
  <1> DEFINE Up == {k + 1 : k \in Batches(q)}
  <1>0. Places(f, q)
    BY PushedPlaces
  <1>1. IsFiniteSet(Batches(q)) /\ BatchCount(q) \in Nat
    <2>1. DOMAIN q = 1..Len(q) /\ Len(q) \in Nat
      OBVIOUS
    <2>2. IsFiniteSet(DOMAIN q)
      BY <2>1, FS_Interval
    <2>3. Batches(q) \subseteq DOMAIN q
      BY DEF Batches
    <2>4. QED
      BY <2>2, <2>3, FS_Subset, FS_CardinalityType DEF BatchCount
  <1>2. \A k \in Batches(q) : k \in Nat /\ k # 0
    BY DEF Batches
  <1>3. IsFiniteSet(Up) /\ Cardinality(Up) = BatchCount(q)
    <2>1. PICK g : g = [k \in Batches(q) |-> k + 1]
      OBVIOUS
    <2>2. g \in Bijection(Batches(q), Up)
      <3>1. g \in [Batches(q) -> Up] /\ \A k \in Batches(q) : g[k] = k + 1
        BY <2>1
      <3>2. \A j, k \in Batches(q) : g[j] = g[k] => j = k
        BY <1>2, <3>1
      <3>3. \A u \in Up : \E k \in Batches(q) : g[k] = u
        BY <3>1
      <3> HIDE DEF Up
      <3>4. QED
        BY <3>1, <3>2, <3>3, Fun_IsBij
    <2> HIDE DEF Up
    <2>3. ExistsBijection(Batches(q), Up)
      BY <2>2 DEF ExistsBijection
    <2>4. QED
      BY <1>1, <2>3, FS_Bijection DEF BatchCount
  <1>4. Batches(Push(f, q)) = IF f.op = "batch" THEN Up \union {1} ELSE Up
    BY <1>0 DEF Batches, Places
  <1>5. 1 \notin Up
    BY <1>2
  <1> HIDE DEF Up
  <1>6. BatchCount(Push(f, q)) = BatchCount(q) + (IF f.op = "batch" THEN 1 ELSE 0)
    <2>1. CASE f.op = "batch"
      <3>1. Cardinality(Up \union {1}) = Cardinality(Up) + 1
        BY <1>3, <1>5, FS_AddElement
      <3>2. BatchCount(Push(f, q)) = Cardinality(Up \union {1})
        BY <1>4, <2>1 DEF BatchCount
      <3>3. QED
        BY <1>3, <2>1, <3>1, <3>2
    <2>2. CASE f.op # "batch"
      <3>1. BatchCount(Push(f, q)) = Cardinality(Up)
        BY <1>4, <2>2 DEF BatchCount
      <3>2. QED
        BY <1>1, <1>3, <2>2, <3>1
    <2>3. QED
      BY <2>1, <2>2
  <1>7. BatchCount(q) = 0 <=> Batches(q) = {}
    BY <1>1, FS_EmptySet DEF BatchCount
  <1>8. ASSUME Isolated(Push(f, q))
        PROVE  Isolated(q) /\ (f.op \in {"notify", "drain"} => Batches(q) = {})
    <2>1. Isolated(q)
      <3>1. \A j, k \in DOMAIN q : j + 1 < k + 1 => j < k
        BY <1>0 DEF Places
      <3>2. QED
        BY <1>0, <1>8, <3>1 DEF Isolated, Places
    <2>2. ASSUME f.op \in {"notify", "drain"}, NEW k \in Batches(q) PROVE FALSE
      <3>1. k + 1 \in DOMAIN Push(f, q) /\ Push(f, q)[k + 1].op = "batch" /\ k \in Nat
        BY <1>0 DEF Batches, Places
      <3>2. k + 1 < 1
        BY <1>0, <1>8, <2>2, <3>1 DEF Isolated, Places
      <3>3. QED
        BY <3>1, <3>2
    <2>3. QED
      BY <2>1, <2>2
  <1>9. ASSUME Isolated(q), f.op \in {"notify", "drain"} => Batches(q) = {}
        PROVE  Isolated(Push(f, q))
    <2> SUFFICES ASSUME NEW j \in DOMAIN Push(f, q), NEW k \in DOMAIN Push(f, q),
                        Push(f, q)[j].op = "batch", Push(f, q)[k].op \in {"notify", "drain"}
                 PROVE  j < k
      BY DEF Isolated
    <2>1. CASE k = 1
      <3>1. Batches(q) = {} /\ f.op # "batch"
        BY <1>0, <1>9, <2>1 DEF Places
      <3>2. \E i \in DOMAIN q : Push(f, q)[j] = q[i]
        BY <1>0, <3>1 DEF Places
      <3>3. QED
        BY <3>1, <3>2 DEF Batches
    <2>2. CASE k # 1
      <3>1. PICK i \in DOMAIN q : Push(f, q)[k] = q[i] /\ k = i + 1
        BY <1>0, <2>2 DEF Places
      <3>2. i \in Nat /\ i # 0
        BY <1>0 DEF Places
      <3>3. CASE j = 1
        BY <3>1, <3>2, <3>3
      <3>4. CASE j # 1
        <4>1. PICK h \in DOMAIN q : Push(f, q)[j] = q[h] /\ j = h + 1
          BY <1>0, <3>4 DEF Places
        <4>2. h < i
          BY <1>9, <3>1, <4>1 DEF Isolated
        <4>3. h \in Nat
          BY <1>0 DEF Places
        <4>4. QED
          BY <3>1, <3>2, <4>1, <4>2, <4>3
      <3>5. QED
        BY <3>3, <3>4
    <2>3. QED
      BY <2>1, <2>2
  <1>10. Isolated(Push(f, q)) <=> Isolated(q) /\ (f.op \in {"notify", "drain"} => BatchCount(q) = 0)
    BY <1>7, <1>8, <1>9
  <1>11. QED
    BY <1>1, <1>6, <1>10

\* A call is notifying a signal if it is the innermost one or one below.
LEMMA NotifiedPushed ==
  ASSUME NEW f \in Frame, NEW q \in Seq(Frame), NEW s
  PROVE  /\ Notified(Push(f, q), s) <=> IsNotify(f, s) \/ Notified(q, s)
         /\ NotifiedOnce(Push(f, q), s) <=> NotifiedOnce(q, s) /\ ~(IsNotify(f, s) /\ Notified(q, s))
  <1>1. Places(f, q)
    BY PushedPlaces
  <1>2. Notified(Push(f, q), s) <=> IsNotify(f, s) \/ Notified(q, s)
    BY <1>1 DEF Notified, Places
  <1>3. ASSUME NotifiedOnce(Push(f, q), s)
        PROVE  NotifiedOnce(q, s) /\ ~(IsNotify(f, s) /\ Notified(q, s))
    BY <1>1, <1>3 DEF Notified, NotifiedOnce, Places
  <1>4. ASSUME NotifiedOnce(q, s), ~(IsNotify(f, s) /\ Notified(q, s))
        PROVE  NotifiedOnce(Push(f, q), s)
    BY <1>1, <1>4 DEF Notified, NotifiedOnce, Places
  <1>5. QED
    BY <1>2, <1>3, <1>4

\* A signal is held by the innermost call or by one below.
LEMMA HeldPushed ==
  ASSUME NEW f \in Frame, NEW q \in Seq(Frame), NEW s
  PROVE  /\ Held(Push(f, q), s) <=> Holds(f, s) \/ Held(q, s)
         /\ HeldOnce(Push(f, q), s) <=> HeldOnce(q, s) /\ ~(Holds(f, s) /\ Held(q, s))
  <1>1. Places(f, q)
    BY PushedPlaces
  <1>2. Held(Push(f, q), s) <=> Holds(f, s) \/ Held(q, s)
    BY <1>1 DEF Held, Places
  <1>3. ASSUME HeldOnce(Push(f, q), s) PROVE HeldOnce(q, s) /\ ~(Holds(f, s) /\ Held(q, s))
    BY <1>1, <1>3 DEF Held, HeldOnce, Places
  <1>4. ASSUME HeldOnce(q, s), ~(Holds(f, s) /\ Held(q, s)) PROVE HeldOnce(Push(f, q), s)
    BY <1>1, <1>4 DEF Held, HeldOnce, Places
  <1>5. QED
    BY <1>2, <1>3, <1>4
-----------------------------------------------------------------------------
(* Calls *)
\* The fields of a notify call.
LEMMA NotifyFields ==
  ASSUME NEW f \in Frame, f.op = "notify"
  PROVE  /\ f.sig \in Signal /\ f.pass \in Nat /\ f.i \in Nat /\ f.n \in Nat
         /\ f.todo \in SUBSET Listener
  BY DEF Frame

\* The fields of a drain call.
LEMMA DrainFields ==
  ASSUME NEW f \in Frame, f.op = "drain"
  PROVE  f.rest \in Seq(Signal) /\ f.rethrow \in BOOLEAN
  BY DEF Frame

\* The pass at the next entry.
Stepped(f, x) == [f EXCEPT !.i = @ + 1, !.todo = @ \ {x}]

\* A pass that moves on is the same pass, one entry further.
LEMMA SteppedFields ==
  ASSUME NEW f \in Frame, f.op = "notify", NEW x
  PROVE  /\ Stepped(f, x) \in Frame /\ Stepped(f, x).op = "notify"
         /\ Stepped(f, x).sig = f.sig /\ Stepped(f, x).n = f.n
         /\ Stepped(f, x).i = f.i + 1 /\ Stepped(f, x).todo = f.todo \ {x}
  <1>1. f \in [op : {"notify"}, sig : Signal, pass : Nat, i : Nat, n : Nat, todo : SUBSET Listener]
    BY DEF Frame
  <1>2. f.i + 1 \in Nat /\ f.todo \ {x} \in SUBSET Listener
    BY <1>1
  <1>3. Stepped(f, x) \in [op : {"notify"}, sig : Signal, pass : Nat, i : Nat, n : Nat,
                           todo : SUBSET Listener]
    BY <1>1, <1>2 DEF Stepped
  <1>4. QED
    BY <1>1, <1>3 DEF Stepped, Frame

\* A drain that has something else to deliver.
Holding(f, rest) == [f EXCEPT !.rest = rest]

\* A drain that takes another queue is still a drain.
LEMMA HoldingFields ==
  ASSUME NEW f \in Frame, f.op = "drain", NEW rest \in Seq(Signal)
  PROVE  /\ Holding(f, rest) \in Frame /\ Holding(f, rest).op = "drain"
         /\ Holding(f, rest).rest = rest
  <1>1. f \in [op : {"drain"}, rest : Seq(Signal), rethrow : BOOLEAN]
    BY DEF Frame
  <1>2. Holding(f, rest) \in [op : {"drain"}, rest : Seq(Signal), rethrow : BOOLEAN]
    BY <1>1 DEF Holding
  <1>3. QED
    BY <1>1, <1>2 DEF Holding, Frame

\* The calls that are made, but for notify, are calls.
LEMMA NewFrames ==
  /\ [op |-> "batch"] \in Frame /\ [op |-> "batch"].op = "batch"
  /\ [op |-> "recover"] \in Frame /\ [op |-> "recover"].op = "recover"
  /\ \A x \in Listener : /\ [op |-> "call", who |-> x] \in Frame
                         /\ [op |-> "call", who |-> x].op = "call"
  /\ \A rest \in Seq(Signal), b \in BOOLEAN :
       /\ [op |-> "drain", rest |-> rest, rethrow |-> b] \in Frame
       /\ [op |-> "drain", rest |-> rest, rethrow |-> b].op = "drain"
       /\ [op |-> "drain", rest |-> rest, rethrow |-> b].rest = rest
  BY DEF Frame
-----------------------------------------------------------------------------
(* Registrations *)

LiveIn(entries) == {x \in Listener : [who |-> x, dead |-> FALSE] \in ToSet(entries)}
Whos(entries) == {entry.who : entry \in ToSet(entries)}

\* Live listeners are registered ones, and have an entry that is not dead.
LEMMA EntriesFacts ==
  ASSUME NEW entries \in Seq(Entry)
  PROVE  /\ LiveIn(entries) \subseteq Whos(entries)
         /\ Whos(entries) \subseteq Listener
         /\ \A k \in DOMAIN entries : /\ entries[k].who \in Whos(entries)
                                      /\ ~entries[k].dead <=> entries[k] = [who |-> entries[k].who, dead |-> FALSE]
                                      /\ ~entries[k].dead => entries[k].who \in LiveIn(entries)
         /\ \A x \in LiveIn(entries) : \E k \in DOMAIN entries : entries[k].who = x /\ ~entries[k].dead
  <1>1. \A k \in DOMAIN entries : entries[k] \in Entry /\ entries[k] \in ToSet(entries)
    BY DEF ToSet
  <1>2. \A e \in ToSet(entries) : \E k \in DOMAIN entries : e = entries[k]
    BY DEF ToSet
  <1>3. \A e \in Entry : /\ e.who \in Listener /\ e.dead \in BOOLEAN
                         /\ ~e.dead <=> e = [who |-> e.who, dead |-> FALSE]
    BY DEF Entry, EntryOf
  <1>4. \A x : [who |-> x, dead |-> FALSE].who = x /\ ~[who |-> x, dead |-> FALSE].dead
    OBVIOUS
  <1>5. \A k \in DOMAIN entries :
          /\ entries[k].who \in Whos(entries)
          /\ ~entries[k].dead <=> entries[k] = [who |-> entries[k].who, dead |-> FALSE]
          /\ ~entries[k].dead => entries[k].who \in LiveIn(entries)
    BY <1>1, <1>3 DEF LiveIn, Whos
  <1>6. \A x \in LiveIn(entries) : \E k \in DOMAIN entries : entries[k].who = x /\ ~entries[k].dead
    BY <1>2, <1>4 DEF LiveIn
  <1>7. LiveIn(entries) \subseteq Whos(entries)
    BY <1>4 DEF LiveIn, Whos
  <1>8. Whos(entries) \subseteq Listener
    BY <1>1, <1>2, <1>3 DEF Whos
  <1>9. QED
    BY <1>5, <1>6, <1>7, <1>8

\* compact keeps who is live and adds nobody (signal.go:104-122).
LEMMA CompactedFacts ==
  ASSUME NEW entries \in Seq(Entry)
  PROVE  /\ Compacted(entries) \in Seq(Entry)
         /\ OneEach(entries) => OneEach(Compacted(entries))
         /\ LiveIn(Compacted(entries)) = LiveIn(entries)
         /\ Whos(Compacted(entries)) \subseteq Whos(entries)
  <1>1. /\ LiveOnes(entries) \in Seq(Entry)
        /\ ToSet(LiveOnes(entries)) = {e \in ToSet(entries) : ~e.dead}
        /\ OneEach(entries) => OneEach(LiveOnes(entries))
    BY LiveOnesFacts DEF Entry, EntryOf
  <1>2. LiveIn(LiveOnes(entries)) = LiveIn(entries)
    BY <1>1 DEF LiveIn
  <1>3. Whos(LiveOnes(entries)) \subseteq Whos(entries)
    BY <1>1 DEF Whos
  <1>4. Compacted(entries) = LiveOnes(entries) \/ Compacted(entries) = entries
    BY DEF Compacted
  <1>5. QED
    BY <1>1, <1>2, <1>3, <1>4

\* Marking an entry dead moves none (signal.go:90-97).
LEMMA MarkedFacts ==
  ASSUME NEW entries \in Seq(Entry), NEW x \in Listener
  PROVE  /\ Marked(entries, x) \in Seq(Entry)
         /\ Len(Marked(entries, x)) = Len(entries) /\ DOMAIN Marked(entries, x) = DOMAIN entries
         /\ \A k \in DOMAIN entries : /\ Marked(entries, x)[k].who = entries[k].who
                                      /\ ~Marked(entries, x)[k].dead => ~entries[k].dead
         /\ OneEach(entries) => OneEach(Marked(entries, x))
         /\ LiveIn(Marked(entries, x)) = LiveIn(entries) \ {x}
         /\ Whos(Marked(entries, x)) \subseteq Whos(entries)
  <1>1. DOMAIN entries = 1..Len(entries) /\ \A k \in DOMAIN entries : entries[k] \in Entry
    OBVIOUS
  <1>2. [who |-> x, dead |-> TRUE] \in Entry
    BY DEF Entry, EntryOf
  <1>3. DOMAIN Marked(entries, x) = DOMAIN entries
    BY DEF Marked
  <1>4. \A k \in DOMAIN entries :
          Marked(entries, x)[k] = IF entries[k].who = x THEN [who |-> x, dead |-> TRUE] ELSE entries[k]
    BY DEF Marked
  <1>5. Marked(entries, x) \in Seq(Entry)
    BY <1>1, <1>2 DEF Marked
  <1>6. Len(Marked(entries, x)) = Len(entries)
    BY <1>1, <1>3, <1>5
  <1>7. \A k \in DOMAIN entries : /\ Marked(entries, x)[k].who = entries[k].who
                                  /\ ~Marked(entries, x)[k].dead => ~entries[k].dead
    BY <1>4
  <1>8. OneEach(entries) => OneEach(Marked(entries, x))
    BY <1>3, <1>7 DEF OneEach
  <1>9. LiveIn(Marked(entries, x)) \subseteq LiveIn(entries) \ {x}
    <2> SUFFICES ASSUME NEW y \in LiveIn(Marked(entries, x)) PROVE y \in LiveIn(entries) /\ y # x
      OBVIOUS
    <2>1. PICK k \in DOMAIN entries : Marked(entries, x)[k].who = y /\ ~Marked(entries, x)[k].dead
      BY <1>3, <1>5, EntriesFacts
    <2>2. entries[k].who = y /\ ~entries[k].dead
      BY <1>7, <2>1
    <2>3. y # x
      BY <1>4, <2>1, <2>2
    <2>4. QED
      BY <2>2, <2>3, EntriesFacts
  <1>10. LiveIn(entries) \ {x} \subseteq LiveIn(Marked(entries, x))
    <2> SUFFICES ASSUME NEW y \in LiveIn(entries), y # x PROVE y \in LiveIn(Marked(entries, x))
      OBVIOUS
    <2>1. PICK k \in DOMAIN entries : entries[k].who = y /\ ~entries[k].dead
      BY EntriesFacts
    <2>2. Marked(entries, x)[k] = entries[k]
      BY <1>4, <2>1
    <2>3. QED
      BY <1>3, <1>5, <2>1, <2>2, EntriesFacts
  <1>11. Whos(Marked(entries, x)) \subseteq Whos(entries)
    BY <1>3, <1>7 DEF Whos, ToSet
  <1>12. QED
    BY <1>3, <1>5, <1>6, <1>7, <1>8, <1>9, <1>10, <1>11

\* The function Subscribe returns removes its listener and touches no other.
LEMMA RemovedFacts ==
  ASSUME NEW s, NEW entries \in Seq(Entry), NEW x \in Listener
  PROVE  /\ Removed(s, entries, x) \in Seq(Entry)
         /\ OneEach(entries) => OneEach(Removed(s, entries, x))
         /\ LiveIn(Removed(s, entries, x)) = LiveIn(entries) \ {x}
         /\ Whos(Removed(s, entries, x)) \subseteq Whos(entries)
  <1>1. PICK m : m = Marked(entries, x)
    OBVIOUS
  <1>2. /\ m \in Seq(Entry)
        /\ OneEach(entries) => OneEach(m)
        /\ LiveIn(m) = LiveIn(entries) \ {x} /\ Whos(m) \subseteq Whos(entries)
    BY <1>1, MarkedFacts
  <1>3. /\ Compacted(m) \in Seq(Entry)
        /\ OneEach(m) => OneEach(Compacted(m))
        /\ LiveIn(Compacted(m)) = LiveIn(m) /\ Whos(Compacted(m)) \subseteq Whos(m)
    BY <1>2, CompactedFacts
  <1>4. Removed(s, entries, x) = m \/ Removed(s, entries, x) = Compacted(m)
    BY <1>1 DEF Removed
  <1>5. QED
    BY <1>2, <1>3, <1>4

\* Subscribe adds one live entry at the end.
LEMMA AppendedFacts ==
  ASSUME NEW entries \in Seq(Entry), NEW x \in Listener
  PROVE  LET longer == Append(entries, [who |-> x, dead |-> FALSE])
         IN  /\ longer \in Seq(Entry)
             /\ Len(longer) = Len(entries) + 1 /\ \A k \in DOMAIN entries : longer[k] = entries[k]
             /\ OneEach(entries) /\ x \notin Whos(entries) => OneEach(longer)
             /\ LiveIn(longer) = LiveIn(entries) \union {x}
             /\ Whos(longer) = Whos(entries) \union {x}
  <1>1. PICK e : e = [who |-> x, dead |-> FALSE]
    OBVIOUS
  <1>2. e \in Entry /\ e.who = x /\ ~e.dead
    BY <1>1 DEF Entry, EntryOf
  <1>3. PICK longer : longer = Append(entries, e)
    OBVIOUS
  <1>4. /\ longer \in Seq(Entry) /\ Len(longer) = Len(entries) + 1 /\ longer[Len(entries) + 1] = e
        /\ Len(entries) \in Nat /\ \A k \in 1..Len(entries) : longer[k] = entries[k]
    BY <1>2, <1>3
  <1>5. DOMAIN longer = 1..(Len(entries) + 1) /\ DOMAIN entries = 1..Len(entries)
    BY <1>4
  <1>6. \A k \in DOMAIN longer : k \in DOMAIN entries \/ k = Len(entries) + 1
    BY <1>4, <1>5
  <1>7. \A k \in DOMAIN entries : k \in DOMAIN longer
    BY <1>4, <1>5
  <1>8. ToSet(longer) = ToSet(entries) \union {e}
    <2>1. Len(entries) + 1 \in DOMAIN longer
      BY <1>4, <1>5
    <2>2. QED
      BY <1>4, <1>5, <1>6, <1>7, <2>1 DEF ToSet
  <1>9. OneEach(entries) /\ x \notin Whos(entries) => OneEach(longer)
    <2>1. \A k \in DOMAIN entries : entries[k].who \in Whos(entries)
      BY EntriesFacts
    <2>2. QED
      BY <1>2, <1>4, <1>5, <1>6, <2>1 DEF OneEach
  <1>10. LiveIn(longer) = LiveIn(entries) \union {x}
    <2>1. \A y : [who |-> y, dead |-> FALSE] = e <=> y = x
      BY <1>1
    <2>2. QED
      BY <1>8, <2>1 DEF LiveIn
  <1>11. Whos(longer) = Whos(entries) \union {x}
    BY <1>2, <1>8 DEF Whos
  <1>12. QED
    BY <1>1, <1>3, <1>4, <1>5, <1>9, <1>10, <1>11
-----------------------------------------------------------------------------
(* The inductive invariant *)

TypeOK ==
  /\ value \in [Signal -> Value]
  /\ subs \in [Signal -> Seq(Entry)]
  /\ notifying \in [Signal -> BOOLEAN]
  /\ dirty \in [Signal -> BOOLEAN]
  /\ queued \in [Signal -> BOOLEAN]
  /\ batchDepth \in Nat
  /\ batchQueue \in Seq(Signal)
  /\ stack \in Seq(Frame)
  /\ panicking \in BOOLEAN
  /\ seen \in [Listener -> Value \union {Unseen}]

\* Every Batch under way is above the notifications under way, and counted.
BatchInv ==
  /\ batchDepth = BatchCount(stack)
  /\ Isolated(stack)
  /\ batchDepth = 0 => batchQueue = <<>>

\* A signal is marked while one notification of it is on the stack.
NotifyFits(st, marked) ==
  \A s \in Signal :
    /\ NotifiedOnce(st, s)
    /\ marked[s] => Notified(st, s)
    /\ Notified(st, s) => marked[s]

NotifyInv == NotifyFits(stack, notifying)

\* A marked signal waits at one place of queue or of a drain, unless it was lost.
QueueFits(st, queue, marked, lost) ==
  /\ NoRepeat(queue)
  /\ \A f \in ToSet(st) : f.op = "drain" => NoRepeat(f.rest)
  /\ \A s \in Signal :
       /\ HeldOnce(st, s)
       /\ ~(s \in ToSet(queue) /\ Held(st, s))
       /\ marked[s] /\ s \notin lost => s \in ToSet(queue) \/ Held(st, s)
       /\ s \in ToSet(queue) \/ Held(st, s) => marked[s] /\ s \notin lost
       /\ s \in lost => marked[s]

QueueInv == QueueFits(stack, batchQueue, queued, stranded)

\* Nobody is registered twice, on one signal or on two.
RegisteredInv ==
  /\ \A s \in Signal : OneEach(subs[s])
  /\ \A s, t \in Signal : s # t => Whos(subs[s]) \intersect Whos(subs[t]) = {}

\* What a pass has still to run stands where it has not been yet.
Covers(f, entries) ==
  /\ f.n <= Len(entries)
  /\ 1 <= f.i
  /\ f.i <= f.n + 1
  /\ \A j \in f.i..f.n : ~entries[j].dead => entries[j].who \in f.todo
  /\ \A x \in f.todo : \E j \in f.i..f.n : entries[j].who = x

PassInv == \A f \in ToSet(stack) : f.op = "notify" => Covers(f, subs[f.sig])

\* Who has not seen the value of a signal will be told: at the end of the Batch, by
\* the next pass, or later in this one.
Coming(st, s, x) == \E f \in ToSet(st) : IsNotify(f, s) /\ x \in f.todo
WillSee(s, x) ==
  \/ seen[x] = value[s]
  \/ queued[s]
  \/ notifying[s] /\ dirty[s]
  \/ Coming(stack, s, x)

ToldInv ==
  \A s \in Signal : s \notin cut /\ s \notin stranded =>
    \A x \in LiveIn(subs[s]) : WillSee(s, x)

SignalsInv == TypeOK /\ BatchInv /\ NotifyInv /\ QueueInv /\ RegisteredInv /\ PassInv /\ ToldInv
-----------------------------------------------------------------------------
(* Every value has its type. *)
\* A call that runs is the head of the stack.
LEMMA TopFrame ==
  ASSUME TypeOK, Top.op # "loop"
  PROVE  /\ Top \in Frame /\ Below \in Seq(Frame)
         /\ stack = Push(Top, Below)
  <1>1. stack # <<>> /\ Top = Head(stack)
    BY DEF Top
  <1>2. stack \in Seq(Frame)
    BY DEF TypeOK
  <1>3. QED
    BY <1>1, <1>2, Popped DEF Below

\* A new pass is to run every live subscriber, from the first entry to the last.
LEMMA NewNotify ==
  ASSUME TypeOK, NEW s \in Signal, NEW pass \in Nat
  PROVE  /\ NotifyFrame(s, pass) \in Frame
         /\ NotifyFrame(s, pass).op = "notify" /\ NotifyFrame(s, pass).sig = s
         /\ NotifyFrame(s, pass).i = 1 /\ NotifyFrame(s, pass).n = Len(subs[s])
         /\ NotifyFrame(s, pass).todo = LiveIn(subs[s])
  <1>1. subs[s] \in Seq(Entry)
    BY DEF TypeOK
  <1>2. LiveOf(s) = LiveIn(subs[s])
    <2>1. {entry.who : entry \in ToSet(subs[s])} \subseteq Listener
      BY <1>1, EntriesFacts DEF Whos
    <2>2. \A x : [who |-> x, dead |-> FALSE].who = x
      OBVIOUS
    <2>3. QED
      BY <2>1, <2>2 DEF LiveOf, LiveIn, IsLive
  <1>3. LiveIn(subs[s]) \subseteq Listener /\ Len(subs[s]) \in Nat
    BY <1>1 DEF LiveIn
  <1>4. QED
    BY <1>2, <1>3 DEF NotifyFrame, Frame


\* What notify does first (signal.go:172-190): it starts a pass, or marks the running one.
LEMMA NotifyStep ==
  ASSUME TypeOK, NEW s \in Signal, NEW below \in Seq(Frame), Notify(s, below)
  PROVE  \/ /\ notifying[s]
            /\ stack' = below
            /\ dirty' = [dirty EXCEPT ![s] = TRUE]
            /\ UNCHANGED <<notifying, cut>>
         \/ /\ ~notifying[s]
            /\ stack' = Push(NotifyFrame(s, 0), below)
            /\ NotifyFrame(s, 0) \in Frame
            /\ notifying' = [notifying EXCEPT ![s] = TRUE]
            /\ dirty' = [dirty EXCEPT ![s] = FALSE]
            /\ cut' = cut \ {s}
  BY NewNotify DEF Notify, Push


\* What publish does: it queues the signal or notifies it.
LEMMA PublishStep ==
  ASSUME NEW s \in Signal, NEW below, Publish(s, below)
  PROVE  \/ /\ Deferring
            /\ stack' = below
            /\ queued' = [queued EXCEPT ![s] = TRUE]
            /\ queued[s] => batchQueue' = batchQueue
            /\ ~queued[s] => batchQueue' = Append(batchQueue, s)
            /\ UNCHANGED <<notifying, dirty, cut>>
         \/ /\ ~Deferring
            /\ Notify(s, below)
            /\ UNCHANGED <<queued, batchQueue>>
  BY DEF Publish


\* What a pass does with one entry: it passes over a dead one and calls a live one.
LEMMA NotifyNextStep ==
  ASSUME TypeOK, RegisteredInv, PassInv, NotifyNext(value)
  PROVE  LET entry == subs[Top.sig][Top.i]
         IN  /\ Top.op = "notify" /\ Top.sig \in Signal
             /\ Top.i \in DOMAIN subs[Top.sig] /\ Top.i \in Nat /\ Top.i <= Top.n
             /\ entry \in Entry
             /\ \/ entry.dead /\ stack' = Push(Stepped(Top, entry.who), Below) /\ seen' = seen
                \/ /\ ~entry.dead
                   /\ stack' = Push([op |-> "call", who |-> entry.who],
                                    Push(Stepped(Top, entry.who), Below))
                   /\ seen' = [seen EXCEPT ![entry.who] = value[Top.sig]]
  <1>1. Top.op = "notify" /\ Top.i <= Top.n
    BY DEF NotifyNext
  <1>2. Top \in Frame /\ Below \in Seq(Frame) /\ stack = Push(Top, Below)
    BY <1>1, TopFrame
  <1>3. Top.sig \in Signal /\ Top.i \in Nat /\ Top.n \in Nat
    BY <1>1, <1>2, NotifyFields
  <1>4. Top \in ToSet(stack)
    BY <1>2, Pushed
  <1>5. Covers(Top, subs[Top.sig])
    BY <1>1, <1>4 DEF PassInv
  <1>6. subs[Top.sig] \in Seq(Entry)
    BY <1>3 DEF TypeOK
  <1>7. Top.i \in DOMAIN subs[Top.sig]
    BY <1>1, <1>3, <1>5, <1>6 DEF Covers
  <1>8. subs[Top.sig][Top.i] \in Entry
    BY <1>6, <1>7
  <1>9. subs[Top.sig][Top.i].who \in Listener
    BY <1>8 DEF Entry, EntryOf
  <1>10. QED
    BY <1>1, <1>3, <1>7, <1>8, <1>9 DEF NotifyNext, Advance, Push, Stepped

\* What endBatch does: it turns the queue into a drain at the end of the outermost Batch.
LEMMA EndBatchStep ==
  ASSUME TypeOK, EndBatch
  PROVE  /\ Top.op = "batch" /\ batchDepth' = batchDepth - 1
         /\ \/ /\ batchDepth = 1
               /\ stack' = Push([op |-> "drain", rest |-> batchQueue, rethrow |-> panicking], Below)
               /\ batchQueue' = <<>>
               /\ panicking' = FALSE
            \/ /\ ~(batchDepth = 1 /\ batchQueue # <<>>)
               /\ stack' = Below
               /\ UNCHANGED <<batchQueue, panicking>>
  BY DEF EndBatch, MustFlush, Push

\* What flushBatched does with the head of its queue: it notifies it.
LEMMA DrainNextStep ==
  ASSUME TypeOK, DrainNext
  PROVE  LET s == Head(Top.rest)
         IN  /\ Top.op = "drain" /\ Top.rest \in Seq(Signal) /\ Top.rest # <<>>
             /\ s \in Signal /\ Tail(Top.rest) \in Seq(Signal)
             /\ Notify(s, Push(Holding(Top, Tail(Top.rest)), Below))
             /\ Push(Holding(Top, Tail(Top.rest)), Below) \in Seq(Frame)
             /\ queued' = [queued EXCEPT ![s] = FALSE]
  <1>1. Top.op = "drain" /\ Top.rest # <<>>
    BY DEF DrainNext
  <1>2. Top \in Frame /\ Below \in Seq(Frame)
    BY <1>1, TopFrame
  <1>3. Top.rest \in Seq(Signal)
    BY <1>1, <1>2, DrainFields
  <1>4. Head(Top.rest) \in Signal /\ Tail(Top.rest) \in Seq(Signal)
    BY <1>1, <1>3
  <1>5. Holding(Top, Tail(Top.rest)) \in Frame
    BY <1>1, <1>2, <1>4, HoldingFields
  <1>6. Push(Holding(Top, Tail(Top.rest)), Below) \in Seq(Frame)
    BY <1>2, <1>5, Pushed
  <1>7. QED
    BY <1>1, <1>3, <1>4, <1>6 DEF DrainNext, Dequeued, Push, Holding

\* What flushBatched does at the end of its queue.
LEMMA DrainEndStep ==
  ASSUME TypeOK, DrainEnd
  PROVE  /\ Top.op = "drain" /\ Top.rest = <<>> /\ batchQueue' = <<>>
         /\ \/ stack' = Push(Holding(Top, batchQueue), Below) /\ panicking' = panicking
            \/ batchQueue = <<>> /\ stack' = Below /\ panicking' = Top.rethrow
  BY DEF DrainEnd, Push, Holding

\* What notify does after a pass: it starts another one or ends.
LEMMA NotifyPassEndStep ==
  ASSUME TypeOK, NotifyPassEnd
  PROVE  /\ Top.op = "notify" /\ Top.sig \in Signal /\ Top.i > Top.n
         /\ \/ /\ dirty[Top.sig]
               /\ dirty' = [dirty EXCEPT ![Top.sig] = FALSE]
               /\ stack' = Push(NotifyFrame(Top.sig, Top.pass + 1), Below)
               /\ Top.pass + 1 \in Nat
               /\ UNCHANGED <<subs, notifying, cut>>
            \/ /\ notifying' = [notifying EXCEPT ![Top.sig] = FALSE]
               /\ subs' = [subs EXCEPT ![Top.sig] = Compacted(@)]
               /\ stack' = Below
               /\ dirty' = dirty
               /\ dirty[Top.sig] => cut' = cut \union {Top.sig}
               /\ ~dirty[Top.sig] => cut' = cut
  <1>1. Top.op = "notify"
    BY DEF NotifyPassEnd
  <1>2. Top \in Frame
    BY <1>1, TopFrame
  <1>3. Top.sig \in Signal /\ Top.pass \in Nat
    BY <1>1, <1>2, NotifyFields
  <1>4. Top.pass + 1 \in Nat
    BY <1>3
  <1>5. QED
    BY <1>1, <1>3, <1>4 DEF NotifyPassEnd, EndNotify, Push

\* Every step keeps the types.
LEMMA TypeStep ==
  ASSUME TypeOK, BatchInv, RegisteredInv, PassInv, [Next]_vars
  PROVE  TypeOK'
  <1>1. ASSUME NEW s \in Signal, NEW v \in Value, Set(s, v) PROVE TypeOK'
    <2>1. Publish(s, stack) /\ value' = [value EXCEPT ![s] = v]
      BY <1>1 DEF Set, TypeOK
    <2>2. UNCHANGED <<subs, batchDepth, panicking, seen>>
      BY <1>1 DEF Set, TypeOK
    <2>3. CASE Deferring /\ stack' = stack /\ queued' = [queued EXCEPT ![s] = TRUE]
               /\ UNCHANGED <<notifying, dirty>>
               /\ (queued[s] => batchQueue' = batchQueue)
               /\ (~queued[s] => batchQueue' = Append(batchQueue, s))
      <3>1. batchQueue' \in Seq(Signal)
        <4>1. batchQueue \in Seq(Signal) /\ Append(batchQueue, s) \in Seq(Signal)
          BY DEF TypeOK
        <4>2. QED
          BY <2>3, <4>1
      <3>2. queued' \in [Signal -> BOOLEAN]
        BY <2>3 DEF TypeOK
      <3>3. QED
        BY <2>1, <2>2, <2>3, <3>1, <3>2 DEF TypeOK
    <2>4. CASE Notify(s, stack) /\ UNCHANGED <<queued, batchQueue>>
      <3>1. stack' \in Seq(Frame) /\ notifying' \in [Signal -> BOOLEAN] /\ dirty' \in [Signal -> BOOLEAN]
        <4>1. stack \in Seq(Frame)
          BY DEF TypeOK
        <4>2. \/ stack' = stack /\ dirty' = [dirty EXCEPT ![s] = TRUE] /\ notifying' = notifying
              \/ /\ stack' = Push(NotifyFrame(s, 0), stack) /\ NotifyFrame(s, 0) \in Frame
                 /\ dirty' = [dirty EXCEPT ![s] = FALSE] /\ notifying' = [notifying EXCEPT ![s] = TRUE]
          BY <2>4, <4>1, NotifyStep
        <4>3. stack' \in Seq(Frame)
          BY <4>1, <4>2, Pushed
        <4>4. QED
          BY <4>2, <4>3 DEF TypeOK
      <3>2. QED
        BY <2>1, <2>2, <2>4, <3>1 DEF TypeOK
    <2>5. QED
      BY <2>1, <2>3, <2>4, PublishStep
  <1>2. ASSUME NEW s \in Signal, NEW x \in Listener, Subscribe(x, s) PROVE TypeOK'
    <2>1. Append(subs[s], [who |-> x, dead |-> FALSE]) \in Seq(Entry)
      BY AppendedFacts DEF TypeOK
    <2>2. subs' = [subs EXCEPT ![s] = Append(@, [who |-> x, dead |-> FALSE])] /\ seen' = [seen EXCEPT ![x] = value[s]]
      BY <1>2 DEF Subscribe, TypeOK
    <2>3. UNCHANGED <<value, notifying, dirty, queued, batchDepth, batchQueue, stack, panicking>>
      BY <1>2 DEF Subscribe, TypeOK
    <2>4. QED
      BY <2>1, <2>2, <2>3 DEF TypeOK
  <1>3. ASSUME NEW s \in Signal, NEW x \in Listener, Unsubscribe(x, s) PROVE TypeOK'
    <2>1. Removed(s, subs[s], x) \in Seq(Entry)
      BY RemovedFacts DEF TypeOK
    <2>2. subs' = [subs EXCEPT ![s] = Removed(s, @, x)] /\ seen' = [seen EXCEPT ![x] = Unseen]
      BY <1>3 DEF Unsubscribe, TypeOK
    <2>3. UNCHANGED <<value, notifying, dirty, queued, batchDepth, batchQueue, stack, panicking>>
      BY <1>3 DEF Unsubscribe, TypeOK
    <2>4. QED
      BY <2>1, <2>2, <2>3 DEF TypeOK
  <1>4. CASE BeginBatch \/ BeginRecover
    <2>1. \E f \in Frame : stack' = Push(f, stack)
      BY <1>4, NewFrames DEF BeginBatch, BeginRecover, Push, signalVars, TypeOK
    <2>2. stack' \in Seq(Frame)
      BY <2>1, Pushed DEF TypeOK
    <2>3. QED
      BY <1>4, <2>2 DEF BeginBatch, BeginRecover, signalVars, historyVars, TypeOK
  <1>5. CASE EndBatch
    <2>1. Top \in Frame /\ Below \in Seq(Frame) /\ stack = Push(Top, Below)
      BY <1>5, TopFrame, EndBatchStep
    <2>2. [op |-> "drain", rest |-> batchQueue, rethrow |-> panicking] \in Frame
      BY NewFrames DEF TypeOK
    <2>3. Push([op |-> "drain", rest |-> batchQueue, rethrow |-> panicking], Below) \in Seq(Frame)
      BY <2>1, <2>2, Pushed
    <2>4. stack' \in Seq(Frame)
      BY <1>5, <2>1, <2>3, EndBatchStep
    <2>5. (batchQueue' = batchQueue \/ batchQueue' = <<>>) /\ (panicking' = panicking \/ panicking' = FALSE)
      BY <1>5, EndBatchStep
    <2>6. batchQueue' \in Seq(Signal) /\ panicking' \in BOOLEAN
      <3>1. panicking \in BOOLEAN /\ FALSE \in BOOLEAN
        BY DEF TypeOK
      <3>2. panicking' \in BOOLEAN
        BY <2>5, <3>1, Zenon
      <3>3. batchQueue \in Seq(Signal) /\ <<>> \in Seq(Signal)
        BY DEF TypeOK
      <3>4. QED
        BY <2>5, <3>2, <3>3
    <2>7. batchDepth' \in Nat
      <3>1. batchDepth' = batchDepth - 1 /\ Top.op = "batch"
        BY <1>5, EndBatchStep
      <3>2. BatchCount(Below) \in Nat /\ BatchCount(Push(Top, Below)) = BatchCount(Below) + 1
        BY <2>1, <3>1, BatchesPushed
      <3>3. batchDepth = BatchCount(Push(Top, Below))
        BY <2>1 DEF BatchInv
      <3>4. QED
        BY <3>1, <3>2, <3>3
    <2>8. QED
      BY <1>5, <2>4, <2>6, <2>7 DEF EndBatch, historyVars, TypeOK
  <1>6. CASE Return \/ Panic \/ Recovered
    <2>1. stack' = stack \/ stack' = <<>> \/ (stack # <<>> /\ stack' = Tail(stack))
      BY <1>6 DEF Return, Panic, Recovered, Top, Below
    <2>2. stack' \in Seq(Frame)
      <3>1. stack \in Seq(Frame) /\ <<>> \in Seq(Frame)
        BY DEF TypeOK
      <3>2. CASE stack # <<>> /\ stack' = Tail(stack)
        BY <3>1, <3>2
      <3>3. QED
        BY <2>1, <3>1, <3>2
    <2>3. QED
      BY <1>6, <2>2 DEF Return, Panic, Recovered, signalVars, historyVars, TypeOK
  <1>7. CASE NotifyNext(value)
    <2>1. Top \in Frame /\ Below \in Seq(Frame)
      BY <1>7, TopFrame DEF NotifyNext
    <2>2. PICK e \in Entry : /\ Top.op = "notify" /\ Top.sig \in Signal
                             /\ \/ stack' = Push(Stepped(Top, e.who), Below) /\ seen' = seen
                                \/ /\ stack' = Push([op |-> "call", who |-> e.who],
                                                    Push(Stepped(Top, e.who), Below))
                                   /\ seen' = [seen EXCEPT ![e.who] = value[Top.sig]]
      BY <1>7, NotifyNextStep
    <2>3. e.who \in Listener
      BY DEF Entry, EntryOf, TypeOK
    <2>4. Push(Stepped(Top, e.who), Below) \in Seq(Frame)
      BY <2>1, <2>2, SteppedFields, Pushed DEF TypeOK
    <2>5. stack' \in Seq(Frame)
      <3>1. PICK f \in Frame : f = [op |-> "call", who |-> e.who]
        BY <2>3, NewFrames
      <3>2. PICK q \in Seq(Frame) : q = Push(Stepped(Top, e.who), Below)
        BY <2>4
      <3>3. Push(f, q) \in Seq(Frame)
        BY Pushed
      <3>4. QED
        BY <2>2, <3>1, <3>2, <3>3
    <2>6. seen' \in [Listener -> Value \union {Unseen}]
      BY <2>2, <2>3 DEF TypeOK
    <2>7. QED
      BY <1>7, <2>5, <2>6 DEF NotifyNext, TypeOK
  <1>8. CASE DrainNext
    <2>1. PICK s \in Signal, below \in Seq(Frame) : Notify(s, below) /\ queued' = [queued EXCEPT ![s] = FALSE]
      BY <1>8, DrainNextStep
    <2>2. stack' \in Seq(Frame) /\ notifying' \in [Signal -> BOOLEAN] /\ dirty' \in [Signal -> BOOLEAN]
      <3>1. \/ stack' = below /\ dirty' = [dirty EXCEPT ![s] = TRUE] /\ notifying' = notifying
            \/ /\ stack' = Push(NotifyFrame(s, 0), below) /\ NotifyFrame(s, 0) \in Frame
               /\ dirty' = [dirty EXCEPT ![s] = FALSE] /\ notifying' = [notifying EXCEPT ![s] = TRUE]
        BY <2>1, NotifyStep
      <3>2. stack' \in Seq(Frame)
        BY <2>1, <3>1, Pushed
      <3>3. QED
        BY <3>1, <3>2 DEF TypeOK
    <2>3. UNCHANGED <<value, subs, batchDepth, batchQueue, seen, panicking>>
      BY <1>8 DEF DrainNext, TypeOK
    <2>4. QED
      BY <2>1, <2>2, <2>3 DEF TypeOK
  <1>9. CASE DrainEnd
    <2>1. Top \in Frame /\ Below \in Seq(Frame) /\ Top.op = "drain"
      BY <1>9, TopFrame, DrainEndStep
    <2>2. Holding(Top, batchQueue) \in Frame /\ Top.rethrow \in BOOLEAN
      BY <2>1, HoldingFields, DrainFields DEF TypeOK
    <2>3. Push(Holding(Top, batchQueue), Below) \in Seq(Frame)
      BY <2>1, <2>2, Pushed
    <2>4. batchQueue' = <<>> /\ (panicking' = panicking \/ panicking' = Top.rethrow) /\ stack' \in Seq(Frame)
      BY <1>9, <2>1, <2>3, DrainEndStep
    <2>5. QED
      BY <1>9, <2>2, <2>4 DEF DrainEnd, historyVars, TypeOK
  <1>10. CASE NotifyPassEnd
    <2>1. Top \in Frame /\ Below \in Seq(Frame) /\ Top.sig \in Signal
      BY <1>10, TopFrame, NotifyPassEndStep
    <2>2. Compacted(subs[Top.sig]) \in Seq(Entry)
      BY <2>1, CompactedFacts DEF TypeOK
    <2>3. /\ \/ stack' = Push(NotifyFrame(Top.sig, Top.pass + 1), Below) /\ Top.pass + 1 \in Nat
             \/ stack' = Below
          /\ notifying' = notifying \/ notifying' = [notifying EXCEPT ![Top.sig] = FALSE]
          /\ dirty' = dirty \/ dirty' = [dirty EXCEPT ![Top.sig] = FALSE]
          /\ subs' = subs \/ subs' = [subs EXCEPT ![Top.sig] = Compacted(@)]
      BY <1>10, NotifyPassEndStep
    <2>4. stack' \in Seq(Frame)
      <3>1. CASE stack' = Below
        BY <2>1, <3>1
      <3>2. CASE stack' = Push(NotifyFrame(Top.sig, Top.pass + 1), Below) /\ Top.pass + 1 \in Nat
        <4>1. PICK f \in Frame : stack' = Push(f, Below)
          BY <2>1, <3>2, NewNotify
        <4>2. Push(f, Below) \in Seq(Frame)
          BY <2>1, Pushed
        <4>3. QED
          BY <4>1, <4>2
      <3>3. QED
        BY <2>3, <3>1, <3>2
    <2>5. /\ notifying' \in [Signal -> BOOLEAN]
          /\ dirty' \in [Signal -> BOOLEAN]
          /\ subs' \in [Signal -> Seq(Entry)]
      <3>1. notifying' \in [Signal -> BOOLEAN]
        BY <2>1, <2>3 DEF TypeOK
      <3>2. dirty' \in [Signal -> BOOLEAN]
        BY <2>1, <2>3 DEF TypeOK
      <3>3. subs' \in [Signal -> Seq(Entry)]
        BY <2>1, <2>2, <2>3 DEF TypeOK
      <3>4. QED
        BY <3>1, <3>2, <3>3
    <2>6. QED
      BY <1>10, <2>4, <2>5 DEF NotifyPassEnd, TypeOK
  <1>11. CASE Unwind
    <2>1. Top \in Frame /\ Below \in Seq(Frame) /\ stack' = Below
      BY <1>11, TopFrame DEF Unwind
    <2>2. notifying' \in [Signal -> BOOLEAN] /\ subs' \in [Signal -> Seq(Entry)]
      <3>1. CASE Top.op = "notify"
        <4>1. Top.sig \in Signal
          BY <2>1, <3>1, NotifyFields DEF TypeOK
        <4>2. Compacted(subs[Top.sig]) \in Seq(Entry)
          BY <4>1, CompactedFacts DEF TypeOK
        <4>3. /\ notifying' = [notifying EXCEPT ![Top.sig] = FALSE]
              /\ subs' = [subs EXCEPT ![Top.sig] = Compacted(@)]
          BY <1>11, <3>1 DEF Unwind, EndNotify
        <4>4. notifying' \in [Signal -> BOOLEAN]
          BY <4>3 DEF TypeOK
        <4>5. subs' \in [Signal -> Seq(Entry)]
          BY <4>1, <4>2, <4>3 DEF TypeOK
        <4>6. QED
          BY <4>4, <4>5
      <3>2. CASE Top.op # "notify"
        BY <1>11, <3>2 DEF Unwind, TypeOK
      <3>3. QED
        BY <3>1, <3>2 DEF TypeOK
    <2>3. QED
      BY <1>11, <2>1, <2>2 DEF Unwind, TypeOK
  <1>12. CASE UNCHANGED vars
    BY <1>12 DEF vars, signalVars, historyVars, TypeOK
  <1>13. QED
    BY <1>1, <1>2, <1>3, <1>4, <1>5, <1>6, <1>7, <1>8, <1>9, <1>10, <1>11, <1>12 DEF Next, Deliver
-----------------------------------------------------------------------------
(* Batches and the stack *)
\* Every step keeps batchDepth the count of the batches, and the batches above every
\* notification.
LEMMA BatchStep ==
  ASSUME TypeOK, BatchInv, RegisteredInv, PassInv, [Next]_vars
  PROVE  BatchInv'
  <1>0. /\ stack \in Seq(Frame) /\ batchDepth = BatchCount(stack) /\ batchDepth \in Nat
        /\ Isolated(stack) /\ (batchDepth = 0 => batchQueue = <<>>)
    BY DEF TypeOK, BatchInv
  <1>1. ASSUME batchDepth' = BatchCount(stack'), Isolated(stack'), batchDepth' = 0 => batchQueue' = <<>>
        PROVE  BatchInv'
    BY <1>1 DEF BatchInv
  \* What is popped without its mark is no Batch.
  <1>2. ASSUME Top.op # "loop"
        PROVE  /\ BatchCount(Below) \in Nat /\ Isolated(Below)
               /\ Top.op = "batch" => batchDepth = BatchCount(Below) + 1
               /\ Top.op # "batch" => batchDepth = BatchCount(Below)
               /\ Top.op \in {"notify", "drain"} => BatchCount(Below) = 0
    <2>1. Top \in Frame /\ Below \in Seq(Frame) /\ stack = Push(Top, Below)
      BY <1>2, TopFrame
    <2>2. PICK f, q : f = Top /\ q = Below
      OBVIOUS
    <2>3. /\ BatchCount(q) \in Nat
          /\ BatchCount(Push(f, q)) = BatchCount(q) + (IF f.op = "batch" THEN 1 ELSE 0)
          /\ Isolated(Push(f, q)) <=> Isolated(q) /\ (f.op \in {"notify", "drain"} => BatchCount(q) = 0)
      BY <2>1, <2>2, BatchesPushed
    <2>4. QED
      BY <1>0, <2>1, <2>2, <2>3
  <1>3. ASSUME NEW f \in Frame, NEW q \in Seq(Frame), Isolated(q),
               f.op \in {"notify", "drain"} => BatchCount(q) = 0
        PROVE  /\ Push(f, q) \in Seq(Frame) /\ Isolated(Push(f, q))
               /\ f.op # "batch" => BatchCount(Push(f, q)) = BatchCount(q)
               /\ f.op = "batch" => BatchCount(Push(f, q)) = BatchCount(q) + 1
    <2>1. /\ BatchCount(q) \in Nat
          /\ BatchCount(Push(f, q)) = BatchCount(q) + (IF f.op = "batch" THEN 1 ELSE 0)
          /\ Isolated(Push(f, q)) <=> Isolated(q) /\ (f.op \in {"notify", "drain"} => BatchCount(q) = 0)
      BY BatchesPushed
    <2>2. Push(f, q) \in Seq(Frame)
      BY Pushed
    <2>3. Isolated(Push(f, q))
      BY <1>3, <2>1
    <2>4. f.op # "batch" => BatchCount(Push(f, q)) = BatchCount(q)
      BY <2>1
    <2>5. f.op = "batch" => BatchCount(Push(f, q)) = BatchCount(q) + 1
      BY <2>1
    <2>6. QED
      BY <2>2, <2>3, <2>4, <2>5
  <1>4. ASSUME NEW s \in Signal, NEW below \in Seq(Frame), Notify(s, below),
               Isolated(below), BatchCount(below) = 0
        PROVE  Isolated(stack') /\ BatchCount(stack') = 0
    <2>1. stack' = below \/ (stack' = Push(NotifyFrame(s, 0), below) /\ NotifyFrame(s, 0) \in Frame)
      BY <1>4, NotifyStep
    <2>2. NotifyFrame(s, 0).op = "notify"
      BY DEF NotifyFrame
    <2>3. QED
      BY <1>3, <1>4, <2>1, <2>2
  <1>5. ASSUME NEW s \in Signal, NEW v \in Value, Set(s, v) PROVE BatchInv'
    <2>1. Publish(s, stack) /\ batchDepth' = batchDepth
      BY <1>5 DEF Set
    <2>2. CASE Deferring /\ stack' = stack
      BY <1>0, <1>1, <2>1, <2>2 DEF Deferring
    <2>3. CASE ~Deferring /\ Notify(s, stack) /\ batchQueue' = batchQueue
      <3>1. batchDepth = 0 /\ BatchCount(stack) = 0
        BY <1>0, <2>3 DEF Deferring
      <3>2. Isolated(stack') /\ BatchCount(stack') = 0
        BY <1>0, <1>4, <2>3, <3>1
      <3>3. QED
        BY <1>0, <1>1, <2>1, <2>3, <3>1, <3>2
    <2>4. QED
      BY <2>1, <2>2, <2>3, PublishStep
  <1>6. CASE UNCHANGED <<stack, batchDepth, batchQueue>>
    BY <1>0, <1>1, <1>6
  <1>7. CASE BeginBatch
    <2>1. batchDepth' = batchDepth + 1 /\ stack' = Push([op |-> "batch"], stack)
      BY <1>7 DEF BeginBatch, Push
    <2>2. BatchCount(stack') = BatchCount(stack) + 1 /\ Isolated(stack')
      BY <1>0, <1>3, <2>1, NewFrames
    <2>3. QED
      BY <1>0, <1>1, <2>1, <2>2
  <1>8. CASE BeginRecover
    <2>1. /\ batchDepth' = batchDepth /\ batchQueue' = batchQueue
          /\ stack' = Push([op |-> "recover"], stack)
      BY <1>8 DEF BeginRecover, Push, signalVars
    <2>2. BatchCount(stack') = BatchCount(stack) /\ Isolated(stack')
      BY <1>0, <1>3, <2>1, NewFrames
    <2>3. QED
      BY <1>0, <1>1, <2>1, <2>2
  <1>9. ASSUME Top.op \notin {"loop", "batch"}, stack' = Below, UNCHANGED <<batchDepth, batchQueue>>
        PROVE  BatchInv'
    BY <1>0, <1>1, <1>2, <1>9
  <1>10. CASE Return \/ Unwind
    <2>1. Top.op \notin {"loop", "batch"} /\ stack' = Below /\ UNCHANGED <<batchDepth, batchQueue>>
      BY <1>10 DEF Return, Unwind, signalVars
    <2>2. QED
      BY <1>9, <2>1
  <1>11. CASE Recovered
    <2>1. UNCHANGED <<batchDepth, batchQueue>> /\ Top.op \in {"loop", "recover"}
      BY <1>11 DEF Recovered, signalVars
    <2>2. CASE stack = <<>>
      BY <1>6, <1>11, <2>1, <2>2 DEF Recovered
    <2>3. CASE stack # <<>>
      <3>1. Top = Head(stack) /\ stack' = Below
        BY <1>11, <2>3 DEF Recovered, Top
      <3>2. Top \in Frame
        BY <1>0, <2>3, <3>1, Popped
      <3>3. Top.op # "loop"
        BY <3>2 DEF Frame
      <3>4. QED
        BY <1>9, <2>1, <3>1, <3>3
    <2>4. QED
      BY <2>2, <2>3
  <1>12. CASE EndBatch
    <2>1. Top.op = "batch" /\ batchDepth' = batchDepth - 1
      BY <1>12, EndBatchStep
    <2>2. Below \in Seq(Frame) /\ BatchCount(Below) \in Nat /\ Isolated(Below) /\ batchDepth = BatchCount(Below) + 1
      BY <1>2, <2>1, TopFrame
    <2>3. CASE /\ batchDepth = 1 /\ batchQueue' = <<>>
               /\ stack' = Push([op |-> "drain", rest |-> batchQueue, rethrow |-> panicking], Below)
      <3>1. PICK f \in Frame : f.op = "drain" /\ stack' = Push(f, Below)
        BY <2>3, NewFrames DEF TypeOK
      <3>2. BatchCount(Below) = 0
        BY <2>2, <2>3
      <3>3. BatchCount(stack') = 0 /\ Isolated(stack')
        BY <1>3, <2>2, <3>1, <3>2
      <3>4. QED
        BY <1>1, <2>1, <2>3, <3>3
    <2>4. CASE ~(batchDepth = 1 /\ batchQueue # <<>>) /\ stack' = Below /\ batchQueue' = batchQueue
      BY <1>1, <2>1, <2>2, <2>4
    <2>5. QED
      BY <1>12, <2>3, <2>4, EndBatchStep
  <1>13. CASE NotifyNext(value)
    <2>1. Top.op = "notify" /\ UNCHANGED <<batchDepth, batchQueue>>
      BY <1>13 DEF NotifyNext
    <2>2. /\ Top \in Frame /\ Below \in Seq(Frame)
          /\ Isolated(Below) /\ BatchCount(Below) = 0 /\ batchDepth = 0
      BY <1>0, <1>2, <2>1, TopFrame
    <2>3. PICK e \in Entry : \/ stack' = Push(Stepped(Top, e.who), Below)
                             \/ stack' = Push([op |-> "call", who |-> e.who], Push(Stepped(Top, e.who), Below))
      BY <1>13, NotifyNextStep
    <2>4. Stepped(Top, e.who) \in Frame /\ Stepped(Top, e.who).op = "notify" /\ e.who \in Listener
      BY <2>1, <2>2, SteppedFields DEF Entry, EntryOf
    <2>5. PICK q : q = Push(Stepped(Top, e.who), Below)
      OBVIOUS
    <2>6. q \in Seq(Frame) /\ Isolated(q) /\ BatchCount(q) = 0
      BY <1>3, <2>2, <2>4, <2>5
    <2>7. PICK f \in Frame : f.op = "call" /\ f = [op |-> "call", who |-> e.who]
      BY <2>4, NewFrames
    <2>8. Isolated(Push(f, q)) /\ BatchCount(Push(f, q)) = 0
      BY <1>3, <2>6, <2>7
    <2>9. Isolated(stack') /\ BatchCount(stack') = 0
      BY <2>3, <2>5, <2>6, <2>7, <2>8
    <2>10. QED
      BY <1>0, <1>1, <2>1, <2>2, <2>9
  <1>14. CASE DrainNext
    <2>1. Top.op = "drain" /\ UNCHANGED <<batchDepth, batchQueue>>
      BY <1>14 DEF DrainNext
    <2>2. /\ Top \in Frame /\ Below \in Seq(Frame)
          /\ Isolated(Below) /\ BatchCount(Below) = 0 /\ batchDepth = 0
      BY <1>0, <1>2, <2>1, TopFrame
    <2>3. PICK s \in Signal, rest \in Seq(Signal) : Notify(s, Push(Holding(Top, rest), Below))
      BY <1>14, DrainNextStep
    <2>4. Holding(Top, rest) \in Frame /\ Holding(Top, rest).op = "drain"
      BY <2>1, <2>2, HoldingFields
    <2>5. PICK q : q = Push(Holding(Top, rest), Below)
      OBVIOUS
    <2>6. q \in Seq(Frame) /\ Isolated(q) /\ BatchCount(q) = 0
      BY <1>3, <2>2, <2>4, <2>5
    <2>7. Isolated(stack') /\ BatchCount(stack') = 0
      BY <1>4, <2>3, <2>5, <2>6
    <2>8. QED
      BY <1>0, <1>1, <2>1, <2>2, <2>7
  <1>15. CASE DrainEnd
    <2>1. Top.op = "drain" /\ batchDepth' = batchDepth /\ batchQueue' = <<>>
      BY <1>15 DEF DrainEnd
    <2>2. /\ Top \in Frame /\ Below \in Seq(Frame)
          /\ Isolated(Below) /\ BatchCount(Below) = 0 /\ batchDepth = 0
      BY <1>0, <1>2, <2>1, TopFrame
    <2>3. Holding(Top, batchQueue) \in Frame /\ Holding(Top, batchQueue).op = "drain"
      <3>1. batchQueue \in Seq(Signal)
        BY DEF TypeOK
      <3>2. QED
        BY <2>1, <2>2, <3>1, HoldingFields
    <2>4. stack' = Below \/ stack' = Push(Holding(Top, batchQueue), Below)
      BY <1>15, DrainEndStep
    <2>5. Isolated(stack') /\ BatchCount(stack') = 0
      BY <1>3, <2>2, <2>3, <2>4
    <2>6. QED
      BY <1>1, <2>1, <2>2, <2>5
  <1>16. CASE NotifyPassEnd
    <2>1. Top.op = "notify" /\ UNCHANGED <<batchDepth, batchQueue>>
      BY <1>16 DEF NotifyPassEnd
    <2>2. /\ Top \in Frame /\ Below \in Seq(Frame)
          /\ Isolated(Below) /\ BatchCount(Below) = 0 /\ batchDepth = 0
      BY <1>0, <1>2, <2>1, TopFrame
    <2>3. \/ stack' = Below
          \/ \E pass \in Nat : stack' = Push(NotifyFrame(Top.sig, pass), Below) /\ Top.sig \in Signal
      BY <1>16, NotifyPassEndStep
    <2>4. \A s \in Signal, pass \in Nat : NotifyFrame(s, pass) \in Frame /\ NotifyFrame(s, pass).op = "notify"
      BY NewNotify
    <2>5. stack' = Below \/ \E f \in Frame : f.op = "notify" /\ stack' = Push(f, Below)
      BY <2>3, <2>4
    <2>6. Isolated(stack') /\ BatchCount(stack') = 0
      BY <1>3, <2>2, <2>5
    <2>7. QED
      BY <1>0, <1>1, <2>1, <2>2, <2>6
  <1>17. ASSUME NEW s \in Signal, NEW x \in Listener, Subscribe(x, s) \/ Unsubscribe(x, s)
         PROVE  BatchInv'
    BY <1>6, <1>17 DEF Subscribe, Unsubscribe
  <1>18. CASE Panic \/ UNCHANGED vars
    BY <1>6, <1>18 DEF Panic, vars, signalVars
  <1>19. QED
    BY <1>5, <1>7, <1>8, <1>10, <1>11, <1>12, <1>13, <1>14, <1>15, <1>16, <1>17, <1>18 DEF Next,
           Deliver
-----------------------------------------------------------------------------
(* The mark of a running notification *)
\* Calls that are no notify do not matter to the marks.
LEMMA OtherCallFits ==
  ASSUME NEW f \in Frame, NEW q \in Seq(Frame), NEW marked, f.op # "notify"
  PROVE  NotifyFits(Push(f, q), marked) <=> NotifyFits(q, marked)
  <1>1. \A s : ~IsNotify(f, s)
    BY DEF IsNotify
  <1>2. \A s : /\ Notified(Push(f, q), s) <=> IsNotify(f, s) \/ Notified(q, s)
               /\ NotifiedOnce(Push(f, q), s) <=> NotifiedOnce(q, s) /\ ~(IsNotify(f, s) /\ Notified(q, s))
    BY NotifiedPushed
  <1>3. QED
    BY <1>1, <1>2 DEF NotifyFits

\* A notify call owns the mark of its signal.
LEMMA NotifyCallFits ==
  ASSUME NEW f \in Frame, NEW q \in Seq(Frame), NEW marked \in [Signal -> BOOLEAN],
         f.op = "notify"
  PROVE  NotifyFits(Push(f, q), marked) <=> marked[f.sig] /\ NotifyFits(q, [marked EXCEPT ![f.sig] = FALSE])
  <1>1. f.sig \in Signal /\ \A s : IsNotify(f, s) <=> s = f.sig
    BY NotifyFields DEF IsNotify
  <1>2. \A s : /\ Notified(Push(f, q), s) <=> IsNotify(f, s) \/ Notified(q, s)
               /\ NotifiedOnce(Push(f, q), s) <=> NotifiedOnce(q, s) /\ ~(IsNotify(f, s) /\ Notified(q, s))
    BY NotifiedPushed
  <1>3. PICK m : m = [marked EXCEPT ![f.sig] = FALSE]
    OBVIOUS
  <1>4. ~m[f.sig] /\ \A s \in Signal : s # f.sig => m[s] = marked[s]
    BY <1>1, <1>3
  <1>5. ASSUME NotifyFits(Push(f, q), marked) PROVE marked[f.sig] /\ NotifyFits(q, m)
    BY <1>1, <1>2, <1>4, <1>5 DEF NotifyFits
  <1>6. ASSUME marked[f.sig], NotifyFits(q, m) PROVE NotifyFits(Push(f, q), marked)
    BY <1>1, <1>2, <1>4, <1>6 DEF NotifyFits
  <1>7. QED
    BY <1>3, <1>5, <1>6

\* notify marks the signal of the pass it starts, and no other.
LEMMA NotifyKeepsFit ==
  ASSUME TypeOK, NEW s \in Signal, NEW below \in Seq(Frame), Notify(s, below), NotifyFits(below, notifying)
  PROVE  NotifyFits(stack', notifying')
  <1>1. CASE stack' = below /\ notifying' = notifying
    BY <1>1
  <1>2. CASE /\ ~notifying[s] /\ stack' = Push(NotifyFrame(s, 0), below) /\ NotifyFrame(s, 0) \in Frame
             /\ notifying' = [notifying EXCEPT ![s] = TRUE]
    <2>1. PICK f \in Frame : f.op = "notify" /\ f.sig = s /\ stack' = Push(f, below)
      BY <1>2 DEF NotifyFrame
    <2>2. PICK m : m = [notifying EXCEPT ![s] = TRUE]
      OBVIOUS
    <2>3. m \in [Signal -> BOOLEAN] /\ m[s] /\ [m EXCEPT ![s] = FALSE] = notifying
      BY <1>2, <2>2 DEF TypeOK
    <2>4. NotifyFits(Push(f, below), m) <=> m[s] /\ NotifyFits(below, [m EXCEPT ![s] = FALSE])
      BY <2>1, <2>3, NotifyCallFits
    <2>5. QED
      BY <1>2, <2>1, <2>2, <2>3, <2>4
  <1>3. QED
    BY <1>1, <1>2, NotifyStep

\* Every step keeps a signal marked exactly while its notify is on the stack: a panic
\* unwinds through the deferred function, never past it.
LEMMA NotifyInvStep ==
  ASSUME TypeOK, NotifyInv, RegisteredInv, PassInv, [Next]_vars
  PROVE  NotifyInv'
  <1>0. stack \in Seq(Frame) /\ notifying \in [Signal -> BOOLEAN] /\ NotifyFits(stack, notifying)
    BY DEF TypeOK, NotifyInv
  <1>1. ASSUME NotifyFits(stack', notifying') PROVE NotifyInv'
    BY <1>1 DEF NotifyInv
  <1>2. ASSUME Top.op \notin {"loop", "notify"}
        PROVE  Top \in Frame /\ Below \in Seq(Frame) /\ NotifyFits(Below, notifying)
    BY <1>0, <1>2, TopFrame, OtherCallFits
  <1>3. ASSUME Top.op = "notify"
        PROVE  /\ Top \in Frame /\ Below \in Seq(Frame) /\ Top.sig \in Signal /\ notifying[Top.sig]
               /\ NotifyFits(Below, [notifying EXCEPT ![Top.sig] = FALSE])
    <2>1. Top \in Frame /\ Below \in Seq(Frame) /\ stack = Push(Top, Below)
      BY <1>3, TopFrame
    <2>2. QED
      BY <1>0, <1>3, <2>1, NotifyCallFits, NotifyFields
  <1>4. ASSUME NEW f \in Frame, NEW q \in Seq(Frame), stack' = Push(f, q), f.op # "notify",
               NotifyFits(q, notifying), notifying' = notifying
        PROVE  NotifyInv'
    BY <1>1, <1>4, OtherCallFits
  <1>5. CASE UNCHANGED <<stack, notifying>>
    BY <1>0, <1>1, <1>5
  <1>6. ASSUME NEW s \in Signal, NEW v \in Value, Set(s, v) PROVE NotifyInv'
    <2>1. Publish(s, stack)
      BY <1>6 DEF Set
    <2>2. CASE Notify(s, stack)
      BY <1>0, <1>1, <2>2, NotifyKeepsFit
    <2>3. QED
      BY <1>5, <2>1, <2>2, PublishStep
  <1>7. ASSUME NEW s \in Signal, NEW x \in Listener, Subscribe(x, s) \/ Unsubscribe(x, s)
        PROVE  NotifyInv'
    BY <1>5, <1>7 DEF Subscribe, Unsubscribe
  <1>8. CASE BeginBatch \/ BeginRecover
    <2>1. \E f \in Frame : f.op # "notify" /\ stack' = Push(f, stack)
      BY <1>8, NewFrames DEF BeginBatch, BeginRecover, Push
    <2>2. notifying' = notifying
      BY <1>8 DEF BeginBatch, BeginRecover, signalVars
    <2>3. QED
      BY <1>0, <1>4, <2>1, <2>2
  <1>9. ASSUME Top.op \notin {"loop", "notify"}, stack' = Below, notifying' = notifying
        PROVE  NotifyInv'
    BY <1>1, <1>2, <1>9
  <1>10. CASE Return
    <2>1. Top.op \notin {"loop", "notify"} /\ stack' = Below /\ notifying' = notifying
      BY <1>10 DEF Return, signalVars
    <2>2. QED
      BY <1>9, <2>1
  <1>11. CASE Recovered
    <2>1. notifying' = notifying /\ Top.op \in {"loop", "recover"}
      BY <1>11 DEF Recovered, signalVars
    <2>2. CASE stack = <<>>
      BY <1>5, <1>11, <2>1, <2>2 DEF Recovered
    <2>3. CASE stack # <<>>
      <3>1. Top = Head(stack) /\ stack' = Below
        BY <1>11, <2>3 DEF Recovered, Top
      <3>2. Top \in Frame
        BY <1>0, <2>3, <3>1, Popped
      <3>3. Top.op # "loop"
        BY <3>2 DEF Frame
      <3>4. QED
        BY <1>9, <2>1, <3>1, <3>3
    <2>4. QED
      BY <2>2, <2>3
  <1>12. CASE EndBatch
    <2>1. Top.op = "batch" /\ notifying' = notifying
      BY <1>12 DEF EndBatch
    <2>2. Below \in Seq(Frame) /\ NotifyFits(Below, notifying)
      BY <1>2, <2>1
    <2>3. \E f \in Frame : f.op = "drain"
             /\ f = [op |-> "drain", rest |-> batchQueue, rethrow |-> panicking]
      BY NewFrames DEF TypeOK
    <2>4. stack' = Below \/ \E f \in Frame : f.op = "drain" /\ stack' = Push(f, Below)
      BY <1>12, <2>3, EndBatchStep
    <2>5. QED
      BY <1>4, <1>9, <2>1, <2>2, <2>4
  <1>13. CASE NotifyNext(value)
    <2>1. Top.op = "notify" /\ notifying' = notifying
      BY <1>13 DEF NotifyNext
    <2>2. PICK e \in Entry : \/ stack' = Push(Stepped(Top, e.who), Below)
                             \/ stack' = Push([op |-> "call", who |-> e.who], Push(Stepped(Top, e.who), Below))
      BY <1>13, NotifyNextStep
    <2>3. PICK g : g = Stepped(Top, e.who)
      OBVIOUS
    <2>4. g \in Frame /\ g.op = "notify" /\ g.sig = Top.sig
      BY <1>3, <2>1, <2>3, SteppedFields
    <2>5. NotifyFits(Push(g, Below), notifying)
      BY <1>0, <1>3, <2>1, <2>4, NotifyCallFits
    <2>6. PICK f \in Frame : f.op = "call" /\ f = [op |-> "call", who |-> e.who]
      BY NewFrames DEF Entry, EntryOf
    <2>7. Push(g, Below) \in Seq(Frame)
      BY <1>3, <2>1, <2>4, Pushed
    <2>8. CASE stack' = Push(f, Push(g, Below))
      BY <1>4, <2>1, <2>5, <2>6, <2>7, <2>8
    <2>9. CASE stack' = Push(g, Below)
      BY <1>1, <2>1, <2>5, <2>9
    <2>10. QED
      BY <2>2, <2>3, <2>6, <2>8, <2>9
  <1>14. CASE DrainNext
    <2>1. Top.op = "drain"
      BY <1>14 DEF DrainNext
    <2>2. PICK s \in Signal, rest \in Seq(Signal) : Notify(s, Push(Holding(Top, rest), Below))
      BY <1>14, DrainNextStep
    <2>3. Top \in Frame /\ Below \in Seq(Frame) /\ NotifyFits(Below, notifying)
      BY <1>2, <2>1
    <2>4. Holding(Top, rest) \in Frame /\ Holding(Top, rest).op = "drain"
      BY <2>1, <2>3, HoldingFields
    <2>5. Push(Holding(Top, rest), Below) \in Seq(Frame)
      BY <2>3, <2>4, Pushed
    <2>6. NotifyFits(Push(Holding(Top, rest), Below), notifying)
      BY <2>3, <2>4, OtherCallFits
    <2>7. QED
      BY <1>1, <2>2, <2>5, <2>6, NotifyKeepsFit
  <1>15. CASE DrainEnd
    <2>1. Top.op = "drain" /\ notifying' = notifying
      BY <1>15 DEF DrainEnd
    <2>2. Top \in Frame /\ Below \in Seq(Frame) /\ NotifyFits(Below, notifying)
      BY <1>2, <2>1
    <2>3. batchQueue \in Seq(Signal)
      BY DEF TypeOK
    <2>4. Holding(Top, batchQueue) \in Frame /\ Holding(Top, batchQueue).op = "drain"
      BY <2>1, <2>2, <2>3, HoldingFields
    <2>5. stack' = Below \/ \E f \in Frame : f.op = "drain" /\ stack' = Push(f, Below)
      BY <1>15, <2>4, DrainEndStep
    <2>6. QED
      BY <1>4, <1>9, <2>1, <2>2, <2>5
  <1>16. CASE NotifyPassEnd
    <2>1. Top.op = "notify"
      BY <1>16 DEF NotifyPassEnd
    <2>2. CASE /\ stack' = Push(NotifyFrame(Top.sig, Top.pass + 1), Below) /\ Top.pass + 1 \in Nat
               /\ notifying' = notifying
      <3>1. PICK f \in Frame : f.op = "notify" /\ f.sig = Top.sig /\ stack' = Push(f, Below)
        BY <1>3, <2>1, <2>2, NewNotify
      <3>2. NotifyFits(Push(f, Below), notifying)
        BY <1>0, <1>3, <2>1, <3>1, NotifyCallFits
      <3>3. QED
        BY <1>1, <2>2, <3>1, <3>2
    <2>3. CASE notifying' = [notifying EXCEPT ![Top.sig] = FALSE] /\ stack' = Below
      BY <1>1, <1>3, <2>1, <2>3
    <2>4. QED
      BY <1>16, <2>2, <2>3, NotifyPassEndStep
  <1>17. CASE Unwind
    <2>1. stack' = Below /\ Top.op \in {"call", "drain", "notify"}
      BY <1>17 DEF Unwind
    <2>2. CASE Top.op = "notify"
      <3>1. notifying' = [notifying EXCEPT ![Top.sig] = FALSE]
        BY <1>17, <2>2 DEF Unwind, EndNotify
      <3>2. QED
        BY <1>1, <1>3, <2>1, <2>2, <3>1
    <2>3. CASE Top.op # "notify"
      <3>1. notifying' = notifying
        BY <1>17, <2>3 DEF Unwind
      <3>2. QED
        BY <1>9, <2>1, <2>3, <3>1
    <2>4. QED
      BY <2>2, <2>3
  <1>18. CASE Panic \/ UNCHANGED vars
    BY <1>5, <1>18 DEF Panic, vars, signalVars
  <1>19. QED
    BY <1>6, <1>7, <1>8, <1>10, <1>11, <1>12, <1>13, <1>14, <1>15, <1>16, <1>17, <1>18 DEF Next,
           Deliver
-----------------------------------------------------------------------------
(* Where a queued signal waits *)
\* A queue with one signal more.
LEMMA AppendedQueue ==
  ASSUME NEW Q \in Seq(Signal), NEW s \in Signal
  PROVE  /\ ToSet(Append(Q, s)) = ToSet(Q) \union {s}
         /\ NoRepeat(Q) /\ s \notin ToSet(Q) => NoRepeat(Append(Q, s))
  <1>1. PICK r : r = Append(Q, s)
    OBVIOUS
  <1>2. /\ r \in Seq(Signal) /\ Len(r) = Len(Q) + 1 /\ Len(Q) \in Nat /\ r[Len(Q) + 1] = s
        /\ \A k \in 1..Len(Q) : r[k] = Q[k]
    BY <1>1
  <1>3. DOMAIN r = 1..(Len(Q) + 1) /\ DOMAIN Q = 1..Len(Q)
    BY <1>2
  <1>4. /\ \A k \in DOMAIN r : k \in DOMAIN Q \/ k = Len(Q) + 1
        /\ \A k \in DOMAIN Q : k \in DOMAIN r /\ r[k] = Q[k] /\ Q[k] \in ToSet(Q)
        /\ Len(Q) + 1 \in DOMAIN r
    BY <1>2, <1>3 DEF ToSet
  <1>5. ToSet(r) = ToSet(Q) \union {s}
    BY <1>2, <1>4 DEF ToSet
  <1>6. NoRepeat(Q) /\ s \notin ToSet(Q) => NoRepeat(r)
    BY <1>2, <1>4 DEF NoRepeat
  <1>7. QED
    BY <1>1, <1>5, <1>6

\* A queue without its head.
LEMMA TakenQueue ==
  ASSUME NEW Q \in Seq(Signal), Q # <<>>
  PROVE  /\ ToSet(Q) = ToSet(Tail(Q)) \union {Head(Q)}
         /\ NoRepeat(Q) => NoRepeat(Tail(Q)) /\ Head(Q) \notin ToSet(Tail(Q))
  <1>1. PICK r : r = Tail(Q)
    OBVIOUS
  <1>2. /\ r \in Seq(Signal) /\ Len(r) + 1 = Len(Q) /\ Len(r) \in Nat /\ Head(Q) = Q[1]
        /\ \A k \in 1..Len(r) : r[k] = Q[k + 1]
    BY <1>1
  <1>3. DOMAIN r = 1..Len(r) /\ DOMAIN Q = 1..(Len(r) + 1)
    BY <1>2
  <1>4. /\ \A k \in DOMAIN Q : k = 1 \/ \E j \in DOMAIN r : k = j + 1 /\ Q[k] = r[j]
        /\ 1 \in DOMAIN Q
        /\ \A k \in DOMAIN r : k + 1 \in DOMAIN Q /\ r[k] = Q[k + 1] /\ k \in Nat /\ k # 0
    <2>1. ASSUME NEW k \in DOMAIN Q, k # 1 PROVE \E j \in DOMAIN r : k = j + 1 /\ Q[k] = r[j]
      <3>1. k - 1 \in DOMAIN r /\ k = (k - 1) + 1
        BY <1>2, <1>3, <2>1
      <3>2. r[k - 1] = Q[k]
        BY <1>2, <1>3, <3>1
      <3>3. QED
        BY <3>1, <3>2
    <2>2. 1 \in DOMAIN Q /\ \A k \in DOMAIN r : k + 1 \in DOMAIN Q /\ r[k] = Q[k + 1] /\ k \in Nat /\ k # 0
      BY <1>2, <1>3
    <2>3. QED
      BY <2>1, <2>2
  <1>5. ToSet(Q) = ToSet(r) \union {Head(Q)}
    <2>1. ToSet(r) \subseteq ToSet(Q) /\ Head(Q) \in ToSet(Q)
      BY <1>2, <1>4 DEF ToSet
    <2>2. ASSUME NEW k \in DOMAIN Q PROVE Q[k] \in ToSet(r) \union {Head(Q)}
      BY <1>2, <1>4 DEF ToSet
    <2>3. ToSet(Q) \subseteq ToSet(r) \union {Head(Q)}
      BY <2>2 DEF ToSet
    <2>4. QED
      BY <2>1, <2>3
  <1>6. ASSUME NoRepeat(Q) PROVE NoRepeat(r) /\ Head(Q) \notin ToSet(r)
    <2>1. \A i, j \in DOMAIN r : i + 1 = j + 1 => i = j
      BY <1>4
    <2>2. NoRepeat(r)
      BY <1>4, <1>6, <2>1 DEF NoRepeat
    <2>3. \A k \in DOMAIN r : r[k] # Head(Q)
      <3>1. \A k \in DOMAIN r : k + 1 # 1
        BY <1>4
      <3>2. ASSUME NEW k \in DOMAIN r, r[k] = Head(Q) PROVE FALSE
        <4>1. k + 1 \in DOMAIN Q /\ 1 \in DOMAIN Q /\ Q[k + 1] = Q[1]
          BY <1>2, <1>4, <3>2
        <4>2. QED
          BY <1>6, <3>1, <4>1 DEF NoRepeat
      <3>3. QED
        BY <3>2
    <2>4. QED
      BY <2>2, <2>3 DEF ToSet
  <1>7. QED
    BY <1>1, <1>5, <1>6

\* The empty queue.
LEMMA NothingQueued ==
  ToSet(<<>>) = {} /\ NoRepeat(<<>>)
  BY DEF ToSet, NoRepeat

\* Calls that are no drain hold no signal.
LEMMA OtherCallQueue ==
  ASSUME NEW f \in Frame, NEW q \in Seq(Frame), f.op # "drain", NEW Q, NEW m, NEW l
  PROVE  QueueFits(Push(f, q), Q, m, l) <=> QueueFits(q, Q, m, l)
  <1>1. \A s : ~Holds(f, s)
    BY DEF Holds
  <1>2. \A s : /\ Held(Push(f, q), s) <=> Holds(f, s) \/ Held(q, s)
               /\ HeldOnce(Push(f, q), s) <=> HeldOnce(q, s) /\ ~(Holds(f, s) /\ Held(q, s))
    BY HeldPushed
  <1>3. ToSet(Push(f, q)) = {f} \union ToSet(q)
    BY Pushed
  <1>4. \A s : (Held(Push(f, q), s) <=> Held(q, s)) /\ (HeldOnce(Push(f, q), s) <=> HeldOnce(q, s))
    BY <1>1, <1>2
  <1>5. QED
    BY <1>3, <1>4 DEF QueueFits


\* To a signal it is the same to wait in batchQueue or in the drain that took it.
LEMMA DrainCallQueue ==
  ASSUME NEW f \in Frame, NEW q \in Seq(Frame), f.op = "drain", NEW m, NEW l
  PROVE  QueueFits(Push(f, q), <<>>, m, l) <=> QueueFits(q, f.rest, m, l)
  <1>1. \A s : Holds(f, s) <=> s \in ToSet(f.rest)
    BY DEF Holds
  <1>2. \A s : /\ Held(Push(f, q), s) <=> Holds(f, s) \/ Held(q, s)
               /\ HeldOnce(Push(f, q), s) <=> HeldOnce(q, s) /\ ~(Holds(f, s) /\ Held(q, s))
    BY HeldPushed
  <1>3. ToSet(Push(f, q)) = {f} \union ToSet(q)
    BY Pushed
  <1>4. \A s : /\ Held(Push(f, q), s) <=> s \in ToSet(f.rest) \/ Held(q, s)
               /\ HeldOnce(Push(f, q), s) <=> HeldOnce(q, s) /\ ~(s \in ToSet(f.rest) /\ Held(q, s))
    BY <1>1, <1>2
  <1>5. QED
    BY <1>3, <1>4, NothingQueued DEF QueueFits

\* publish queues a signal that waits nowhere.
LEMMA QueuedFits ==
  ASSUME NEW st, NEW Q \in Seq(Signal), NEW m \in [Signal -> BOOLEAN], NEW l, NEW s \in Signal,
         ~m[s], QueueFits(st, Q, m, l)
  PROVE  QueueFits(st, Append(Q, s), [m EXCEPT ![s] = TRUE], l)
  <1>1. PICK n : n = [m EXCEPT ![s] = TRUE]
    OBVIOUS
  <1>2. n[s] /\ \A t \in Signal : t # s => n[t] = m[t]
    BY <1>1
  <1>3. s \notin ToSet(Q) /\ ~Held(st, s) /\ s \notin l /\ NoRepeat(Q)
    BY DEF QueueFits
  <1>4. PICK r : r = Append(Q, s)
    OBVIOUS
  <1>5. ToSet(r) = ToSet(Q) \union {s} /\ NoRepeat(r)
    BY <1>3, <1>4, AppendedQueue
  <1>6. QueueFits(st, r, n, l)
    BY <1>2, <1>3, <1>5 DEF QueueFits
  <1>7. QED
    BY <1>1, <1>4, <1>6

\* The head of a queue no longer waits once its mark is cleared.
LEMMA TakenFits ==
  ASSUME NEW st, NEW Q \in Seq(Signal), Q # <<>>, NEW m \in [Signal -> BOOLEAN], NEW l,
         QueueFits(st, Q, m, l)
  PROVE  QueueFits(st, Tail(Q), [m EXCEPT ![Head(Q)] = FALSE], l)
  <1>1. PICK s, r, n : s = Head(Q) /\ r = Tail(Q) /\ n = [m EXCEPT ![s] = FALSE]
    OBVIOUS
  <1>2. s \in Signal
    BY <1>1
  <1>3. ~n[s] /\ \A t \in Signal : t # s => n[t] = m[t]
    BY <1>1, <1>2
  <1>4. NoRepeat(Q)
    BY DEF QueueFits
  <1>5. ToSet(Q) = ToSet(r) \union {s} /\ NoRepeat(r) /\ s \notin ToSet(r)
    BY <1>1, <1>4, TakenQueue
  <1>6. s \notin l /\ ~Held(st, s)
    BY <1>2, <1>5 DEF QueueFits
  <1>7. QueueFits(st, r, n, l)
    BY <1>3, <1>5, <1>6 DEF QueueFits
  <1>8. QED
    BY <1>1, <1>7

\* A drain that a panic ends loses what it had not delivered (batch.go:43-49).
LEMMA LostFits ==
  ASSUME NEW st, NEW Q, NEW m, NEW l, QueueFits(st, Q, m, l)
  PROVE  QueueFits(st, <<>>, m, l \union ToSet(Q))
  BY NothingQueued DEF QueueFits

\* Every step keeps a queued signal waiting at one place, or lost.
LEMMA QueueInvStep ==
  ASSUME TypeOK, BatchInv, QueueInv, RegisteredInv, PassInv, [Next]_vars
  PROVE  QueueInv'
  <1>0. /\ stack \in Seq(Frame) /\ queued \in [Signal -> BOOLEAN] /\ batchQueue \in Seq(Signal)
        /\ QueueFits(stack, batchQueue, queued, stranded)
    BY DEF TypeOK, QueueInv
  <1>1. ASSUME QueueFits(stack', batchQueue', queued', stranded') PROVE QueueInv'
    BY <1>1 DEF QueueInv
  <1>2. ASSUME Top.op \notin {"loop", "drain"}
        PROVE  Top \in Frame /\ Below \in Seq(Frame) /\ QueueFits(Below, batchQueue, queued, stranded)
    <2>1. Top \in Frame /\ Below \in Seq(Frame) /\ stack = Push(Top, Below)
      BY <1>2, TopFrame
    <2>2. QED
      BY <1>0, <1>2, <2>1, OtherCallQueue
  <1>3. ASSUME Top.op = "drain"
        PROVE  /\ Top \in Frame /\ Below \in Seq(Frame) /\ batchQueue = <<>> /\ Top.rest \in Seq(Signal)
               /\ QueueFits(Below, Top.rest, queued, stranded)
    <2>1. Top \in Frame /\ Below \in Seq(Frame) /\ stack = Push(Top, Below)
      BY <1>3, TopFrame
    <2>2. PICK f, q : f = Top /\ q = Below
      OBVIOUS
    <2>3. /\ BatchCount(q) \in Nat
          /\ BatchCount(Push(f, q)) = BatchCount(q) + (IF f.op = "batch" THEN 1 ELSE 0)
          /\ Isolated(Push(f, q)) <=> Isolated(q) /\ (f.op \in {"notify", "drain"} => BatchCount(q) = 0)
      BY <2>1, <2>2, BatchesPushed
    <2>4. BatchCount(stack) = 0
      BY <1>3, <2>1, <2>2, <2>3 DEF BatchInv
    <2>5. batchQueue = <<>>
      BY <2>4 DEF BatchInv
    <2>6. QueueFits(Push(f, q), <<>>, queued, stranded) <=> QueueFits(q, f.rest, queued, stranded)
      BY <1>3, <2>1, <2>2, DrainCallQueue
    <2>7. QED
      BY <1>0, <1>3, <2>1, <2>2, <2>5, <2>6, DrainFields
  <1>4. ASSUME NEW f \in Frame, NEW q \in Seq(Frame), stack' = Push(f, q), f.op # "drain",
               QueueFits(q, batchQueue', queued', stranded')
        PROVE  QueueInv'
    BY <1>1, <1>4, OtherCallQueue
  <1>5. CASE UNCHANGED <<stack, batchQueue, queued, stranded>>
    BY <1>0, <1>1, <1>5
  <1>6. ASSUME NEW s \in Signal, NEW below \in Seq(Frame), Notify(s, below),
               QueueFits(below, batchQueue', queued', stranded')
        PROVE  QueueInv'
    <2>1. \/ stack' = below
          \/ stack' = Push(NotifyFrame(s, 0), below) /\ NotifyFrame(s, 0) \in Frame
      BY <1>6, NotifyStep
    <2>2. NotifyFrame(s, 0).op # "drain"
      BY DEF NotifyFrame
    <2>3. QED
      BY <1>1, <1>4, <1>6, <2>1, <2>2
  <1>7. ASSUME NEW s \in Signal, NEW v \in Value, Set(s, v) PROVE QueueInv'
    <2>1. Publish(s, stack) /\ stranded' = stranded
      BY <1>7 DEF Set
    <2>2. CASE Notify(s, stack) /\ UNCHANGED <<queued, batchQueue>>
      BY <1>0, <1>6, <2>1, <2>2
    <2>3. CASE /\ stack' = stack /\ queued' = [queued EXCEPT ![s] = TRUE]
               /\ queued[s] => batchQueue' = batchQueue
               /\ ~queued[s] => batchQueue' = Append(batchQueue, s)
      <3>1. CASE queued[s]
        <4>1. queued' = queued
          BY <1>0, <2>3, <3>1
        <4>2. QED
          BY <1>5, <2>1, <2>3, <3>1, <4>1
      <3>2. CASE ~queued[s]
        BY <1>0, <1>1, <2>1, <2>3, <3>2, QueuedFits
      <3>3. QED
        BY <3>1, <3>2
    <2>4. QED
      BY <2>1, <2>2, <2>3, PublishStep
  <1>8. ASSUME NEW s \in Signal, NEW x \in Listener, Subscribe(x, s) \/ Unsubscribe(x, s)
        PROVE  QueueInv'
    BY <1>5, <1>8 DEF Subscribe, Unsubscribe
  <1>9. CASE BeginBatch \/ BeginRecover
    <2>1. \E f \in Frame : f.op # "drain" /\ stack' = Push(f, stack)
      BY <1>9, NewFrames DEF BeginBatch, BeginRecover, Push
    <2>2. UNCHANGED <<batchQueue, queued, stranded>>
      BY <1>9 DEF BeginBatch, BeginRecover, signalVars, historyVars
    <2>3. QED
      BY <1>0, <1>4, <2>1, <2>2
  <1>10. ASSUME Top.op \notin {"loop", "drain"}, stack' = Below, UNCHANGED <<batchQueue, queued, stranded>>
         PROVE  QueueInv'
    BY <1>1, <1>2, <1>10
  <1>11. CASE Return
    <2>1. Top.op \notin {"loop", "drain"} /\ stack' = Below /\ UNCHANGED <<batchQueue, queued, stranded>>
      BY <1>11 DEF Return, signalVars, historyVars
    <2>2. QED
      BY <1>10, <2>1
  <1>12. CASE Recovered
    <2>1. UNCHANGED <<batchQueue, queued, stranded>> /\ Top.op \in {"loop", "recover"}
      BY <1>12 DEF Recovered, signalVars, historyVars
    <2>2. CASE stack = <<>>
      BY <1>5, <1>12, <2>1, <2>2 DEF Recovered
    <2>3. CASE stack # <<>>
      <3>1. Top = Head(stack) /\ stack' = Below
        BY <1>12, <2>3 DEF Recovered, Top
      <3>2. Top \in Frame
        BY <1>0, <2>3, <3>1, Popped
      <3>3. Top.op # "loop"
        BY <3>2 DEF Frame
      <3>4. QED
        BY <1>10, <2>1, <3>1, <3>3
    <2>4. QED
      BY <2>2, <2>3
  <1>13. CASE EndBatch
    <2>1. Top.op = "batch" /\ UNCHANGED <<queued, stranded>>
      BY <1>13 DEF EndBatch, historyVars
    <2>2. Below \in Seq(Frame) /\ QueueFits(Below, batchQueue, queued, stranded)
      BY <1>2, <2>1
    <2>3. PICK f \in Frame : /\ f.op = "drain" /\ f.rest = batchQueue
                             /\ f = [op |-> "drain", rest |-> batchQueue, rethrow |-> panicking]
      BY NewFrames DEF TypeOK
    <2>4. QueueFits(Push(f, Below), <<>>, queued, stranded)
      BY <2>2, <2>3, DrainCallQueue
    <2>5. \/ stack' = Push(f, Below) /\ batchQueue' = <<>>
          \/ stack' = Below /\ batchQueue' = batchQueue
      BY <1>13, <2>3, EndBatchStep
    <2>6. QED
      BY <1>1, <2>1, <2>2, <2>4, <2>5
  <1>14. CASE NotifyNext(value)
    <2>1. Top.op = "notify" /\ UNCHANGED <<batchQueue, queued, stranded>>
      BY <1>14 DEF NotifyNext
    <2>2. PICK e \in Entry : \/ stack' = Push(Stepped(Top, e.who), Below)
                             \/ stack' = Push([op |-> "call", who |-> e.who], Push(Stepped(Top, e.who), Below))
      BY <1>14, NotifyNextStep
    <2>3. PICK g : g = Stepped(Top, e.who)
      OBVIOUS
    <2>4. Top \in Frame /\ Below \in Seq(Frame) /\ QueueFits(Below, batchQueue, queued, stranded)
      BY <1>2, <2>1
    <2>5. g \in Frame /\ g.op = "notify"
      BY <2>1, <2>3, <2>4, SteppedFields
    <2>6. Push(g, Below) \in Seq(Frame) /\ QueueFits(Push(g, Below), batchQueue, queued, stranded)
      BY <2>4, <2>5, Pushed, OtherCallQueue
    <2>7. PICK f \in Frame : f.op = "call" /\ f = [op |-> "call", who |-> e.who]
      BY NewFrames DEF Entry, EntryOf
    <2>8. CASE stack' = Push(f, Push(g, Below))
      BY <1>4, <2>1, <2>6, <2>7, <2>8
    <2>9. CASE stack' = Push(g, Below)
      BY <1>1, <2>1, <2>6, <2>9
    <2>10. QED
      BY <2>2, <2>3, <2>7, <2>8, <2>9
  <1>15. CASE DrainNext
    <2>1. Top.op = "drain" /\ UNCHANGED <<batchQueue, stranded>>
      BY <1>15 DEF DrainNext
    <2>2. PICK s, rest : s = Head(Top.rest) /\ rest = Tail(Top.rest)
      OBVIOUS
    <2>3. /\ s \in Signal /\ rest \in Seq(Signal) /\ Top.rest # <<>> /\ Notify(s, Push(Holding(Top, rest), Below))
          /\ queued' = [queued EXCEPT ![s] = FALSE]
      BY <1>15, <2>2, DrainNextStep
    <2>4. /\ Top \in Frame /\ Below \in Seq(Frame) /\ batchQueue = <<>> /\ Top.rest \in Seq(Signal)
          /\ QueueFits(Below, Top.rest, queued, stranded)
      BY <1>3, <2>1
    <2>5. QueueFits(Below, rest, queued', stranded)
      BY <1>0, <2>2, <2>3, <2>4, TakenFits
    <2>6. PICK f \in Frame : f.op = "drain" /\ f.rest = rest /\ f = Holding(Top, rest)
      BY <2>1, <2>3, <2>4, HoldingFields
    <2>7. Push(f, Below) \in Seq(Frame) /\ QueueFits(Push(f, Below), <<>>, queued', stranded)
      BY <2>4, <2>5, <2>6, Pushed, DrainCallQueue
    <2>8. QED
      BY <1>6, <2>1, <2>3, <2>4, <2>6, <2>7
  <1>16. CASE DrainEnd
    <2>1. Top.op = "drain" /\ batchQueue' = <<>> /\ Top.rest = <<>> /\ UNCHANGED <<queued, stranded>>
      BY <1>16 DEF DrainEnd, historyVars
    <2>2. /\ Top \in Frame /\ Below \in Seq(Frame) /\ batchQueue = <<>>
          /\ QueueFits(Below, <<>>, queued, stranded)
      BY <1>3, <2>1
    <2>3. PICK f \in Frame : f.op = "drain" /\ f.rest = <<>> /\ f = Holding(Top, <<>>)
      <3>1. <<>> \in Seq(Signal)
        OBVIOUS
      <3>2. QED
        BY <2>1, <2>2, <3>1, HoldingFields
    <2>4. stack' = Below \/ stack' = Push(f, Below)
      BY <1>16, <2>2, <2>3, DrainEndStep
    <2>5. QueueFits(Push(f, Below), <<>>, queued, stranded)
      BY <2>2, <2>3, DrainCallQueue
    <2>6. QED
      BY <1>1, <2>1, <2>2, <2>4, <2>5
  <1>17. CASE NotifyPassEnd
    <2>1. Top.op = "notify" /\ UNCHANGED <<batchQueue, queued, stranded>>
      BY <1>17 DEF NotifyPassEnd
    <2>2. Top \in Frame /\ Below \in Seq(Frame) /\ QueueFits(Below, batchQueue, queued, stranded)
      BY <1>2, <2>1
    <2>3. \A s \in Signal, pass \in Nat : NotifyFrame(s, pass) \in Frame /\ NotifyFrame(s, pass).op = "notify"
      BY NewNotify
    <2>4. stack' = Below \/ \E f \in Frame : f.op # "drain" /\ stack' = Push(f, Below)
      BY <1>17, <2>3, NotifyPassEndStep
    <2>5. QED
      BY <1>1, <1>4, <2>1, <2>2, <2>4
  <1>18. CASE Unwind
    <2>1. stack' = Below /\ Top.op \in {"call", "drain", "notify"} /\ UNCHANGED <<batchQueue, queued>>
      BY <1>18 DEF Unwind
    <2>2. CASE Top.op = "drain"
      <3>1. stranded' = stranded \union ToSet(Top.rest)
        BY <1>18, <2>2 DEF Unwind
      <3>2. Below \in Seq(Frame) /\ batchQueue = <<>> /\ QueueFits(Below, Top.rest, queued, stranded)
        BY <1>3, <2>2
      <3>3. QED
        BY <1>1, <2>1, <3>1, <3>2, LostFits
    <2>3. CASE Top.op # "drain"
      <3>1. stranded' = stranded
        BY <1>18, <2>3 DEF Unwind
      <3>2. QED
        BY <1>10, <2>1, <2>3, <3>1
    <2>4. QED
      BY <2>2, <2>3
  <1>19. CASE Panic \/ UNCHANGED vars
    BY <1>5, <1>19 DEF Panic, vars, signalVars, historyVars
  <1>20. QED
    BY <1>7, <1>8, <1>9, <1>11, <1>12, <1>13, <1>14, <1>15, <1>16, <1>17, <1>18, <1>19 DEF Next,
           Deliver
-----------------------------------------------------------------------------
(* Registrations and the passes over them *)


\* What a step does to the registrations: one listener more, one less, or a compaction.
LEMMA SubsStep ==
  ASSUME TypeOK, RegisteredInv, PassInv, [Next]_vars
  PROVE  \/ subs' = subs
         \/ \E s \in Signal, x \in Listener :
              /\ x \notin Registered
              /\ subs' = [subs EXCEPT ![s] = Append(subs[s], [who |-> x, dead |-> FALSE])]
         \/ \E s \in Signal, x \in Listener : subs' = [subs EXCEPT ![s] = Removed(s, subs[s], x)]
         \/ \E s \in Signal : subs' = [subs EXCEPT ![s] = Compacted(subs[s])]
  <1>1. ASSUME NEW s \in Signal, NEW v \in Value, Set(s, v) PROVE subs' = subs
    BY <1>1 DEF Set
  <1>2. ASSUME NEW s \in Signal, NEW x \in Listener, Subscribe(x, s)
        PROVE  x \notin Registered /\ subs' = [subs EXCEPT ![s] = Append(subs[s], [who |-> x, dead |-> FALSE])]
    BY <1>2 DEF Subscribe
  <1>3. ASSUME NEW s \in Signal, NEW x \in Listener, Unsubscribe(x, s)
        PROVE  subs' = [subs EXCEPT ![s] = Removed(s, subs[s], x)]
    BY <1>3 DEF Unsubscribe
  <1>4. ASSUME BeginBatch \/ BeginRecover \/ EndBatch \/ Return \/ Panic \/ NotifyNext(value) \/ DrainNext
                 \/ DrainEnd \/ Recovered \/ UNCHANGED vars
        PROVE  subs' = subs
    BY <1>4 DEF BeginBatch, BeginRecover, EndBatch, Return, Panic, NotifyNext, DrainNext,
           DrainEnd, Recovered,
                vars, signalVars
  <1>5. ASSUME NotifyPassEnd
        PROVE  subs' = subs \/ \E s \in Signal : subs' = [subs EXCEPT ![s] = Compacted(subs[s])]
    BY <1>5, NotifyPassEndStep
  <1>6. ASSUME Unwind
        PROVE  subs' = subs \/ \E s \in Signal : subs' = [subs EXCEPT ![s] = Compacted(subs[s])]
    <2>1. CASE Top.op = "notify"
      <3>1. Top.sig \in Signal
        BY <2>1, TopFrame, NotifyFields
      <3>2. QED
        BY <1>6, <2>1, <3>1 DEF Unwind, EndNotify
    <2>2. CASE Top.op # "notify"
      BY <1>6, <2>2 DEF Unwind
    <2>3. QED
      BY <2>1, <2>2
  <1>7. QED
    BY <1>1, <1>2, <1>3, <1>4, <1>5, <1>6 DEF Next, Deliver

\* Registered, signal by signal.
LEMMA RegisteredWhos ==
  Registered = UNION {Whos(subs[s]) : s \in Signal}
  BY DEF Registered, Whos

\* Every step keeps everybody registered once.
LEMMA RegisteredStep ==
  ASSUME TypeOK, RegisteredInv, PassInv, [Next]_vars
  PROVE  RegisteredInv'
  <1>1. ASSUME NEW s \in Signal, NEW new, subs' = [subs EXCEPT ![s] = new],
               OneEach(new), \A t \in Signal : t # s => Whos(new) \intersect Whos(subs[t]) = {}
        PROVE  RegisteredInv'
    <2>1. subs'[s] = new /\ \A t \in Signal : t # s => subs'[t] = subs[t]
      BY <1>1 DEF TypeOK
    <2>2. QED
      BY <1>1, <2>1 DEF RegisteredInv
  <1>2. CASE subs' = subs
    BY <1>2 DEF RegisteredInv
  <1>3. ASSUME NEW s \in Signal, NEW x \in Listener, x \notin Registered,
               subs' = [subs EXCEPT ![s] = Append(subs[s], [who |-> x, dead |-> FALSE])]
        PROVE  RegisteredInv'
    <2>1. \A t \in Signal : x \notin Whos(subs[t])
      BY <1>3, RegisteredWhos
    <2>2. PICK new : new = Append(subs[s], [who |-> x, dead |-> FALSE])
      OBVIOUS
    <2>3. subs[s] \in Seq(Entry) /\ OneEach(subs[s])
      BY DEF TypeOK, RegisteredInv
    <2>4. OneEach(new) /\ Whos(new) = Whos(subs[s]) \union {x}
      BY <2>1, <2>2, <2>3, AppendedFacts
    <2>5. \A t \in Signal : t # s => Whos(new) \intersect Whos(subs[t]) = {}
      BY <2>1, <2>4 DEF RegisteredInv
    <2>6. QED
      BY <1>1, <1>3, <2>2, <2>4, <2>5
  <1>4. ASSUME NEW s \in Signal, NEW new, subs' = [subs EXCEPT ![s] = new],
               OneEach(new), Whos(new) \subseteq Whos(subs[s])
        PROVE  RegisteredInv'
    BY <1>1, <1>4 DEF RegisteredInv
  <1>5. ASSUME NEW s \in Signal PROVE subs[s] \in Seq(Entry) /\ OneEach(subs[s])
    BY DEF TypeOK, RegisteredInv
  <1>6. ASSUME NEW s \in Signal, NEW x \in Listener, subs' = [subs EXCEPT ![s] = Removed(s, subs[s], x)]
        PROVE  RegisteredInv'
    BY <1>4, <1>5, <1>6, RemovedFacts
  <1>7. ASSUME NEW s \in Signal, subs' = [subs EXCEPT ![s] = Compacted(subs[s])]
        PROVE  RegisteredInv'
    BY <1>4, <1>5, <1>7, CompactedFacts
  <1>8. QED
    BY <1>2, <1>3, <1>6, <1>7, SubsStep

\* A new pass covers the slice it starts on.
LEMMA NewPassCovers ==
  ASSUME TypeOK, NEW s \in Signal, NEW pass \in Nat
  PROVE  Covers(NotifyFrame(s, pass), subs[s])
  <1>1. PICK f, e : f = NotifyFrame(s, pass) /\ e = subs[s]
    OBVIOUS
  <1>2. f.i = 1 /\ f.n = Len(e) /\ f.todo = LiveIn(e) /\ e \in Seq(Entry)
    BY <1>1, NewNotify DEF TypeOK
  <1>3. Len(e) \in Nat /\ DOMAIN e = f.i..f.n
    BY <1>2
  <1>4. \A j \in f.i..f.n : ~e[j].dead => e[j].who \in f.todo
    BY <1>2, <1>3, EntriesFacts
  <1>5. \A x \in f.todo : \E j \in f.i..f.n : e[j].who = x
    BY <1>2, <1>3, EntriesFacts
  <1>6. QED
    BY <1>1, <1>2, <1>3, <1>4, <1>5 DEF Covers


\* A pass does not mind entries added at the end, nor entries marked dead.
LEMMA CoversGrown ==
  ASSUME NEW f \in Frame, f.op = "notify", NEW e \in Seq(Entry), NEW g \in Seq(Entry), Covers(f, e),
         Len(e) <= Len(g),
         \A k \in DOMAIN e : g[k].who = e[k].who /\ (~g[k].dead => ~e[k].dead)
  PROVE  Covers(f, g)
  <1>1. f.i \in Nat /\ f.n \in Nat /\ Len(e) \in Nat /\ Len(g) \in Nat /\ DOMAIN e = 1..Len(e)
    BY NotifyFields
  <1>2. f.n <= Len(e) /\ 1 <= f.i /\ f.i <= f.n + 1
    BY DEF Covers
  <1>3. \A j \in f.i..f.n : j \in DOMAIN e
    BY <1>1, <1>2
  <1>4. f.n <= Len(g)
    BY <1>1, <1>2
  <1>5. QED
    BY <1>2, <1>3, <1>4 DEF Covers


\* A pass that moves on has dealt with the entry at the index.
LEMMA CoversStepped ==
  ASSUME NEW f \in Frame, f.op = "notify", NEW e \in Seq(Entry), Covers(f, e), OneEach(e), f.i <= f.n
  PROVE  Covers(Stepped(f, e[f.i].who), e)
  <1>1. PICK g : g = Stepped(f, e[f.i].who)
    OBVIOUS
  <1>2. g.i = f.i + 1 /\ g.n = f.n /\ g.todo = f.todo \ {e[f.i].who}
    BY <1>1, SteppedFields
  <1>3. f.i \in Nat /\ f.n \in Nat /\ Len(e) \in Nat /\ DOMAIN e = 1..Len(e)
    BY NotifyFields
  <1>4. f.n <= Len(e) /\ 1 <= f.i /\ f.i <= f.n + 1
    BY DEF Covers
  <1>5. 1 <= g.i /\ g.i <= g.n + 1 /\ g.n <= Len(e)
    BY <1>2, <1>3, <1>4
  <1>6. \A j \in g.i..g.n : j \in f.i..f.n /\ j # f.i /\ j \in DOMAIN e /\ f.i \in DOMAIN e
    BY <1>2, <1>3, <1>4
  <1>7. \A j \in g.i..g.n : e[j].who # e[f.i].who
    BY <1>6 DEF OneEach
  <1>8. \A j \in g.i..g.n : ~e[j].dead => e[j].who \in g.todo
    BY <1>2, <1>6, <1>7 DEF Covers
  <1>9. \A j \in f.i..f.n : j = f.i \/ j \in g.i..g.n
    BY <1>2, <1>3
  <1>10. \A x \in g.todo : \E j \in g.i..g.n : e[j].who = x
    <2>1. \A x \in g.todo : \E j \in f.i..f.n : e[j].who = x /\ x # e[f.i].who
      BY <1>2 DEF Covers
    <2>2. QED
      BY <1>9, <2>1
  <1>11. QED
    BY <1>1, <1>5, <1>8, <1>10 DEF Covers

\* Every step keeps every pass on the slice it started on: nothing is compacted under a
\* running notification, and what is added lies beyond its end.
LEMMA PassStep ==
  ASSUME TypeOK, NotifyInv, RegisteredInv, PassInv, [Next]_vars
  PROVE  PassInv'
  <1>0. stack \in Seq(Frame) /\ \A s \in Signal : subs[s] \in Seq(Entry) /\ OneEach(subs[s])
    BY DEF TypeOK, RegisteredInv
  <1>1. ASSUME UNCHANGED subs,
               \A f \in ToSet(stack') : f \in ToSet(stack) \/ (f.op = "notify" => Covers(f, subs[f.sig]))
        PROVE  PassInv'
    BY <1>1 DEF PassInv
  <1>2. ASSUME Top.op # "loop"
        PROVE  Top \in Frame /\ Below \in Seq(Frame) /\ ToSet(stack) = {Top} \union ToSet(Below)
    <2>1. Top \in Frame /\ Below \in Seq(Frame) /\ stack = Push(Top, Below)
      BY <1>2, TopFrame
    <2>2. ToSet(Push(Top, Below)) = {Top} \union ToSet(Below)
      BY <2>1, Pushed
    <2>3. QED
      BY <2>1, <2>2
  <1>3. ASSUME NEW f \in Frame, NEW q \in Seq(Frame) PROVE ToSet(Push(f, q)) = {f} \union ToSet(q)
    BY Pushed
  <1>4. ASSUME NEW s \in Signal, NEW pass \in Nat
        PROVE  NotifyFrame(s, pass) \in Frame /\ NotifyFrame(s, pass).op = "notify"
               /\ NotifyFrame(s, pass).sig = s /\ Covers(NotifyFrame(s, pass), subs[s])
    BY NewNotify, NewPassCovers
  <1>5. ASSUME NEW s \in Signal, NEW below \in Seq(Frame), Notify(s, below), UNCHANGED subs,
               \A f \in ToSet(below) : f \in ToSet(stack) \/ f.op # "notify"
        PROVE  PassInv'
    <2>1. \/ stack' = below
          \/ stack' = Push(NotifyFrame(s, 0), below)
      BY <1>5, NotifyStep
    <2>2. PICK f \in Frame : f = NotifyFrame(s, 0) /\ f.op = "notify" /\ f.sig = s /\ Covers(f, subs[s])
      BY <1>4
    <2>3. ToSet(Push(f, below)) = {f} \union ToSet(below)
      BY <1>3
    <2>4. QED
      BY <1>1, <1>5, <2>1, <2>2, <2>3
  \* The registrations change.
  <1>6. ASSUME NEW s \in Signal, NEW new \in Seq(Entry), subs' = [subs EXCEPT ![s] = new], UNCHANGED stack,
               Len(subs[s]) <= Len(new),
               \A k \in DOMAIN subs[s] : new[k].who = subs[s][k].who /\ (~new[k].dead => ~subs[s][k].dead)
        PROVE  PassInv'
    <2>1. SUFFICES ASSUME NEW f \in ToSet(stack), f.op = "notify" PROVE Covers(f, subs'[f.sig])
      BY <1>6 DEF PassInv
    <2>2. f \in Frame
      BY <1>0 DEF ToSet
    <2>3. f.sig \in Signal /\ Covers(f, subs[f.sig])
      BY <2>1, <2>2, NotifyFields DEF PassInv
    <2>4. CASE f.sig = s
      <3>1. subs'[s] = new
        BY <1>6 DEF TypeOK
      <3>2. PICK e \in Seq(Entry) : e = subs[s]
        BY <1>0
      <3>3. Covers(f, new)
        BY <1>6, <2>1, <2>2, <2>3, <2>4, <3>2, CoversGrown
      <3>4. QED
        BY <2>4, <3>1, <3>3
    <2>5. CASE f.sig # s
      <3>1. subs'[f.sig] = subs[f.sig]
        BY <1>6, <2>3, <2>5 DEF TypeOK
      <3>2. QED
        BY <2>3, <3>1
    <2>6. QED
      BY <2>4, <2>5
  <1>7. ASSUME NEW s \in Signal, ~Notified(stack', s), subs' = [subs EXCEPT ![s] = Compacted(subs[s])],
               stack' \in Seq(Frame), ToSet(stack') \subseteq ToSet(stack)
        PROVE  PassInv'
    <2>1. SUFFICES ASSUME NEW f \in ToSet(stack'), f.op = "notify" PROVE Covers(f, subs'[f.sig])
      BY DEF PassInv
    <2>2. f \in Frame /\ f \in ToSet(stack)
      <3>1. f \in ToSet(stack)
        BY <1>7
      <3>2. \A k \in DOMAIN stack : stack[k] \in Frame
        BY <1>0
      <3>3. QED
        BY <3>1, <3>2 DEF ToSet
    <2>3. f.sig \in Signal /\ Covers(f, subs[f.sig])
      BY <2>1, <2>2, NotifyFields DEF PassInv
    <2>4. f.sig # s
      BY <1>7, <2>1 DEF Notified, IsNotify, ToSet
    <2>5. subs'[f.sig] = subs[f.sig]
      BY <1>7, <2>3, <2>4 DEF TypeOK
    <2>6. QED
      BY <2>3, <2>5
  <1>8. ASSUME NEW s \in Signal, NEW v \in Value, Set(s, v) PROVE PassInv'
    <2>1. Publish(s, stack) /\ subs' = subs
      BY <1>8 DEF Set
    <2>2. CASE Notify(s, stack)
      BY <1>0, <1>5, <2>1, <2>2
    <2>3. QED
      BY <1>1, <2>1, <2>2, PublishStep
  <1>9. ASSUME NEW s \in Signal, NEW x \in Listener, Subscribe(x, s) PROVE PassInv'
    <2>1. PICK new : new = Append(subs[s], [who |-> x, dead |-> FALSE])
      OBVIOUS
    <2>2. subs' = [subs EXCEPT ![s] = new] /\ stack' = stack
      BY <1>9, <2>1 DEF Subscribe
    <2>3. /\ new \in Seq(Entry) /\ Len(new) = Len(subs[s]) + 1
          /\ \A k \in DOMAIN subs[s] : new[k] = subs[s][k]
      BY <1>0, <2>1, AppendedFacts
    <2>4. Len(subs[s]) <= Len(new)
      <3>1. Len(subs[s]) \in Nat
        BY <1>0
      <3>2. QED
        BY <2>3, <3>1
    <2>5. \A k \in DOMAIN subs[s] : new[k].who = subs[s][k].who /\ (~new[k].dead => ~subs[s][k].dead)
      BY <2>3
    <2>6. QED
      BY <1>6, <2>2, <2>3, <2>4, <2>5
  <1>10. ASSUME NEW s \in Signal, NEW x \in Listener, Unsubscribe(x, s) PROVE PassInv'
    <2>1. subs' = [subs EXCEPT ![s] = Removed(s, subs[s], x)] /\ stack' = stack
      BY <1>10 DEF Unsubscribe
    <2>2. PICK m : m = Marked(subs[s], x)
      OBVIOUS
    <2>3. CASE notifying[s]
      <3>1. subs' = [subs EXCEPT ![s] = m]
        BY <2>1, <2>2, <2>3 DEF Removed
      <3>2. /\ m \in Seq(Entry) /\ Len(m) = Len(subs[s])
            /\ \A k \in DOMAIN subs[s] : m[k].who = subs[s][k].who /\ (~m[k].dead => ~subs[s][k].dead)
        BY <1>0, <2>2, MarkedFacts
      <3>3. Len(subs[s]) <= Len(m)
        <4>1. Len(subs[s]) \in Nat
          BY <1>0
        <4>2. QED
          BY <3>2, <4>1
      <3>4. QED
        BY <1>6, <2>1, <3>1, <3>2, <3>3
    <2>4. CASE ~notifying[s]
      <3>1. SUFFICES ASSUME NEW f \in ToSet(stack), f.op = "notify" PROVE Covers(f, subs'[f.sig])
        BY <2>1 DEF PassInv
      <3>2. f \in Frame
        BY <1>0 DEF ToSet
      <3>3. f.sig \in Signal /\ Covers(f, subs[f.sig])
        BY <3>1, <3>2, NotifyFields DEF PassInv
      <3>4. Notified(stack, f.sig)
        BY <3>1 DEF Notified, IsNotify, ToSet
      <3>5. f.sig # s
        BY <2>4, <3>3, <3>4 DEF NotifyInv, NotifyFits
      <3>6. subs'[f.sig] = subs[f.sig]
        BY <2>1, <3>3, <3>5 DEF TypeOK
      <3>7. QED
        BY <3>3, <3>6
    <2>5. QED
      BY <2>3, <2>4
  <1>11. CASE BeginBatch \/ BeginRecover
    <2>1. \E f \in Frame : f.op # "notify" /\ stack' = Push(f, stack)
      BY <1>11, NewFrames DEF BeginBatch, BeginRecover, Push
    <2>2. subs' = subs
      BY <1>11 DEF BeginBatch, BeginRecover, signalVars
    <2>3. QED
      BY <1>0, <1>1, <1>3, <2>1, <2>2
  <1>12. ASSUME Top.op # "loop", stack' = Below, subs' = subs PROVE PassInv'
    BY <1>1, <1>2, <1>12
  <1>13. CASE Return
    <2>1. Top.op # "loop" /\ stack' = Below /\ subs' = subs
      BY <1>13 DEF Return, signalVars
    <2>2. QED
      BY <1>12, <2>1
  <1>14. CASE Recovered
    <2>1. subs' = subs
      BY <1>14 DEF Recovered, signalVars
    <2>2. CASE stack = <<>>
      BY <1>1, <1>14, <2>1, <2>2 DEF Recovered
    <2>3. CASE stack # <<>>
      <3>1. Top = Head(stack) /\ stack' = Below
        BY <1>14, <2>3 DEF Recovered, Top
      <3>2. Top \in Frame
        BY <1>0, <2>3, <3>1, Popped
      <3>3. Top.op # "loop"
        BY <3>2 DEF Frame
      <3>4. QED
        BY <1>12, <2>1, <3>1, <3>3
    <2>4. QED
      BY <2>2, <2>3
  <1>15. CASE EndBatch
    <2>1. Top.op = "batch" /\ subs' = subs
      BY <1>15 DEF EndBatch
    <2>2. \E f \in Frame : /\ f.op = "drain"
                           /\ f = [op |-> "drain", rest |-> batchQueue, rethrow |-> panicking]
      BY NewFrames DEF TypeOK
    <2>3. stack' = Below \/ \E f \in Frame : f.op = "drain" /\ stack' = Push(f, Below)
      BY <1>15, <2>2, EndBatchStep
    <2>4. QED
      BY <1>1, <1>2, <1>3, <2>1, <2>3
  <1>16. CASE NotifyNext(value)
    <2>1. subs' = subs
      BY <1>16 DEF NotifyNext
    <2>2. PICK e \in Entry : /\ Top.op = "notify" /\ Top.sig \in Signal /\ Top.i <= Top.n
                             /\ e = subs[Top.sig][Top.i]
                             /\ \/ stack' = Push(Stepped(Top, e.who), Below)
                                \/ stack' = Push([op |-> "call", who |-> e.who], Push(Stepped(Top, e.who), Below))
      BY <1>16, NotifyNextStep
    <2>3. Top \in Frame /\ Below \in Seq(Frame) /\ ToSet(stack) = {Top} \union ToSet(Below)
      BY <1>2, <2>2
    <2>4. PICK g : g = Stepped(Top, e.who)
      OBVIOUS
    <2>5. g \in Frame /\ g.op = "notify" /\ g.sig = Top.sig
      BY <2>2, <2>3, <2>4, SteppedFields
    <2>6. Covers(Top, subs[Top.sig])
      BY <2>2, <2>3 DEF PassInv
    <2>7. Covers(g, subs[g.sig])
      BY <1>0, <2>2, <2>3, <2>4, <2>5, <2>6, CoversStepped
    <2>8. PICK f \in Frame : f.op = "call" /\ f = [op |-> "call", who |-> e.who]
      BY NewFrames DEF Entry, EntryOf
    <2>9. Push(g, Below) \in Seq(Frame) /\ ToSet(Push(g, Below)) = {g} \union ToSet(Below)
      BY <2>3, <2>5, Pushed
    <2>10. ToSet(Push(f, Push(g, Below))) = {f} \union ({g} \union ToSet(Below))
      BY <1>3, <2>8, <2>9
    <2>11. \A h \in ToSet(stack') : h \in ToSet(stack) \/ h = g \/ h = f
      BY <2>2, <2>3, <2>4, <2>8, <2>9, <2>10
    <2>12. QED
      BY <1>1, <2>1, <2>5, <2>7, <2>8, <2>11
  <1>17. CASE DrainNext
    <2>1. Top.op = "drain" /\ subs' = subs
      BY <1>17 DEF DrainNext
    <2>2. PICK s \in Signal, rest \in Seq(Signal) : Notify(s, Push(Holding(Top, rest), Below))
      BY <1>17, DrainNextStep
    <2>3. Top \in Frame /\ Below \in Seq(Frame) /\ ToSet(stack) = {Top} \union ToSet(Below)
      BY <1>2, <2>1
    <2>4. PICK f \in Frame : f.op = "drain" /\ f = Holding(Top, rest)
      BY <2>1, <2>3, HoldingFields
    <2>5. Push(f, Below) \in Seq(Frame) /\ ToSet(Push(f, Below)) = {f} \union ToSet(Below)
      BY <2>3, Pushed
    <2>6. QED
      BY <1>5, <2>1, <2>2, <2>3, <2>4, <2>5
  <1>18. CASE DrainEnd
    <2>1. Top.op = "drain" /\ subs' = subs
      BY <1>18 DEF DrainEnd
    <2>2. Top \in Frame /\ Below \in Seq(Frame) /\ ToSet(stack) = {Top} \union ToSet(Below)
      BY <1>2, <2>1
    <2>3. batchQueue \in Seq(Signal)
      BY DEF TypeOK
    <2>4. PICK f \in Frame : f.op = "drain" /\ f = Holding(Top, batchQueue)
      BY <2>1, <2>2, <2>3, HoldingFields
    <2>5. stack' = Below \/ stack' = Push(f, Below)
      BY <1>18, <2>4, DrainEndStep
    <2>6. QED
      BY <1>1, <1>3, <2>1, <2>2, <2>4, <2>5
  <1>19. ASSUME Top.op = "notify", stack' = Below
         PROVE  /\ Below \in Seq(Frame) /\ ToSet(Below) \subseteq ToSet(stack) /\ Top.sig \in Signal
                /\ ~Notified(stack', Top.sig)
    <2>1. Top \in Frame /\ Below \in Seq(Frame) /\ stack = Push(Top, Below)
      BY <1>19, TopFrame
    <2>2. Top.sig \in Signal /\ notifying \in [Signal -> BOOLEAN]
      BY <1>19, <2>1, NotifyFields DEF TypeOK
    <2>3. NotifyFits(Below, [notifying EXCEPT ![Top.sig] = FALSE])
      BY <1>19, <2>1, <2>2, NotifyCallFits DEF NotifyInv
    <2>4. ~Notified(Below, Top.sig)
      BY <2>2, <2>3 DEF NotifyFits
    <2>5. QED
      BY <1>2, <1>19, <2>1, <2>2, <2>4
  <1>20. CASE NotifyPassEnd
    <2>1. Top.op = "notify" /\ Top.sig \in Signal
      BY <1>20, NotifyPassEndStep
    <2>2. Top \in Frame /\ Below \in Seq(Frame) /\ ToSet(stack) = {Top} \union ToSet(Below)
      BY <1>2, <2>1
    <2>3. CASE stack' = Push(NotifyFrame(Top.sig, Top.pass + 1), Below) /\ Top.pass + 1 \in Nat /\ subs' = subs
      <3>1. PICK f \in Frame : /\ f = NotifyFrame(Top.sig, Top.pass + 1)
                               /\ f.op = "notify" /\ f.sig = Top.sig /\ Covers(f, subs[Top.sig])
        BY <1>4, <2>1, <2>3
      <3>2. ToSet(Push(f, Below)) = {f} \union ToSet(Below)
        BY <1>3, <2>2
      <3>3. QED
        BY <1>1, <2>2, <2>3, <3>1, <3>2
    <2>4. CASE subs' = [subs EXCEPT ![Top.sig] = Compacted(@)] /\ stack' = Below
      BY <1>7, <1>19, <2>1, <2>4
    <2>5. QED
      BY <1>20, <2>3, <2>4, NotifyPassEndStep
  <1>21. CASE Unwind
    <2>1. stack' = Below /\ Top.op # "loop"
      BY <1>21 DEF Unwind
    <2>2. CASE Top.op = "notify"
      <3>1. subs' = [subs EXCEPT ![Top.sig] = Compacted(@)]
        BY <1>21, <2>2 DEF Unwind, EndNotify
      <3>2. QED
        BY <1>7, <1>19, <2>1, <2>2, <3>1
    <2>3. CASE Top.op # "notify"
      <3>1. subs' = subs
        BY <1>21, <2>3 DEF Unwind
      <3>2. QED
        BY <1>12, <2>1, <3>1
    <2>4. QED
      BY <2>2, <2>3
  <1>22. CASE Panic \/ UNCHANGED vars
    BY <1>1, <1>22 DEF Panic, vars, signalVars
  <1>23. QED
    BY <1>8, <1>9, <1>10, <1>11, <1>13, <1>14, <1>15, <1>16, <1>17, <1>18, <1>20, <1>21,
       <1>22 DEF Next, Deliver
-----------------------------------------------------------------------------
(* Who has not seen a value will. *)
\* A listener is to run in a pass that is the innermost call or one below.
LEMMA ComingPushed ==
  ASSUME NEW f \in Frame, NEW q \in Seq(Frame), NEW s, NEW x
  PROVE  Coming(Push(f, q), s, x) <=> (IsNotify(f, s) /\ x \in f.todo) \/ Coming(q, s, x)
  <1>1. ToSet(Push(f, q)) = {f} \union ToSet(q)
    BY Pushed
  <1>2. QED
    BY <1>1 DEF Coming


\* notify tells every live listener, in the pass it starts or in the next one of the
\* running notification; no other signal is concerned.
LEMMA NotifyTells ==
  ASSUME TypeOK, NEW s \in Signal, NEW below \in Seq(Frame), Notify(s, below)
  PROVE  /\ \A x \in LiveIn(subs[s]) : (notifying'[s] /\ dirty'[s]) \/ Coming(stack', s, x)
         /\ \A t \in Signal : t # s => /\ notifying'[t] = notifying[t] /\ dirty'[t] = dirty[t]
                                       /\ t \notin cut' => t \notin cut
         /\ \A t, x : Coming(below, t, x) => Coming(stack', t, x)
  <1>1. CASE /\ notifying[s] /\ stack' = below /\ dirty' = [dirty EXCEPT ![s] = TRUE]
             /\ notifying' = notifying /\ cut' = cut
    <2>1. notifying'[s] /\ dirty'[s] /\ \A t \in Signal : t # s => dirty'[t] = dirty[t]
      BY <1>1 DEF TypeOK
    <2>2. QED
      BY <1>1, <2>1
  <1>2. CASE /\ stack' = Push(NotifyFrame(s, 0), below) /\ NotifyFrame(s, 0) \in Frame
             /\ notifying' = [notifying EXCEPT ![s] = TRUE]
             /\ dirty' = [dirty EXCEPT ![s] = FALSE]
             /\ cut' = cut \ {s}
    <2>1. PICK f \in Frame : f = NotifyFrame(s, 0) /\ f.op = "notify" /\ f.sig = s /\ f.todo = LiveIn(subs[s])
      BY NewNotify
    <2>2. \A t, x : Coming(stack', t, x) <=> (IsNotify(f, t) /\ x \in f.todo) \/ Coming(below, t, x)
      BY <1>2, <2>1, ComingPushed
    <2>3. \A x \in LiveIn(subs[s]) : Coming(stack', s, x)
      BY <2>1, <2>2 DEF IsNotify
    <2>4. \A t \in Signal : t # s => notifying'[t] = notifying[t] /\ dirty'[t] = dirty[t] /\ (t \notin cut' => t \notin cut)
      BY <1>2 DEF TypeOK
    <2>5. QED
      BY <2>2, <2>3, <2>4
  <1>3. QED
    BY <1>1, <1>2, NotifyStep

\* Every step keeps a listener that has not seen the value of a signal about to be told.
LEMMA ToldStep ==
  ASSUME TypeOK, RegisteredInv, PassInv, ToldInv, [Next]_vars
  PROVE  ToldInv'
  <1>0. /\ stack \in Seq(Frame)
        /\ \A s \in Signal : subs[s] \in Seq(Entry) /\ OneEach(subs[s])
        /\ \A s \in Signal : LiveIn(subs[s]) \subseteq Listener
        /\ \A s, t \in Signal, x \in Listener : x \in Whos(subs[s]) /\ x \in LiveIn(subs[t]) => s = t
    <2>1. \A s \in Signal : subs[s] \in Seq(Entry)
      BY DEF TypeOK
    <2>2. \A s \in Signal : LiveIn(subs[s]) \subseteq Whos(subs[s])
      BY <2>1, EntriesFacts
    <2>3. QED
      BY <2>1, <2>2 DEF TypeOK, RegisteredInv, LiveIn
  <1>1. ASSUME \A s \in Signal : s \notin cut' /\ s \notin stranded' => \A x \in LiveIn(subs'[s]) : WillSee(s, x)'
        PROVE  ToldInv'
    BY <1>1 DEF ToldInv
  \* Who was told remains so when nothing that tells it is taken away.
  <1>2. ASSUME NEW s \in Signal, s \notin cut, s \notin stranded, NEW x \in LiveIn(subs[s]),
               seen'[x] = seen[x], value'[s] = value[s], queued[s] => queued'[s],
               notifying[s] /\ dirty[s] => notifying'[s] /\ dirty'[s],
               Coming(stack, s, x) => Coming(stack', s, x)
        PROVE  WillSee(s, x)'
    <2>1. WillSee(s, x)
      BY <1>2 DEF ToldInv
    <2>2. QED
      BY <1>2, <2>1 DEF WillSee
  <1>3. ASSUME UNCHANGED <<value, seen, queued, notifying, dirty, cut>>, stranded \subseteq stranded',
               \A s \in Signal : LiveIn(subs'[s]) \subseteq LiveIn(subs[s]),
               \A s, x : Coming(stack, s, x) => Coming(stack', s, x)
        PROVE  ToldInv'
    BY <1>1, <1>2, <1>3
  <1>4. ASSUME NEW f \in Frame, NEW q \in Seq(Frame), f.op # "notify"
        PROVE  \A s, x : Coming(Push(f, q), s, x) <=> Coming(q, s, x)
    BY <1>4, ComingPushed DEF IsNotify
  <1>5. ASSUME Top.op \notin {"loop", "notify"}
        PROVE  /\ Top \in Frame /\ Below \in Seq(Frame)
               /\ \A s, x : Coming(stack, s, x) <=> Coming(Below, s, x)
    BY <1>4, <1>5, TopFrame
  <1>6. ASSUME Top.op = "notify"
        PROVE  /\ Top \in Frame /\ Below \in Seq(Frame) /\ Top.sig \in Signal
               /\ \A s, x : Coming(stack, s, x) <=> (s = Top.sig /\ x \in Top.todo) \/ Coming(Below, s, x)
    <2>1. Top \in Frame /\ Below \in Seq(Frame) /\ stack = Push(Top, Below) /\ Top.sig \in Signal
      BY <1>6, TopFrame, NotifyFields
    <2>2. \A s, x : Coming(stack, s, x) <=> (IsNotify(Top, s) /\ x \in Top.todo) \/ Coming(Below, s, x)
      BY <2>1, ComingPushed
    <2>3. QED
      BY <1>6, <2>1, <2>2 DEF IsNotify
  <1>7. ASSUME NEW s \in Signal, NEW v \in Value, Set(s, v) PROVE ToldInv'
    <2>1. /\ Publish(s, stack) /\ value' = [value EXCEPT ![s] = v]
          /\ UNCHANGED <<subs, seen, stranded>>
      BY <1>7 DEF Set
    <2>2. \A t \in Signal : t # s => value'[t] = value[t]
      BY <2>1 DEF TypeOK
    <2>3. CASE stack' = stack /\ queued' = [queued EXCEPT ![s] = TRUE] /\ UNCHANGED <<notifying, dirty, cut>>
      <3>1. queued'[s] /\ \A t \in Signal : queued[t] => queued'[t]
        BY <2>3 DEF TypeOK
      <3>2. \A x : WillSee(s, x)'
        BY <3>1 DEF WillSee
      <3>3. QED
        BY <1>1, <1>2, <2>1, <2>2, <2>3, <3>1, <3>2
    <2>4. CASE Notify(s, stack) /\ queued' = queued
      <3>1. /\ \A x \in LiveIn(subs[s]) : (notifying'[s] /\ dirty'[s]) \/ Coming(stack', s, x)
            /\ \A t \in Signal : t # s => /\ notifying'[t] = notifying[t] /\ dirty'[t] = dirty[t]
                                          /\ t \notin cut' => t \notin cut
            /\ \A t, x : Coming(stack, t, x) => Coming(stack', t, x)
        BY <1>0, <2>4, NotifyTells
      <3>2. \A x \in LiveIn(subs[s]) : WillSee(s, x)'
        BY <3>1 DEF WillSee
      <3>3. ASSUME NEW t \in Signal, t # s, t \notin cut', t \notin stranded', NEW x \in LiveIn(subs'[t])
            PROVE  WillSee(t, x)'
        BY <1>2, <2>1, <2>2, <2>4, <3>1, <3>3
      <3>4. QED
        BY <1>1, <2>1, <3>2, <3>3
    <2>5. QED
      BY <2>1, <2>3, <2>4, PublishStep
  <1>8. ASSUME NEW s \in Signal, NEW x \in Listener, Subscribe(x, s) PROVE ToldInv'
    <2>1. /\ x \notin Registered /\ subs' = [subs EXCEPT ![s] = Append(@, [who |-> x, dead |-> FALSE])]
          /\ seen' = [seen EXCEPT ![x] = value[s]]
          /\ UNCHANGED <<value, notifying, dirty, queued, cut, stranded, stack>>
      BY <1>8 DEF Subscribe
    <2>2. LiveIn(subs'[s]) = LiveIn(subs[s]) \union {x}
      <3>1. subs'[s] = Append(subs[s], [who |-> x, dead |-> FALSE])
        BY <2>1 DEF TypeOK
      <3>2. subs[s] \in Seq(Entry)
        BY <1>0
      <3>3. QED
        BY <3>1, <3>2, AppendedFacts
    <2>3. \A t \in Signal : t # s => subs'[t] = subs[t]
      BY <2>1 DEF TypeOK
    <2>4. \A t \in Signal : x \notin LiveIn(subs[t])
      <3>1. \A t \in Signal : x \notin Whos(subs[t])
        BY <2>1, RegisteredWhos
      <3>2. QED
        BY <1>0, <3>1, EntriesFacts
    <2>5. seen'[x] = value[s] /\ \A y \in Listener : y # x => seen'[y] = seen[y]
      BY <2>1 DEF TypeOK
    <2>6. WillSee(s, x)'
      BY <2>1, <2>5 DEF WillSee
    <2>7. ASSUME NEW t \in Signal, t \notin cut, t \notin stranded, NEW y \in LiveIn(subs[t])
          PROVE  WillSee(t, y)'
      <3>1. seen'[y] = seen[y]
        BY <1>0, <2>4, <2>5
      <3>2. QED
        BY <1>2, <2>1, <2>7, <3>1
    <2>8. QED
      BY <1>1, <2>1, <2>2, <2>3, <2>6, <2>7
  <1>9. ASSUME NEW s \in Signal, NEW x \in Listener, Unsubscribe(x, s) PROVE ToldInv'
    <2>1. /\ IsLive(x, s) /\ subs' = [subs EXCEPT ![s] = Removed(s, @, x)]
          /\ seen' = [seen EXCEPT ![x] = Unseen]
          /\ UNCHANGED <<value, notifying, dirty, queued, cut, stranded, stack>>
      BY <1>9 DEF Unsubscribe
    <2>2. LiveIn(subs'[s]) = LiveIn(subs[s]) \ {x}
      <3>1. subs'[s] = Removed(s, subs[s], x)
        BY <2>1 DEF TypeOK
      <3>2. PICK q \in Seq(Entry) : q = subs[s]
        BY <1>0
      <3>3. LiveIn(Removed(s, q, x)) = LiveIn(q) \ {x}
        BY ONLY RemovedFacts
      <3>4. QED
        BY <3>1, <3>2, <3>3
    <2>3. \A t \in Signal : t # s => subs'[t] = subs[t]
      BY <2>1 DEF TypeOK
    <2>4. x \in Whos(subs[s])
      <3>1. x \in LiveIn(subs[s])
        BY <2>1 DEF LiveIn, IsLive
      <3>2. QED
        BY <1>0, <3>1, EntriesFacts
    <2>5. \A y \in Listener : y # x => seen'[y] = seen[y]
      BY <2>1 DEF TypeOK
    <2>6. ASSUME NEW t \in Signal, t \notin cut, t \notin stranded, NEW y \in LiveIn(subs'[t])
          PROVE  WillSee(t, y)'
      <3>1. y \in LiveIn(subs[t]) /\ y # x
        BY <1>0, <2>2, <2>3, <2>4
      <3>2. seen'[y] = seen[y]
        BY <1>0, <2>5, <3>1
      <3>3. QED
        BY <1>2, <2>1, <2>6, <3>1, <3>2
    <2>7. QED
      BY <1>1, <2>1, <2>6
  <1>10. CASE BeginBatch \/ BeginRecover
    <2>1. \E f \in Frame : f.op # "notify" /\ stack' = Push(f, stack)
      BY <1>10, NewFrames DEF BeginBatch, BeginRecover, Push
    <2>2. UNCHANGED <<value, subs, seen, queued, notifying, dirty, cut, stranded>>
      BY <1>10 DEF BeginBatch, BeginRecover, signalVars, historyVars
    <2>3. \A s, x : Coming(stack', s, x) <=> Coming(stack, s, x)
      BY <1>0, <1>4, <2>1
    <2>4. QED
      BY <1>3, <2>2, <2>3
  <1>11. ASSUME Top.op \notin {"loop", "notify"}, stack' = Below,
                UNCHANGED <<value, subs, seen, queued, notifying, dirty, cut>>, stranded \subseteq stranded'
         PROVE  ToldInv'
    BY <1>3, <1>5, <1>11
  <1>12. CASE Return
    <2>1. /\ Top.op \notin {"loop", "notify"} /\ stack' = Below
          /\ UNCHANGED <<value, subs, seen, queued, notifying, dirty, cut, stranded>>
      BY <1>12 DEF Return, signalVars, historyVars
    <2>2. QED
      BY <1>11, <2>1
  <1>13. CASE Recovered
    <2>1. /\ Top.op \in {"loop", "recover"}
          /\ UNCHANGED <<value, subs, seen, queued, notifying, dirty, cut, stranded>>
      BY <1>13 DEF Recovered, signalVars, historyVars
    <2>2. CASE stack = <<>>
      BY <1>3, <1>13, <2>1, <2>2 DEF Recovered
    <2>3. CASE stack # <<>>
      <3>1. Top = Head(stack) /\ stack' = Below
        BY <1>13, <2>3 DEF Recovered, Top
      <3>2. Top \in Frame
        BY <1>0, <2>3, <3>1, Popped
      <3>3. Top.op # "loop"
        BY <3>2 DEF Frame
      <3>4. QED
        BY <1>11, <2>1, <3>1, <3>3
    <2>4. QED
      BY <2>2, <2>3
  <1>14. CASE EndBatch
    <2>1. Top.op = "batch" /\ UNCHANGED <<value, subs, seen, queued, notifying, dirty, cut, stranded>>
      BY <1>14 DEF EndBatch, historyVars
    <2>2. PICK f \in Frame : /\ f.op = "drain"
                             /\ f = [op |-> "drain", rest |-> batchQueue, rethrow |-> panicking]
      BY NewFrames DEF TypeOK
    <2>3. stack' = Below \/ stack' = Push(f, Below)
      BY <1>14, <2>2, EndBatchStep
    <2>4. \A s, x : Coming(stack, s, x) => Coming(stack', s, x)
      BY <1>4, <1>5, <2>1, <2>2, <2>3
    <2>5. QED
      BY <1>3, <2>1, <2>4
  <1>15. CASE NotifyNext(value)
    <2>1. UNCHANGED <<value, subs, queued, notifying, dirty, cut, stranded>>
      BY <1>15 DEF NotifyNext
    <2>2. PICK e \in Entry :
            /\ Top.op = "notify" /\ Top.sig \in Signal /\ Top.i \in DOMAIN subs[Top.sig]
            /\ e = subs[Top.sig][Top.i]
            /\ \/ e.dead /\ stack' = Push(Stepped(Top, e.who), Below) /\ seen' = seen
               \/ /\ ~e.dead
                  /\ stack' = Push([op |-> "call", who |-> e.who], Push(Stepped(Top, e.who), Below))
                  /\ seen' = [seen EXCEPT ![e.who] = value[Top.sig]]
      BY <1>15, NotifyNextStep
    <2>3. /\ Top \in Frame /\ Below \in Seq(Frame)
          /\ \A s, x : Coming(stack, s, x) <=> (s = Top.sig /\ x \in Top.todo) \/ Coming(Below, s, x)
      BY <1>6, <2>2
    <2>4. PICK g \in Frame : /\ g = Stepped(Top, e.who)
                             /\ g.op = "notify" /\ g.sig = Top.sig /\ g.todo = Top.todo \ {e.who}
      BY <2>2, <2>3, SteppedFields
    <2>5. PICK f \in Frame : f.op = "call" /\ f = [op |-> "call", who |-> e.who]
      BY NewFrames DEF Entry, EntryOf
    <2>6. Push(g, Below) \in Seq(Frame)
      BY <2>3, Pushed
    <2>7. \A s, x : Coming(Push(g, Below), s, x) <=> (IsNotify(g, s) /\ x \in g.todo) \/ Coming(Below, s, x)
      BY <2>3, ComingPushed
    <2>8. \A s, x : Coming(Push(f, Push(g, Below)), s, x) <=> Coming(Push(g, Below), s, x)
      BY <1>4, <2>5, <2>6
    <2>9. stack' = Push(g, Below) \/ stack' = Push(f, Push(g, Below))
      BY <2>2, <2>4, <2>5
    <2>10. \A s, x : Coming(stack', s, x) <=> (s = Top.sig /\ x \in Top.todo \ {e.who}) \/ Coming(Below, s, x)
      BY <2>4, <2>7, <2>8, <2>9 DEF IsNotify
    <2>11. e.who \in Whos(subs[Top.sig]) /\ e.who \in Listener
      BY <1>0, <2>2, EntriesFacts DEF Entry, EntryOf
    <2>12. ASSUME NEW s \in Signal, s \notin cut, s \notin stranded, NEW x \in LiveIn(subs[s])
           PROVE  WillSee(s, x)'
      <3>1. x \in Listener
        BY <1>0
      <3>2. CASE x # e.who
        <4>1. seen'[x] = seen[x]
          BY <2>2, <3>1, <3>2 DEF TypeOK
        <4>2. Coming(stack, s, x) => Coming(stack', s, x)
          BY <2>3, <2>10, <3>2
        <4>3. QED
          BY <1>2, <2>1, <2>12, <4>1, <4>2
      <3>3. CASE x = e.who
        <4>1. s = Top.sig
          BY <1>0, <2>2, <2>11, <3>1, <3>3
        <4>2. PICK k \in DOMAIN subs[s] : subs[s][k].who = x /\ ~subs[s][k].dead
          BY <1>0, EntriesFacts
        <4>3. k = Top.i
          BY <1>0, <2>2, <3>3, <4>1, <4>2 DEF OneEach
        <4>4. ~e.dead
          BY <2>2, <4>1, <4>2, <4>3
        <4>5. seen'[x] = value'[s]
          BY <2>1, <2>2, <3>1, <3>3, <4>1, <4>4 DEF TypeOK
        <4>6. QED
          BY <4>5 DEF WillSee
      <3>4. QED
        BY <3>2, <3>3
    <2>13. QED
      BY <1>1, <2>1, <2>12
  <1>16. CASE DrainNext
    <2>1. Top.op = "drain" /\ UNCHANGED <<value, subs, seen, stranded>>
      BY <1>16 DEF DrainNext
    <2>2. PICK s \in Signal, rest \in Seq(Signal) :
            Notify(s, Push(Holding(Top, rest), Below)) /\ queued' = [queued EXCEPT ![s] = FALSE]
      BY <1>16, DrainNextStep
    <2>3. Top \in Frame /\ Below \in Seq(Frame) /\ \A t, x : Coming(stack, t, x) <=> Coming(Below, t, x)
      BY <1>5, <2>1
    <2>4. PICK f \in Frame : f.op = "drain" /\ f = Holding(Top, rest)
      BY <2>1, <2>3, HoldingFields
    <2>5. Push(f, Below) \in Seq(Frame) /\ \A t, x : Coming(Push(f, Below), t, x) <=> Coming(Below, t, x)
      BY <1>4, <2>3, <2>4, Pushed
    <2>6. /\ \A x \in LiveIn(subs[s]) : (notifying'[s] /\ dirty'[s]) \/ Coming(stack', s, x)
          /\ \A t \in Signal : t # s => /\ notifying'[t] = notifying[t] /\ dirty'[t] = dirty[t]
                                        /\ t \notin cut' => t \notin cut
          /\ \A t, x : Coming(Push(f, Below), t, x) => Coming(stack', t, x)
      BY <2>2, <2>4, <2>5, NotifyTells
    <2>7. \A x \in LiveIn(subs[s]) : WillSee(s, x)'
      BY <2>6 DEF WillSee
    <2>8. ASSUME NEW t \in Signal, t # s, t \notin cut', t \notin stranded', NEW x \in LiveIn(subs'[t])
          PROVE  WillSee(t, x)'
      <3>1. queued[t] => queued'[t]
        BY <2>2, <2>8 DEF TypeOK
      <3>2. Coming(stack, t, x) => Coming(stack', t, x)
        BY <2>3, <2>5, <2>6
      <3>3. QED
        BY <1>2, <2>1, <2>6, <2>8, <3>1, <3>2
    <2>9. QED
      BY <1>1, <2>1, <2>7, <2>8
  <1>17. CASE DrainEnd
    <2>1. Top.op = "drain" /\ UNCHANGED <<value, subs, seen, queued, notifying, dirty, cut, stranded>>
      BY <1>17 DEF DrainEnd, historyVars
    <2>2. Top \in Frame /\ Below \in Seq(Frame) /\ \A s, x : Coming(stack, s, x) <=> Coming(Below, s, x)
      BY <1>5, <2>1
    <2>3. batchQueue \in Seq(Signal)
      BY DEF TypeOK
    <2>4. PICK f \in Frame : f.op = "drain" /\ f = Holding(Top, batchQueue)
      BY <2>1, <2>2, <2>3, HoldingFields
    <2>5. stack' = Below \/ stack' = Push(f, Below)
      BY <1>17, <2>4, DrainEndStep
    <2>6. \A s, x : Coming(stack, s, x) => Coming(stack', s, x)
      BY <1>4, <2>2, <2>4, <2>5
    <2>7. QED
      BY <1>3, <2>1, <2>6
  <1>18. ASSUME NEW s \in Signal, subs' = subs \/ subs' = [subs EXCEPT ![s] = Compacted(subs[s])]
         PROVE  \A t \in Signal : LiveIn(subs'[t]) = LiveIn(subs[t])
    <2>1. LiveIn(Compacted(subs[s])) = LiveIn(subs[s])
      BY <1>0, CompactedFacts
    <2>2. QED
      BY <1>18, <2>1 DEF TypeOK
  <1>19. CASE NotifyPassEnd
    <2>1. Top.op = "notify" /\ Top.sig \in Signal /\ Top.i > Top.n
      BY <1>19, NotifyPassEndStep
    <2>2. UNCHANGED <<value, seen, queued, stranded>>
      BY <1>19 DEF NotifyPassEnd
    <2>3. /\ Top \in Frame /\ Below \in Seq(Frame)
          /\ \A s, x : Coming(stack, s, x) <=> (s = Top.sig /\ x \in Top.todo) \/ Coming(Below, s, x)
      BY <1>6, <2>1
    <2>4. CASE /\ stack' = Push(NotifyFrame(Top.sig, Top.pass + 1), Below) /\ Top.pass + 1 \in Nat
               /\ dirty' = [dirty EXCEPT ![Top.sig] = FALSE]
               /\ UNCHANGED <<subs, notifying, cut>>
      <3>1. PICK f \in Frame : /\ f = NotifyFrame(Top.sig, Top.pass + 1)
                               /\ f.op = "notify" /\ f.sig = Top.sig /\ f.todo = LiveIn(subs[Top.sig])
        BY <2>1, <2>4, NewNotify
      <3>2. \A s, x : Coming(stack', s, x) <=> (IsNotify(f, s) /\ x \in f.todo) \/ Coming(Below, s, x)
        BY <2>3, <2>4, <3>1, ComingPushed
      <3>3. PICK t \in Signal : t = Top.sig
        BY <2>1
      <3>4. \A x \in LiveIn(subs[t]) : WillSee(t, x)'
        BY <3>1, <3>2, <3>3 DEF WillSee, IsNotify
      <3>5. ASSUME NEW s \in Signal, s # t, s \notin cut, s \notin stranded, NEW x \in LiveIn(subs[s])
            PROVE  WillSee(s, x)'
        <4>1. dirty'[s] = dirty[s]
          BY <2>4, <3>3, <3>5 DEF TypeOK
        <4>2. Coming(stack, s, x) => Coming(stack', s, x)
          BY <2>3, <3>2, <3>3, <3>5
        <4>3. QED
          BY <1>2, <2>2, <2>4, <3>5, <4>1, <4>2
      <3>6. QED
        BY <1>1, <2>2, <2>4, <3>4, <3>5
    <2>5. CASE /\ notifying' = [notifying EXCEPT ![Top.sig] = FALSE]
               /\ subs' = [subs EXCEPT ![Top.sig] = Compacted(@)]
               /\ stack' = Below
               /\ dirty' = dirty
               /\ dirty[Top.sig] => cut' = cut \union {Top.sig}
               /\ ~dirty[Top.sig] => cut' = cut
      <3>1. \A s \in Signal : LiveIn(subs'[s]) = LiveIn(subs[s])
        BY <1>18, <2>1, <2>5
      <3>2. Top.todo = {}
        <4>1. Top \in ToSet(stack)
          BY <2>1, TopFrame, Pushed
        <4>2. Covers(Top, subs[Top.sig])
          BY <2>1, <4>1 DEF PassInv
        <4>3. Top.i \in Nat /\ Top.n \in Nat
          BY <2>1, <2>3, NotifyFields
        <4>4. Top.i..Top.n = {}
          BY <2>1, <4>3
        <4>5. QED
          BY <4>2, <4>4 DEF Covers
      <3>3. \A s, x : Coming(stack, s, x) => Coming(stack', s, x)
        BY <2>3, <2>5, <3>2
      <3>4. ASSUME NEW s \in Signal, s \notin cut', s \notin stranded, NEW x \in LiveIn(subs[s])
            PROVE  WillSee(s, x)'
        <4>1. s \notin cut /\ ~(s = Top.sig /\ dirty[s])
          BY <2>5, <3>4
        <4>2. notifying[s] /\ dirty[s] => notifying'[s] /\ dirty'[s]
          BY <2>5, <4>1 DEF TypeOK
        <4>3. QED
          BY <1>2, <2>2, <3>3, <3>4, <4>1, <4>2
      <3>5. QED
        BY <1>1, <2>2, <3>1, <3>4
    <2>6. QED
      BY <1>19, <2>4, <2>5, NotifyPassEndStep
  <1>20. CASE Unwind
    <2>1. stack' = Below /\ Top.op \in {"call", "drain", "notify"} /\ UNCHANGED <<value, seen, queued, dirty>>
      BY <1>20 DEF Unwind
    <2>2. CASE Top.op = "notify"
      <3>1. /\ notifying' = [notifying EXCEPT ![Top.sig] = FALSE] /\ cut' = cut \union {Top.sig}
            /\ subs' = [subs EXCEPT ![Top.sig] = Compacted(@)] /\ stranded' = stranded
        BY <1>20, <2>2 DEF Unwind, EndNotify
      <3>2. /\ Top.sig \in Signal
            /\ \A s, x : Coming(stack, s, x) <=> (s = Top.sig /\ x \in Top.todo) \/ Coming(Below, s, x)
        BY <1>6, <2>2
      <3>3. \A s \in Signal : LiveIn(subs'[s]) = LiveIn(subs[s])
        BY <1>18, <3>1, <3>2
      <3>4. ASSUME NEW s \in Signal, s # Top.sig, s \notin cut, s \notin stranded, NEW x \in LiveIn(subs[s])
            PROVE  WillSee(s, x)'
        <4>1. notifying'[s] = notifying[s]
          BY <3>1, <3>4 DEF TypeOK
        <4>2. QED
          BY <1>2, <2>1, <3>2, <3>4, <4>1
      <3>5. QED
        BY <1>1, <3>1, <3>3, <3>4
    <2>3. CASE Top.op # "notify"
      <3>1. UNCHANGED <<notifying, subs, cut>> /\ stranded \subseteq stranded'
        BY <1>20, <2>3 DEF Unwind
      <3>2. QED
        BY <1>11, <2>1, <2>3, <3>1
    <2>4. QED
      BY <2>2, <2>3
  <1>21. CASE Panic \/ UNCHANGED vars
    <2>1. UNCHANGED <<stack, value, subs, seen, queued, notifying, dirty, cut, stranded>>
      BY <1>21 DEF Panic, vars, signalVars, historyVars
    <2>2. QED
      BY <1>3, <2>1
  <1>22. QED
    BY <1>7, <1>8, <1>9, <1>10, <1>12, <1>13, <1>14, <1>15, <1>16, <1>17, <1>19, <1>20, <1>21
       DEF Next, Deliver
-----------------------------------------------------------------------------
(* Theorems *)
\* No call is on the empty stack.
LEMMA EmptyStack ==
  ASSUME NEW st, st = <<>>
  PROVE  /\ st \in Seq(Frame) /\ BatchCount(st) = 0 /\ Isolated(st) /\ ToSet(st) = {}
         /\ \A s : ~Notified(st, s) /\ NotifiedOnce(st, s) /\ ~Held(st, s) /\ HeldOnce(st, s)
         /\ \A s, x : ~Coming(st, s, x)
  <1>1. DOMAIN st = {} /\ st \in Seq(Frame)
    OBVIOUS
  <1>2. Batches(st) = {}
    BY <1>1 DEF Batches
  <1>3. BatchCount(st) = 0
    BY <1>2, FS_EmptySet DEF BatchCount
  <1>4. ToSet(st) = {}
    BY <1>1 DEF ToSet
  <1>5. QED
    BY <1>1, <1>3, <1>4 DEF Isolated, Notified, NotifiedOnce, Held, HeldOnce, Coming

\* The invariant holds at the start.
LEMMA InitInv ==
  Init => SignalsInv
  <1> SUFFICES ASSUME Init PROVE SignalsInv
    OBVIOUS
  <1>1. stack = <<>> /\ batchQueue = <<>> /\ batchDepth = 0
    BY DEF Init
  <1>2. /\ stack \in Seq(Frame) /\ BatchCount(stack) = 0 /\ Isolated(stack) /\ ToSet(stack) = {}
        /\ \A s : ~Notified(stack, s) /\ NotifiedOnce(stack, s) /\ ~Held(stack, s) /\ HeldOnce(stack, s)
    BY <1>1, EmptyStack
  <1>3. TypeOK
    <2>1. <<>> \in Seq(Entry) /\ <<>> \in Seq(Signal)
      OBVIOUS
    <2>2. /\ value \in [Signal -> Value] /\ subs \in [Signal -> Seq(Entry)]
          /\ seen \in [Listener -> Value \union {Unseen}]
      BY <2>1 DEF Init
    <2>3. notifying \in [Signal -> BOOLEAN] /\ dirty \in [Signal -> BOOLEAN] /\ queued \in [Signal -> BOOLEAN]
      BY DEF Init
    <2>4. panicking \in BOOLEAN
      BY DEF Init
    <2>5. QED
      BY <1>1, <1>2, <2>1, <2>2, <2>3, <2>4 DEF TypeOK
  <1>4. BatchInv
    BY <1>1, <1>2 DEF BatchInv
  <1>5. NotifyInv
    BY <1>2 DEF Init, NotifyInv, NotifyFits
  <1>6. QueueInv
    BY <1>1, <1>2, NothingQueued DEF Init, QueueInv, QueueFits
  <1>7. \A s \in Signal : ToSet(subs[s]) = {} /\ DOMAIN subs[s] = {}
    BY DEF Init, ToSet
  <1>8. RegisteredInv
    BY <1>7 DEF RegisteredInv, OneEach, Whos
  <1>9. PassInv
    BY <1>2 DEF PassInv
  <1>10. ToldInv
    BY <1>7 DEF ToldInv, LiveIn
  <1>11. QED
    BY <1>3, <1>4, <1>5, <1>6, <1>8, <1>9, <1>10 DEF SignalsInv


\* The inductive invariant holds in every behaviour, however Set, Subscribe, the
\* functions Subscribe returns, Batch, Recover and panics are nested (core/signal.go,
\* core/batch.go).
THEOREM SignalsInvariant ==
  Spec => []SignalsInv
  <1>1. Init => SignalsInv
    BY InitInv
  <1>2. SignalsInv /\ [Next]_vars => SignalsInv'
    <2> SUFFICES ASSUME SignalsInv, [Next]_vars PROVE SignalsInv'
      OBVIOUS
    <2>1. TypeOK /\ BatchInv /\ NotifyInv /\ QueueInv /\ RegisteredInv /\ PassInv /\ ToldInv
      BY DEF SignalsInv
    <2>2. TypeOK'
      BY <2>1, TypeStep
    <2>3. BatchInv'
      BY <2>1, BatchStep
    <2>4. NotifyInv'
      BY <2>1, NotifyInvStep
    <2>5. QueueInv'
      BY <2>1, QueueInvStep
    <2>6. RegisteredInv'
      BY <2>1, RegisteredStep
    <2>7. PassInv'
      BY <2>1, PassStep
    <2>8. ToldInv'
      BY <2>1, ToldStep
    <2>9. QED
      BY <2>2, <2>3, <2>4, <2>5, <2>6, <2>7, <2>8 DEF SignalsInv
  <1>3. QED
    BY <1>1, <1>2, PTL DEF Spec

\* No subscriber is notified while the fn of a Batch that encloses it is running
\* (batch.go:3-7): every Batch on the stack is above every notification.
THEOREM BatchIsolationAlways ==
  Spec => []BatchIsolation
  <1>1. SignalsInv => BatchIsolation
    BY DEF SignalsInv, BatchInv, Isolated, BatchIsolation
  <1>2. QED
    BY <1>1, SignalsInvariant, PTL

\* Between two handlers every live subscriber has run with, or subscribed at, the value
\* its signal holds, unless a cycle or a panic stopped the last notification
\* (signal.go:126-137).
THEOREM NothingMissedAlways ==
  Spec => []NothingMissed
  <1>1. SignalsInv => NothingMissed
    <2> SUFFICES ASSUME SignalsInv, Idle,
                        NEW s \in Signal, s \notin cut, s \notin stranded,
                        NEW x \in Listener, IsLive(x, s)
                 PROVE  seen[x] = value[s]
      BY DEF NothingMissed
    <2>1. stack = <<>>
      BY DEF Idle
    <2>2. BatchCount(stack) = 0 /\ ~Notified(stack, s) /\ ~Held(stack, s) /\ ~Coming(stack, s, x)
      BY <2>1, EmptyStack
    <2>3. batchQueue = <<>>
      BY <2>2 DEF SignalsInv, BatchInv
    <2>4. ~queued[s]
      BY <2>2, <2>3, NothingQueued DEF SignalsInv, QueueInv, QueueFits
    <2>5. ~notifying[s]
      BY <2>2 DEF SignalsInv, NotifyInv, NotifyFits
    <2>6. x \in LiveIn(subs[s])
      BY DEF IsLive, LiveIn
    <2>7. WillSee(s, x)
      BY <2>6 DEF SignalsInv, ToldInv
    <2>8. QED
      BY <2>2, <2>4, <2>5, <2>7 DEF WillSee
  <1>2. QED
    BY <1>1, SignalsInvariant, PTL

\* What a pass has still to run is who was live when it started, has not run in it and has
\* not been removed, however subscribers subscribe, unsubscribe and notify meanwhile
\* (signal.go:130-132).
THEOREM PassTodoAlways ==
  Spec => []PassTodo
  <1>1. SignalsInv => PassTodo
    <2> SUFFICES ASSUME SignalsInv, NEW k \in DOMAIN stack, stack[k].op = "notify"
                 PROVE  LET f == stack[k]
                        IN f.todo \intersect LiveOf(f.sig) =
                           {subs[f.sig][j].who : j \in {j \in (f.i..f.n) \intersect DOMAIN subs[f.sig] :
                                                         ~subs[f.sig][j].dead}}
      BY DEF PassTodo
    <2>1. PICK f : f = stack[k]
      OBVIOUS
    <2>2. TypeOK
      BY DEF SignalsInv
    <2>3. f \in Frame /\ f \in ToSet(stack) /\ f.op = "notify"
      BY <2>1, <2>2 DEF TypeOK, ToSet
    <2>4. f.sig \in Signal
      BY <2>3, NotifyFields
    <2>5. PICK e : e = subs[f.sig]
      OBVIOUS
    <2>6. e \in Seq(Entry) /\ OneEach(e) /\ Covers(f, e)
      BY <2>2, <2>3, <2>4, <2>5 DEF TypeOK, SignalsInv, RegisteredInv, PassInv
    <2>7. LiveOf(f.sig) = LiveIn(e)
      BY <2>2, <2>4, <2>5, NewNotify DEF NotifyFrame
    <2>8. f.i \in Nat /\ f.n \in Nat /\ Len(e) \in Nat /\ DOMAIN e = 1..Len(e)
      BY <2>3, <2>6, NotifyFields
    <2>9. \A j \in f.i..f.n : j \in DOMAIN e
      BY <2>6, <2>8 DEF Covers
    <2>10. ASSUME NEW x \in f.todo, x \in LiveIn(e)
           PROVE  \E j \in f.i..f.n : j \in DOMAIN e /\ ~e[j].dead /\ e[j].who = x
      <3>1. PICK j \in f.i..f.n : e[j].who = x
        BY <2>6, <2>10 DEF Covers
      <3>2. PICK i \in DOMAIN e : e[i].who = x /\ ~e[i].dead
        BY <2>6, <2>10, EntriesFacts
      <3>3. i = j
        BY <2>6, <2>9, <3>1, <3>2 DEF OneEach
      <3>4. QED
        BY <2>9, <3>1, <3>2, <3>3
    <2>11. ASSUME NEW j \in f.i..f.n, j \in DOMAIN e, ~e[j].dead
           PROVE  e[j].who \in f.todo /\ e[j].who \in LiveIn(e)
      BY <2>6, <2>11, EntriesFacts DEF Covers
    <2>12. f.todo \intersect LiveIn(e) = {e[j].who : j \in {j \in (f.i..f.n) \intersect DOMAIN e : ~e[j].dead}}
      BY <2>10, <2>11
    <2>13. QED
      BY <2>1, <2>5, <2>7, <2>12
  <1>2. QED
    BY <1>1, SignalsInvariant, PTL

\* batchDepth counts the Batch calls under way, notifying marks the signals with one notify
\* on the stack, and queued those that wait at one place, unless a panic dropped them:
\* no nesting and no panic leaves a mark behind.
THEOREM MarksMatchStackAlways ==
  Spec => []MarksMatchStack
  <1>1. SignalsInv => MarksMatchStack
    <2> SUFFICES ASSUME SignalsInv PROVE MarksMatchStack
      OBVIOUS
    <2>1. batchDepth = CountFrames("batch")
      BY DEF SignalsInv, BatchInv, BatchCount, Batches, CountFrames
    <2>2. ASSUME NEW T, \A p, q \in T : p = q
          PROVE  Cardinality(T) = IF T = {} THEN 0 ELSE 1
      <3>1. CASE T = {}
        BY <3>1, FS_EmptySet
      <3>2. CASE T # {}
        <4>1. PICK p : p \in T
          BY <3>2
        <4>2. T = {p}
          BY <2>2, <4>1
        <4>3. QED
          BY <3>2, <4>2, FS_Singleton
      <3>3. QED
        BY <3>1, <3>2
    <2>3. ASSUME NEW s \in Signal PROVE Cardinality(Notifies(s)) = IF notifying[s] THEN 1 ELSE 0
      <3>1. NotifiedOnce(stack, s) /\ (notifying[s] <=> Notified(stack, s))
        BY DEF SignalsInv, NotifyInv, NotifyFits
      <3>2. \A p, q \in Notifies(s) : p = q
        BY <3>1 DEF Notifies, NotifiedOnce, IsNotify
      <3>3. notifying[s] <=> Notifies(s) # {}
        BY <3>1 DEF Notifies, Notified, IsNotify
      <3>4. QED
        BY <2>2, <3>2, <3>3
    <2>4. ASSUME NEW s \in Signal
          PROVE  Cardinality(Waits(s)) = IF queued[s] /\ s \notin stranded THEN 1 ELSE 0
      <3> DEFINE InQueue == {<<0, j>> : j \in {j \in DOMAIN batchQueue : batchQueue[j] = s}}
                 At(k) == {<<k, j>> : j \in {j \in DOMAIN stack[k].rest : stack[k].rest[j] = s}}
                 Drains == {k \in DOMAIN stack : stack[k].op = "drain"}
      <3>1. /\ HeldOnce(stack, s)
            /\ ~(s \in ToSet(batchQueue) /\ Held(stack, s))
            /\ queued[s] /\ s \notin stranded => s \in ToSet(batchQueue) \/ Held(stack, s)
            /\ s \in ToSet(batchQueue) \/ Held(stack, s) => queued[s] /\ s \notin stranded
        BY DEF SignalsInv, QueueInv, QueueFits
      <3>2. NoRepeat(batchQueue) /\ \A k \in Drains : NoRepeat(stack[k].rest)
        BY DEF SignalsInv, QueueInv, QueueFits, ToSet
      <3>3. Waits(s) = InQueue \union UNION {At(k) : k \in Drains}
        BY DEF Waits
      <3>4. InQueue # {} <=> s \in ToSet(batchQueue)
        BY DEF ToSet
      <3>5. \A k \in Drains : At(k) # {} <=> Holds(stack[k], s)
        BY DEF Holds, ToSet
      <3>6. \A p, q \in InQueue : p = q
        BY <3>2 DEF NoRepeat
      <3>7. \A k \in Drains : \A p, q \in At(k) : p = q
        BY <3>2 DEF NoRepeat
      <3>8. (\E k \in Drains : At(k) # {}) <=> Held(stack, s)
        BY <3>5 DEF Held, Holds
      <3>9. \A j, k \in Drains : At(j) # {} /\ At(k) # {} => j = k
        BY <3>1, <3>5 DEF HeldOnce
      <3> HIDE DEF InQueue, At, Drains
      <3>10. \A p, q \in Waits(s) : p = q
        BY <3>1, <3>3, <3>4, <3>6, <3>7, <3>8, <3>9
      <3>11. Waits(s) # {} <=> queued[s] /\ s \notin stranded
        BY <3>1, <3>3, <3>4, <3>8
      <3>12. QED
        BY <2>2, <3>10, <3>11
    <2>5. QED
      BY <2>1, <2>3, <2>4 DEF MarksMatchStack
  <1>2. QED
    BY <1>1, SignalsInvariant, PTL
=============================================================================
