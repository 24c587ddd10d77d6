---------------------------- MODULE ResourceProofs ----------------------------
(***************************************************************************)
(* Proofs about Resource, for any number of loads nested to any depth.     *)
(***************************************************************************)
EXTENDS Resource, TLAPS

\* A load that has not been applied: a call on the stack, a running fetch or a callback.
OnStack(g) == \E k \in DOMAIN stack : stack[k].gen = g
IsPosted(g) == \E k \in DOMAIN posted : posted[k].gen = g
Outstanding(g) == OnStack(g) \/ g \in fetches \/ IsPosted(g)

\* A load is on the stack, fetching or posted, once, and then no more once it is applied
\* or a panic ended it.
Once ==
  /\ \A g : Outstanding(g) => g \in 1..gen /\ g # shown /\ g \notin aborted
  /\ \A g \in fetches : ~OnStack(g) /\ ~IsPosted(g)
  /\ \A g : ~(OnStack(g) /\ IsPosted(g))
  /\ \A j, k \in DOMAIN posted : posted[j].gen = posted[k].gen => j = k
  /\ \A j, k \in DOMAIN stack : stack[j].gen = stack[k].gen => j = k

\* A load that has not fetched yet is cancelled, or the one stop will cancel.
Cancellable ==
  \A g : OnStack(g) \/ g \in fetches => g \in cancelled \/ (g = gen /\ cancel = gen)

\* While Loading is true, the newest load is under way or was ended by a panic.
LoadingIsCovered ==
  loading /\ life # "unmounted" /\ gen > 0 => Outstanding(gen) \/ gen \in aborted

\* Otherwise it is false.
CoveredIsLoading == Outstanding(gen) \/ gen \in aborted => loading

ResourceInv ==
  /\ TypeOK
  /\ shown <= gen /\ cancel \in 0..gen
  /\ Once
  /\ Cancellable
  /\ LoadingIsCovered
  /\ CoveredIsLoading
-----------------------------------------------------------------------------
(* Sequences used as stacks and queues. *)

LEMMA PushFacts ==
  ASSUME NEW S, NEW s \in Seq(S), NEW x \in S
  PROVE  /\ <<x>> \o s \in Seq(S)
         /\ DOMAIN (<<x>> \o s) = 1..(Len(s) + 1)
         /\ (<<x>> \o s)[1] = x
         /\ \A k \in DOMAIN s : (<<x>> \o s)[k + 1] = s[k]
         /\ \A k \in DOMAIN (<<x>> \o s) : k = 1 \/ (k - 1 \in DOMAIN s /\ (<<x>> \o s)[k] = s[k - 1])
  OBVIOUS

LEMMA PopFacts ==
  ASSUME NEW S, NEW s \in Seq(S), s # <<>>
  PROVE  /\ Tail(s) \in Seq(S) /\ Head(s) \in S /\ Head(s) = s[1] /\ 1 \in DOMAIN s
         /\ DOMAIN Tail(s) = 1..(Len(s) - 1)
         /\ \A k \in DOMAIN Tail(s) : k + 1 \in DOMAIN s /\ Tail(s)[k] = s[k + 1]
         /\ \A k \in DOMAIN s : k = 1 \/ (k - 1 \in DOMAIN Tail(s) /\ Tail(s)[k - 1] = s[k])
  OBVIOUS

LEMMA ReplaceFacts ==
  ASSUME NEW S, NEW s \in Seq(S), s # <<>>, NEW x \in S
  PROVE  /\ <<x>> \o Tail(s) \in Seq(S)
         /\ DOMAIN (<<x>> \o Tail(s)) = DOMAIN s
         /\ (<<x>> \o Tail(s))[1] = x
         /\ \A k \in DOMAIN s : k # 1 => (<<x>> \o Tail(s))[k] = s[k]
  OBVIOUS

LEMMA AppendFacts ==
  ASSUME NEW S, NEW s \in Seq(S), NEW x \in S
  PROVE  /\ Append(s, x) \in Seq(S)
         /\ DOMAIN Append(s, x) = 1..(Len(s) + 1)
         /\ Append(s, x)[Len(s) + 1] = x
         /\ \A k \in DOMAIN s : Append(s, x)[k] = s[k]
         /\ \A k \in DOMAIN Append(s, x) : k = Len(s) + 1 \/ k \in DOMAIN s
  OBVIOUS
-----------------------------------------------------------------------------
LEMMA ResourceInvInit == Init => ResourceInv
  <1> SUFFICES ASSUME Init PROVE ResourceInv
    OBVIOUS
  <1>1. TypeOK
    BY DEF Init, TypeOK, NoLoad
  <1>2. \A g : ~OnStack(g) /\ ~IsPosted(g) /\ g \notin fetches
    BY DEF Init, OnStack, IsPosted
  <1>3. Once
    BY <1>2 DEF Init, Once, Outstanding
  <1>4. Cancellable
    BY <1>2 DEF Cancellable
  <1>5. shown <= gen /\ cancel \in 0..gen /\ LoadingIsCovered /\ CoveredIsLoading
    BY DEF Init, LoadingIsCovered, CoveredIsLoading, NoLoad
  <1>6. QED
    BY <1>1, <1>3, <1>4, <1>5 DEF ResourceInv

\* What stop cancels.
LEMMA StopCancels ==
  ASSUME TypeOK, cancel \in 0..gen
  PROVE  /\ CancelledByStop \subseteq 1..gen
         /\ cancelled \subseteq CancelledByStop
         /\ cancel # NoLoad => cancel \in CancelledByStop
  BY DEF CancelledByStop, NoLoad, TypeOK

\* stop leaves no load that is not cancelled.
LEMMA OutstandingIsCancelled ==
  ASSUME ResourceInv, NEW g, OnStack(g) \/ g \in fetches
  PROVE  g \in CancelledByStop
  <1>1. g \in 1..gen
    BY DEF ResourceInv, Once, Outstanding
  <1>2. QED
    BY <1>1, StopCancels DEF ResourceInv, Cancellable, NoLoad

LEMMA MountKeepsInv ==
  ASSUME ResourceInv, Mount PROVE ResourceInv'
  <1> USE DEF ResourceInv
  <1>1. /\ gen \in Nat /\ gen' = gen + 1 /\ fetches' = fetches \union {gen + 1}
        /\ life' = "mounted" /\ cancelled' = CancelledByStop /\ cancel' = gen + 1
        /\ loading' = TRUE /\ err' = NoLoad
        /\ UNCHANGED <<data, posted, stack, aborted, shown>>
    BY DEF Mount, Started, TypeOK
  <1>2. \A g : (OnStack(g)' <=> OnStack(g)) /\ (IsPosted(g)' <=> IsPosted(g))
    BY <1>1 DEF OnStack, IsPosted
  <1>3. \A g : Outstanding(g)' <=> Outstanding(g) \/ g = gen + 1
    BY <1>1, <1>2 DEF Outstanding
  <1>4. ~Outstanding(gen + 1) /\ gen + 1 \notin aborted /\ gen + 1 # shown
    BY <1>1 DEF Once, TypeOK
  <1>5. TypeOK'
    BY <1>1, StopCancels DEF TypeOK, NoLoad
  <1>6. Once'
    <2>1. \A g : Outstanding(g)' => g \in 1..gen' /\ g # shown' /\ g \notin aborted'
      BY <1>1, <1>3, <1>4 DEF Once
    <2>2. \A g \in fetches' : ~OnStack(g)' /\ ~IsPosted(g)'
      BY <1>1, <1>2, <1>4 DEF Outstanding, Once
    <2>3. \A j, k \in DOMAIN posted' : posted'[j].gen = posted'[k].gen => j = k
      BY <1>1 DEF Once
    <2>4. \A j, k \in DOMAIN stack' : stack'[j].gen = stack'[k].gen => j = k
      BY <1>1 DEF Once
    <2>5. QED
      BY <1>2, <2>1, <2>2, <2>3, <2>4 DEF Once
  <1>7. Cancellable'
    BY <1>1, <1>2, OutstandingIsCancelled DEF Cancellable
  <1>8. LoadingIsCovered' /\ CoveredIsLoading'
    BY <1>1, <1>3 DEF LoadingIsCovered, CoveredIsLoading
  <1>9. QED
    BY <1>1, <1>5, <1>6, <1>7, <1>8 DEF TypeOK

LEMMA LoadKeepsInv ==
  ASSUME ResourceInv, Load PROVE ResourceInv'
  <1> DEFINE call == [gen |-> gen + 1, next |-> "err", running |-> Running("loading", ~loading)]
  <1> USE DEF ResourceInv
  <1>1. call \in Call /\ call.gen = gen + 1
    BY DEF Call, Running, TypeOK
  <1>2. stack' = <<call>> \o stack /\ stack \in Seq(Call)
    BY DEF Load, TypeOK
  <1> HIDE DEF call
  <1>3. /\ stack' \in Seq(Call)
        /\ stack'[1] = call /\ 1 \in DOMAIN stack'
        /\ \A k \in DOMAIN stack : k + 1 \in DOMAIN stack' /\ stack'[k + 1] = stack[k]
        /\ \A k \in DOMAIN stack' : k = 1 \/ (k - 1 \in DOMAIN stack /\ stack'[k] = stack[k - 1])
    BY <1>1, <1>2, PushFacts
  <1>4. \A g : OnStack(g)' <=> OnStack(g) \/ g = gen + 1
    BY <1>1, <1>3 DEF OnStack
  <1>5. /\ gen \in Nat /\ gen' = gen + 1 /\ loading' = TRUE /\ cancel' = gen + 1
        /\ cancelled' = CancelledByStop
        /\ UNCHANGED <<life, data, err, fetches, posted, aborted, shown>>
    BY DEF Load, Started, TypeOK
  <1>6. \A g : IsPosted(g)' <=> IsPosted(g)
    BY <1>5 DEF IsPosted
  <1>7. TypeOK'
    BY <1>3, <1>5, StopCancels DEF TypeOK
  <1>8. \A g : Outstanding(g)' <=> Outstanding(g) \/ g = gen + 1
    BY <1>4, <1>5, <1>6 DEF Outstanding
  <1>9. ~Outstanding(gen + 1) /\ gen + 1 \notin aborted /\ gen + 1 # shown
    BY <1>5 DEF Once, TypeOK
  <1>10. Once'
    <2>1. \A g : Outstanding(g)' => g \in 1..gen' /\ g # shown' /\ g \notin aborted'
      BY <1>5, <1>8, <1>9 DEF Once
    <2>2. \A g \in fetches' : ~OnStack(g)' /\ ~IsPosted(g)'
      BY <1>4, <1>5, <1>6, <1>9 DEF Outstanding, Once
    <2>3. \A g : ~(OnStack(g)' /\ IsPosted(g)')
      BY <1>4, <1>6, <1>9 DEF Outstanding, Once
    <2>4. \A j, k \in DOMAIN stack' : stack'[j].gen = stack'[k].gen => j = k
      <3>1. \A i \in DOMAIN stack : stack[i].gen # gen + 1
        BY <1>9 DEF OnStack, Outstanding
      <3>2. QED
        BY <1>1, <1>3, <3>1 DEF Once
    <2>5. \A j, k \in DOMAIN posted' : posted'[j].gen = posted'[k].gen => j = k
      BY <1>5 DEF Once
    <2>6. QED
      BY <2>1, <2>2, <2>3, <2>4, <2>5 DEF Once
  <1>11. Cancellable'
    BY <1>4, <1>5, OutstandingIsCancelled DEF Cancellable
  <1>12. LoadingIsCovered' /\ CoveredIsLoading'
    BY <1>5, <1>8 DEF LoadingIsCovered, CoveredIsLoading
  <1>13. QED
    BY <1>5, <1>7, <1>10, <1>11, <1>12 DEF TypeOK

LEMMA LoadErrKeepsInv ==
  ASSUME ResourceInv, LoadErr PROVE ResourceInv'
  <1> DEFINE call == [Top EXCEPT !.next = "fetch", !.running = Running("err", err # NoLoad)]
  <1> USE DEF ResourceInv
  <1>1. stack # <<>> /\ stack \in Seq(Call) /\ stack' = <<call>> \o Tail(stack)
    BY DEF LoadErr, Idle, TypeOK, Below
  <1>2. Top = stack[1] /\ Top \in Call
    BY <1>1, PopFacts DEF Top
  <1>3. call \in Call /\ call.gen = stack[1].gen
    BY <1>2 DEF Call, Running
  <1> HIDE DEF call
  <1>4. /\ stack' \in Seq(Call) /\ DOMAIN stack' = DOMAIN stack /\ stack'[1] = call
        /\ \A k \in DOMAIN stack : k # 1 => stack'[k] = stack[k]
    BY <1>1, <1>3, ReplaceFacts
  <1>5. \A k \in DOMAIN stack : stack'[k].gen = stack[k].gen
    BY <1>3, <1>4
  <1>6. UNCHANGED <<life, gen, cancel, loading, fetches, cancelled, posted, aborted, shown>>
    BY DEF LoadErr
  <1>7. \A g : /\ OnStack(g)' <=> OnStack(g)
               /\ IsPosted(g)' <=> IsPosted(g)
               /\ Outstanding(g)' <=> Outstanding(g)
    BY <1>4, <1>5, <1>6 DEF OnStack, IsPosted, Outstanding
  <1>8. TypeOK'
    BY <1>4, <1>6 DEF LoadErr, TypeOK, NoLoad
  <1>9. Once'
    <2>1. \A j, k \in DOMAIN stack' : stack'[j].gen = stack'[k].gen => j = k
      BY <1>4, <1>5 DEF Once
    <2>2. \A j, k \in DOMAIN posted' : posted'[j].gen = posted'[k].gen => j = k
      BY <1>6 DEF Once
    <2>3. QED
      BY <1>6, <1>7, <2>1, <2>2 DEF Once
  <1>10. Cancellable' /\ LoadingIsCovered' /\ CoveredIsLoading'
    BY <1>6, <1>7 DEF Cancellable, LoadingIsCovered, CoveredIsLoading
  <1>11. QED
    BY <1>6, <1>8, <1>9, <1>10

\* A load leaves the stack: it is the only one with its generation.
LEMMA LeaveStack ==
  ASSUME TypeOK, Once, ~Idle, stack' = Below
  PROVE  /\ stack' \in Seq(Call)
         /\ OnStack(Top.gen)
         /\ \A g : OnStack(g)' <=> OnStack(g) /\ g # Top.gen
         /\ \A j, k \in DOMAIN stack' : stack'[j].gen = stack'[k].gen => j = k
  <1>1. stack # <<>> /\ stack \in Seq(Call) /\ stack' = Tail(stack)
    BY DEF Idle, TypeOK, Below
  <1>2. Top = stack[1] /\ 1 \in DOMAIN stack
    BY <1>1, PopFacts DEF Top
  <1>3. /\ stack' \in Seq(Call)
        /\ \A k \in DOMAIN stack' : k + 1 \in DOMAIN stack /\ stack'[k] = stack[k + 1]
                                  /\ k \in Nat \ {0}
        /\ \A k \in DOMAIN stack : k = 1 \/ (k - 1 \in DOMAIN stack' /\ stack'[k - 1] = stack[k])
    BY <1>1, PopFacts
  <1>4. \A g : OnStack(g)' => OnStack(g) /\ g # Top.gen
    BY <1>2, <1>3 DEF OnStack, Once
  <1>5. \A g : OnStack(g) => OnStack(g)' \/ g = Top.gen
    BY <1>2, <1>3 DEF OnStack
  <1>6. \A j, k \in DOMAIN stack' : stack'[j].gen = stack'[k].gen => j = k
    <2>1. SUFFICES ASSUME NEW j \in DOMAIN stack', NEW k \in DOMAIN stack',
                          stack'[j].gen = stack'[k].gen
                   PROVE  j = k
      OBVIOUS
    <2>2. j + 1 = k + 1
      BY <1>3, <2>1 DEF Once
    <2>3. QED
      BY <1>3, <2>2
  <1>7. QED
    BY <1>2, <1>3, <1>4, <1>5, <1>6 DEF OnStack

LEMMA LoadFetchKeepsInv ==
  ASSUME ResourceInv, LoadFetch PROVE ResourceInv'
  <1> USE DEF ResourceInv
  <1>1. /\ fetches' = fetches \union {Top.gen}
        /\ UNCHANGED <<life, gen, cancel, data, err, loading, cancelled, posted, aborted, shown>>
    BY DEF LoadFetch
  <1>2. /\ stack' \in Seq(Call)
        /\ OnStack(Top.gen)
        /\ \A g : OnStack(g)' <=> OnStack(g) /\ g # Top.gen
        /\ \A j, k \in DOMAIN stack' : stack'[j].gen = stack'[k].gen => j = k
    BY LeaveStack DEF LoadFetch
  <1>3. \A g : IsPosted(g)' <=> IsPosted(g)
    BY <1>1 DEF IsPosted
  <1>4. \A g : Outstanding(g)' <=> Outstanding(g)
    BY <1>1, <1>2, <1>3 DEF Outstanding
  <1>5. Top.gen \in 1..gen
    BY <1>2 DEF Once, Outstanding
  <1>6. TypeOK'
    BY <1>1, <1>2, <1>5 DEF TypeOK
  <1>7. Once'
    <2>1. \A g \in fetches' : ~OnStack(g)' /\ ~IsPosted(g)'
      BY <1>1, <1>2, <1>3 DEF Once
    <2>2. \A j, k \in DOMAIN posted' : posted'[j].gen = posted'[k].gen => j = k
      BY <1>1 DEF Once
    <2>3. QED
      BY <1>1, <1>2, <1>3, <1>4, <2>1, <2>2 DEF Once
  <1>8. Cancellable'
    BY <1>1, <1>2 DEF Cancellable
  <1>9. LoadingIsCovered' /\ CoveredIsLoading'
    BY <1>1, <1>4 DEF LoadingIsCovered, CoveredIsLoading
  <1>10. QED
    BY <1>1, <1>6, <1>7, <1>8, <1>9

LEMMA PanicKeepsInv ==
  ASSUME ResourceInv, Panic PROVE ResourceInv'
  <1> USE DEF ResourceInv
  <1>1. /\ aborted' = aborted \union {Top.gen}
        /\ UNCHANGED <<life, gen, cancel, data, err, loading, fetches, cancelled, posted, shown>>
    BY DEF Panic
  <1>2. /\ stack' \in Seq(Call)
        /\ OnStack(Top.gen)
        /\ \A g : OnStack(g)' <=> OnStack(g) /\ g # Top.gen
        /\ \A j, k \in DOMAIN stack' : stack'[j].gen = stack'[k].gen => j = k
    BY LeaveStack DEF Panic
  <1>3. \A g : IsPosted(g)' <=> IsPosted(g)
    BY <1>1 DEF IsPosted
  <1>4. Top.gen \in 1..gen /\ Top.gen \notin fetches /\ ~IsPosted(Top.gen)
    BY <1>2 DEF Once, Outstanding
  <1>5. \A g : Outstanding(g)' <=> Outstanding(g) /\ g # Top.gen
    BY <1>1, <1>2, <1>3, <1>4 DEF Outstanding
  <1>6. TypeOK'
    BY <1>1, <1>2, <1>4 DEF TypeOK
  <1>7. Once'
    <2>1. \A j, k \in DOMAIN posted' : posted'[j].gen = posted'[k].gen => j = k
      BY <1>1 DEF Once
    <2>2. QED
      BY <1>1, <1>2, <1>3, <1>5, <2>1 DEF Once
  <1>8. Cancellable'
    BY <1>1, <1>2 DEF Cancellable
  <1>9. LoadingIsCovered'
    BY <1>1, <1>5 DEF LoadingIsCovered
  <1>10. CoveredIsLoading'
    BY <1>1, <1>2, <1>5 DEF CoveredIsLoading, Outstanding
  <1>11. QED
    BY <1>1, <1>6, <1>7, <1>8, <1>9, <1>10

LEMMA FetchEndsKeepsInv ==
  ASSUME ResourceInv, NEW g \in fetches, FetchEnds(g) PROVE ResourceInv'
  <1> USE DEF ResourceInv
  <1>1. PICK ok \in BOOLEAN : posted' = Append(posted, [gen |-> g, ok |-> ok])
    BY DEF FetchEnds
  <1> DEFINE c == [gen |-> g, ok |-> ok]
  <1>2. /\ fetches' = fetches \ {g}
        /\ UNCHANGED <<life, gen, cancel, data, err, loading, cancelled, stack, aborted, shown>>
    BY DEF FetchEnds
  <1>3. c \in [gen : Nat, ok : BOOLEAN] /\ c.gen = g /\ posted \in Seq([gen : Nat, ok : BOOLEAN])
        /\ posted' = Append(posted, c)
    BY <1>1 DEF TypeOK
  <1> HIDE DEF c
  <1>4. /\ posted' \in Seq([gen : Nat, ok : BOOLEAN])
        /\ Len(posted) + 1 \in DOMAIN posted' /\ posted'[Len(posted) + 1] = c
        /\ \A k \in DOMAIN posted : k \in DOMAIN posted' /\ posted'[k] = posted[k]
        /\ \A k \in DOMAIN posted' : k = Len(posted) + 1 \/ k \in DOMAIN posted
    BY <1>3, AppendFacts
  <1>5. \A l : IsPosted(l)' <=> IsPosted(l) \/ l = g
    BY <1>3, <1>4 DEF IsPosted
  <1>6. \A l : OnStack(l)' <=> OnStack(l)
    BY <1>2 DEF OnStack
  <1>7. TypeOK'
    BY <1>2, <1>4 DEF TypeOK
  <1>8. \A l : Outstanding(l)' <=> Outstanding(l)
    BY <1>2, <1>5, <1>6 DEF Outstanding
  <1>9. Once'
    <2>1. ~IsPosted(g) /\ ~OnStack(g)
      BY DEF Once
    <2>2. \A j, k \in DOMAIN posted' : posted'[j].gen = posted'[k].gen => j = k
      BY <1>3, <1>4, <2>1 DEF Once, IsPosted
    <2>3. \A j, k \in DOMAIN stack' :
            stack'[j].gen = stack'[k].gen => j = k
      BY <1>2 DEF Once
    <2>4. QED
      BY <1>2, <1>5, <1>6, <1>8, <2>1, <2>2, <2>3 DEF Once
  <1>10. Cancellable'
    BY <1>2, <1>6 DEF Cancellable
  <1>11. LoadingIsCovered' /\ CoveredIsLoading'
    BY <1>2, <1>8 DEF LoadingIsCovered, CoveredIsLoading
  <1>12. QED
    BY <1>2, <1>7, <1>9, <1>10, <1>11

LEMMA RunPostedKeepsInv ==
  ASSUME ResourceInv, RunPosted PROVE ResourceInv'
  <1> USE DEF ResourceInv
  <1> DEFINE c == Head(posted)
  <1>1. /\ stack = <<>> /\ posted # <<>> /\ posted' = Tail(posted)
        /\ posted \in Seq([gen : Nat, ok : BOOLEAN])
        /\ UNCHANGED <<life, gen, fetches, stack, aborted>>
    BY DEF RunPosted, Idle, TypeOK
  <1>2. /\ posted' \in Seq([gen : Nat, ok : BOOLEAN])
        /\ c \in [gen : Nat, ok : BOOLEAN] /\ c = posted[1] /\ 1 \in DOMAIN posted
        /\ \A k \in DOMAIN posted' : k + 1 \in DOMAIN posted /\ posted'[k] = posted[k + 1]
                                  /\ k \in Nat \ {0}
        /\ \A k \in DOMAIN posted : k = 1 \/ (k - 1 \in DOMAIN posted' /\ posted'[k - 1] = posted[k])
    <2> DEFINE Callback == [gen : Nat, ok : BOOLEAN]
    <2>1. posted \in Seq(Callback) /\ posted # <<>> /\ posted' = Tail(posted)
      BY <1>1
    <2> HIDE DEF Callback
    <2>2. /\ posted' \in Seq(Callback) /\ c \in Callback /\ c = posted[1] /\ 1 \in DOMAIN posted
          /\ \A k \in DOMAIN posted' : k + 1 \in DOMAIN posted /\ posted'[k] = posted[k + 1]
                                    /\ k \in Nat \ {0}
          /\ \A k \in DOMAIN posted :
               k = 1 \/ (k - 1 \in DOMAIN posted' /\ posted'[k - 1] = posted[k])
      BY <2>1, PopFacts
    <2>3. QED
      BY <2>2 DEF Callback
  <1> HIDE DEF c
  <1>3. \A g : IsPosted(g)' => IsPosted(g) /\ g # c.gen
    BY <1>2 DEF IsPosted, Once
  <1>4. \A g : IsPosted(g) => IsPosted(g)' \/ g = c.gen
    BY <1>2 DEF IsPosted
  <1>5. \A j, k \in DOMAIN posted' : posted'[j].gen = posted'[k].gen => j = k
    <2>1. SUFFICES ASSUME NEW j \in DOMAIN posted', NEW k \in DOMAIN posted',
                          posted'[j].gen = posted'[k].gen
                   PROVE  j = k
      OBVIOUS
    <2>2. j + 1 = k + 1
      BY <1>2, <2>1 DEF Once
    <2>3. QED
      BY <1>2, <2>2
  <1>6. IsPosted(c.gen) /\ c.gen \in 1..gen /\ c.gen # shown /\ c.gen \notin fetches
        /\ c.gen \notin aborted
    BY <1>2 DEF IsPosted, Once, Outstanding
  <1>7. \A g : ~OnStack(g) /\ ~OnStack(g)'
    BY <1>1 DEF OnStack
  <1>8. \A g : Outstanding(g)' <=> Outstanding(g) /\ g # c.gen
    BY <1>1, <1>3, <1>4, <1>6, <1>7 DEF Outstanding
  <1>9. CASE ~IsCurrent(c.gen)
    <2>1. UNCHANGED <<cancel, data, err, loading, cancelled, shown>>
      BY <1>9 DEF RunPosted, c
    <2>2. TypeOK'
      BY <1>1, <1>2, <2>1 DEF TypeOK
    <2>3. Once'
      BY <1>1, <1>3, <1>5, <1>7, <1>8, <2>1 DEF Once
    <2>4. Cancellable'
      BY <1>1, <1>7, <2>1 DEF Cancellable
    <2>5. LoadingIsCovered' /\ CoveredIsLoading'
      BY <1>1, <1>8, <1>9, <2>1 DEF LoadingIsCovered, CoveredIsLoading, IsCurrent
    <2>6. QED
      BY <1>1, <2>1, <2>2, <2>3, <2>4, <2>5
  <1>10. CASE IsCurrent(c.gen)
    <2>1. Apply(c.gen, c.ok) /\ c.gen = gen
      BY <1>10 DEF RunPosted, IsCurrent, c
    <2>2. /\ cancelled' = cancelled \union {gen} /\ cancel' = NoLoad /\ shown' = gen
          /\ loading' = FALSE
      BY <2>1 DEF Apply, LoadingAfter
    <2>3. data' \in Nat /\ err' \in Nat
      BY <1>2, <2>1 DEF Apply, TypeOK
    <2>4. TypeOK'
      BY <1>1, <1>2, <1>6, <2>1, <2>2, <2>3 DEF TypeOK, NoLoad
    <2>5. Once'
      BY <1>1, <1>3, <1>5, <1>7, <1>8, <2>1, <2>2 DEF Once
    <2>6. Cancellable'
      BY <1>1, <1>7, <2>2 DEF Cancellable
    <2>7. LoadingIsCovered'
      BY <2>2 DEF LoadingIsCovered
    <2>8. CoveredIsLoading'
      BY <1>1, <1>6, <1>8, <2>1 DEF CoveredIsLoading
    <2>9. QED
      BY <1>1, <2>2, <2>4, <2>5, <2>6, <2>7, <2>8 DEF TypeOK, NoLoad
  <1>11. QED
    BY <1>9, <1>10

LEMMA UnmountKeepsInv ==
  ASSUME ResourceInv, Unmount PROVE ResourceInv'
  <1> USE DEF ResourceInv
  <1>1. /\ UNCHANGED <<data, err, loading, fetches, posted, stack, aborted, shown>>
        /\ life' = "unmounted"
        /\ gen' \in Nat /\ gen' >= gen /\ gen \in Nat
        /\ cancelled \subseteq cancelled' /\ cancelled' \subseteq 1..gen'
        /\ cancel' \in 0..gen'
    <2>1. CASE life = "mounted"
      <3>1. /\ UNCHANGED <<data, err, loading, fetches, posted, stack, aborted, shown>>
            /\ life' = "unmounted"
            /\ gen' = gen + 1 /\ cancelled' = CancelledByStop /\ cancel' = 0
        BY <2>1 DEF Unmount, NoLoad
      <3>2. QED
        BY <3>1, StopCancels DEF TypeOK
    <2>2. CASE life = "rendered"
      <3>1. /\ UNCHANGED <<data, err, loading, fetches, posted, stack, aborted, shown>>
            /\ life' = "unmounted"
            /\ gen' = gen /\ cancelled' = cancelled /\ cancel' = cancel
        BY <2>2 DEF Unmount
      <3>2. QED
        BY <3>1 DEF TypeOK
    <2>3. life = "mounted" \/ life = "rendered"
      BY DEF Unmount
    <2>4. QED
      BY <2>1, <2>2, <2>3
  <1>2. \A g :
          /\ OnStack(g)' <=> OnStack(g)
          /\ IsPosted(g)' <=> IsPosted(g)
          /\ Outstanding(g)' <=> Outstanding(g)
    BY <1>1 DEF OnStack, IsPosted, Outstanding
  <1>3. TypeOK'
    BY <1>1 DEF TypeOK
  <1>4. Once'
    <2>1. \A g : Outstanding(g)' => g \in 1..gen' /\ g # shown' /\ g \notin aborted'
      BY <1>1, <1>2 DEF Once
    <2>2. \A j, k \in DOMAIN stack' :
            stack'[j].gen = stack'[k].gen => j = k
      BY <1>1 DEF Once
    <2>3. \A j, k \in DOMAIN posted' : posted'[j].gen = posted'[k].gen => j = k
      BY <1>1 DEF Once
    <2>4. QED
      BY <1>1, <1>2, <2>1, <2>2, <2>3 DEF Once
  <1>5. Cancellable'
    <2>1. CASE life = "mounted"
      <3>1. ASSUME NEW g, OnStack(g) \/ g \in fetches PROVE g \in cancelled'
        BY <2>1, <3>1, OutstandingIsCancelled DEF Unmount
      <3>2. QED
        BY <1>1, <1>2, <3>1 DEF Cancellable
    <2>2. CASE life = "rendered"
      BY <1>1, <1>2, <2>2 DEF Cancellable, Unmount
    <2>3. QED
      BY <2>1, <2>2 DEF Unmount
  <1>6. LoadingIsCovered'
    BY <1>1 DEF LoadingIsCovered
  <1>7. CoveredIsLoading'
    <2>1. CASE life = "mounted"
      <3>1. gen' = gen + 1
        BY <2>1 DEF Unmount
      <3>2. ~Outstanding(gen') /\ gen' \notin aborted
        BY <1>1, <3>1 DEF Once, TypeOK
      <3>3. QED
        BY <1>1, <1>2, <3>2 DEF CoveredIsLoading
    <2>2. CASE life = "rendered"
      <3>1. gen' = gen
        BY <2>2 DEF Unmount
      <3>2. QED
        BY <1>1, <1>2, <3>1 DEF CoveredIsLoading
    <2>3. QED
      BY <2>1, <2>2 DEF Unmount
  <1>8. QED
    BY <1>1, <1>3, <1>4, <1>5, <1>6, <1>7 DEF TypeOK

LEMMA ResourceInvNext ==
  ASSUME ResourceInv, [Next]_vars PROVE ResourceInv'
  <1>1. CASE Mount
    BY <1>1, MountKeepsInv
  <1>2. CASE Load
    BY <1>2, LoadKeepsInv
  <1>3. CASE \E g \in fetches : FetchEnds(g)
    BY <1>3, FetchEndsKeepsInv
  <1>4. CASE OnLoop
    BY <1>4, LoadErrKeepsInv, LoadFetchKeepsInv, RunPostedKeepsInv DEF OnLoop
  <1>5. CASE Panic
    BY <1>5, PanicKeepsInv
  <1>6. CASE Unmount
    BY <1>6, UnmountKeepsInv
  <1>7. CASE UNCHANGED vars
    <2>1. UNCHANGED <<life, gen, cancel, data, err, loading, fetches, cancelled, posted, stack,
                      aborted, shown>>
      BY <1>7 DEF vars
    <2>2. TypeOK' /\ (shown <= gen)' /\ (cancel \in 0..gen)'
      BY <2>1 DEF ResourceInv, TypeOK
    <2>3. \A g : /\ OnStack(g)' <=> OnStack(g)
                 /\ IsPosted(g)' <=> IsPosted(g)
                 /\ Outstanding(g)' <=> Outstanding(g)
      BY <2>1 DEF OnStack, IsPosted, Outstanding
    <2>4. Once'
      BY <2>1, <2>3 DEF ResourceInv, Once
    <2>5. Cancellable' /\ LoadingIsCovered' /\ CoveredIsLoading'
      BY <2>1, <2>3 DEF ResourceInv, Cancellable, LoadingIsCovered, CoveredIsLoading
    <2>6. QED
      BY <2>2, <2>4, <2>5 DEF ResourceInv
  <1>8. QED
    BY <1>1, <1>2, <1>3, <1>4, <1>5, <1>6, <1>7 DEF Next

\* The invariant the theorems below rest on.
THEOREM ResourceInvariant == Spec => []ResourceInv
  <1>1. Init => ResourceInv
    BY ResourceInvInit
  <1>2. ResourceInv /\ [Next]_vars => ResourceInv'
    BY ResourceInvNext
  <1>3. QED
    BY <1>1, <1>2, PTL DEF Spec

\* The variables of the model keep their types, for any number of loads.
THEOREM ResourceTypes == Spec => []TypeOK
  <1>1. ResourceInv => TypeOK
    BY DEF ResourceInv
  <1>2. QED
    BY <1>1, ResourceInvariant, PTL

\* A fetch that a newer load or the unmount of a mounted component has superseded runs
\* with a cancelled context, however deep the loads that superseded it were nested.
THEOREM SupersededFetchIsCancelled == Spec => []SupersededIsCancelled
  <1>1. ResourceInv => SupersededIsCancelled
    BY DEF ResourceInv, Cancellable, SupersededIsCancelled
  <1>2. QED
    BY <1>1, ResourceInvariant, PTL

\* Loading is true exactly while the newest load's fetch is in flight, whenever no load is
\* in progress on the loop, unless a panic ended that load.
THEOREM LoadingTellsFetching == Spec => []LoadingIsFetching
  <1>1. ASSUME ResourceInv, Idle, life # "unmounted", gen > 0
        PROVE  loading <=> Coming(gen) \/ gen \in aborted
    <2>1. ~OnStack(gen)
      BY <1>1 DEF Idle, OnStack
    <2>2. Outstanding(gen) <=> Coming(gen)
      BY <2>1 DEF Outstanding, Coming, IsPosted
    <2>3. loading => Outstanding(gen) \/ gen \in aborted
      BY <1>1 DEF ResourceInv, LoadingIsCovered
    <2>4. Outstanding(gen) \/ gen \in aborted => loading
      BY <1>1 DEF ResourceInv, CoveredIsLoading
    <2>5. QED
      BY <2>2, <2>3, <2>4
  <1>2. ResourceInv => LoadingIsFetching
    BY <1>1 DEF LoadingIsFetching
  <1>3. QED
    BY <1>2, ResourceInvariant, PTL

LEMMA LatestStep ==
  ASSUME ResourceInv, [Next]_vars PROVE [Latest!Next]_(Latest!vars)
  <1>1. CASE UNCHANGED shown /\ gen' = gen + 1
    BY <1>1 DEF Latest!Next, Latest!Start
  <1>2. CASE UNCHANGED <<gen, shown>>
    BY <1>2 DEF Latest!vars
  <1>3. CASE gen' = gen /\ shown < gen /\ shown' = gen
    BY <1>3 DEF Latest!Next, Latest!Settle
  <1>4. CASE RunPosted
    <2>1. CASE ~IsCurrent(Head(posted).gen)
      BY <1>2, <1>4, <2>1 DEF RunPosted
    <2>2. CASE IsCurrent(Head(posted).gen)
      <3>1. IsPosted(Head(posted).gen)
        <4>1. posted # <<>> /\ posted \in Seq([gen : Nat, ok : BOOLEAN])
          BY <1>4 DEF RunPosted, ResourceInv, TypeOK
        <4>2. 1 \in DOMAIN posted /\ Head(posted) = posted[1]
          BY <4>1
        <4>3. QED
          BY <4>2 DEF IsPosted
      <3>2. shown # gen
        BY <2>2, <3>1 DEF IsCurrent, ResourceInv, Once, Outstanding
      <3>3. gen' = gen /\ shown' = gen
        BY <1>4, <2>2 DEF RunPosted, Apply, IsCurrent
      <3>4. QED
        BY <1>3, <3>2, <3>3 DEF ResourceInv, TypeOK
    <2>3. QED
      BY <2>1, <2>2
  <1>5. QED
    BY <1>1, <1>2, <1>4 DEF Next, Mount, Load, Started, FetchEnds, OnLoop, LoadErr, LoadFetch,
       Panic, Unmount, vars

\* A resource shows the result of its newest load only, and each result once: it
\* implements Latest.
THEOREM ResourceShowsLatest == Spec => LatestSpec
  <1>1. Init => Latest!Init
    BY DEF Init, Latest!Init, NoLoad
  <1>2. ResourceInv /\ [Next]_vars => [Latest!Next]_(Latest!vars)
    BY LatestStep
  <1>3. QED
    BY <1>1, <1>2, ResourceInvariant, PTL DEF Spec, LatestSpec, Latest!Spec
=============================================================================
