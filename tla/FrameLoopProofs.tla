--------------------------- MODULE FrameLoopProofs ---------------------------
(***************************************************************************)
(* Proofs about FrameLoop, for any number of tasks, reads, effects and     *)
(* scopes and any pass bound.                                              *)
(***************************************************************************)
EXTENDS FrameLoop, FiniteSetTheorems, TLAPS

\* The types the proofs need.
FrameTypes ==
  /\ phase \in {"idle", "posted", "render", "apply", "reply", "effects"}
  /\ scheduled \in BOOLEAN /\ hidden \in BOOLEAN /\ gaveUp \in BOOLEAN
  /\ rafs \in Nat /\ timers \in Nat
  /\ posted \in Seq(Task)

\* WorkHasFrame, extended to every phase: outside a flush, queued mutations and dirty
\* scopes have a frame; a posted task has one even during a flush; effects wait for
\* RunEffects of this frame until it has taken them.
WorkIsCovered ==
  /\ ~InFlush /\ queue # <<>> => scheduled
  /\ ~InFlush /\ dirty # {} /\ ~gaveUp => scheduled
  /\ ToSet(posted) \ posting # {} => scheduled
  /\ phase \in {"idle", "effects"} /\ effects # <<>> => scheduled

FrameInv == FrameTypes /\ WorkIsCovered /\ FrameIsPending

LEMMA FrameInvInit == Init => FrameInv
  <1> SUFFICES ASSUME Init PROVE FrameInv
    OBVIOUS
  <1>1. FrameTypes
    <2>1. rafs \in Nat /\ timers \in Nat
      BY DEF Init
    <2>2. posted \in Seq(Task)
      BY DEF Init
    <2>3. scheduled \in BOOLEAN /\ hidden \in BOOLEAN /\ gaveUp \in BOOLEAN /\ phase = "idle"
      BY DEF Init
    <2>4. QED
      BY <2>1, <2>2, <2>3 DEF FrameTypes
  <1>2. WorkIsCovered
    BY DEF Init, WorkIsCovered, ToSet
  <1>3. WillCallBack
    <2>1. CASE hidden BY <2>1 DEF Init, WillCallBack
    <2>2. CASE ~hidden BY <2>2 DEF Init, WillCallBack
    <2>3. QED BY <2>1, <2>2
  <1>4. QED
    BY <1>1, <1>2, <1>3 DEF FrameInv, FrameIsPending

\* What OnWork leaves behind: a request, pending.
LEMMA OnWorkRequests ==
  ASSUME FrameTypes, FrameIsPending, OnWork, UNCHANGED hidden
  PROVE  scheduled' = TRUE /\ WillCallBack' /\ rafs' \in Nat /\ timers' \in Nat
  <1>1. CASE scheduled
    BY <1>1 DEF OnWork, FrameTypes, FrameIsPending, WillCallBack, frameVars
  <1>2. CASE ~scheduled
    <2>1. scheduled' = TRUE
      BY <1>2 DEF OnWork
    <2>2. rafs' \in Nat /\ timers' \in Nat
      BY <1>2 DEF OnWork, FrameTypes
    <2>3. WillCallBack'
      <3>1. CASE hidden
        <4>1. timers' > 0
          BY <1>2, <3>1 DEF OnWork, FrameTypes
        <4>2. QED
          BY <4>1 DEF WillCallBack
      <3>2. CASE ~hidden
        <4>1. rafs' > 0
          BY <1>2, <3>2 DEF OnWork, FrameTypes
        <4>2. QED
          BY <3>2, <4>1 DEF WillCallBack
      <3>3. QED
        BY <3>1, <3>2
    <2>4. QED
      BY <2>1, <2>2, <2>3
  <1>3. QED
    BY <1>1, <1>2

\* A step that leaves the frame request alone.
LEMMA RequestUnchanged ==
  ASSUME FrameTypes, FrameIsPending, UNCHANGED <<scheduled, rafs, timers, hidden>>
  PROVE  FrameIsPending' /\ rafs' \in Nat /\ timers' \in Nat
  BY DEF FrameTypes, FrameIsPending, WillCallBack

LEMMA PostAppendKeepsInv ==
  ASSUME FrameInv, NEW t \in Task, PostAppend(t) PROVE FrameInv'
  <1>1. FrameIsPending' /\ rafs' \in Nat /\ timers' \in Nat
    BY RequestUnchanged DEF PostAppend, FrameInv, frameVars
  <1>2. posted' \in Seq(Task)
    BY DEF PostAppend, FrameInv, FrameTypes
  <1>3. ToSet(posted') \ posting' \subseteq ToSet(posted) \ posting
    BY DEF PostAppend, FrameInv, FrameTypes, ToSet
  <1>4. FrameTypes'
    BY <1>1, <1>2 DEF PostAppend, FrameInv, FrameTypes, frameVars, scopeVars
  <1>5. WorkIsCovered'
    BY <1>3 DEF PostAppend, FrameInv, WorkIsCovered, frameVars, scopeVars, effectVars, InFlush
  <1>6. QED
    BY <1>1, <1>4, <1>5 DEF FrameInv

\* User code on the loop that adds work: it is covered if the loop is signalled.
LEMMA SignalWorkCovers ==
  ASSUME FrameInv, SignalWork, UNCHANGED hidden
  PROVE  /\ FrameIsPending' /\ rafs' \in Nat /\ timers' \in Nat /\ scheduled' \in BOOLEAN
         /\ InFlush \/ scheduled' = TRUE
         /\ scheduled => scheduled' = TRUE
  <1>1. CASE InFlush /\ UNCHANGED frameVars
    BY <1>1, RequestUnchanged DEF FrameInv, FrameTypes, frameVars
  <1>2. CASE ~InFlush /\ OnWork
    BY <1>2, OnWorkRequests DEF FrameInv, FrameIsPending
  <1>3. QED
    BY <1>1, <1>2 DEF SignalWork

\* A step that changes the request only.
LEMMA PostSignalKeepsInv ==
  ASSUME FrameInv, NEW t \in Task, PostSignal(t) PROVE FrameInv'
  <1>1. scheduled' = TRUE /\ WillCallBack' /\ rafs' \in Nat /\ timers' \in Nat
    BY OnWorkRequests DEF PostSignal, SignalPost, FrameInv
  <1>2. FrameIsPending'
    BY <1>1 DEF FrameIsPending
  <1>3. FrameTypes'
    BY <1>1 DEF PostSignal, FrameInv, FrameTypes, scopeVars
  <1>4. WorkIsCovered'
    BY <1>1 DEF WorkIsCovered
  <1>5. QED
    BY <1>2, <1>3, <1>4 DEF FrameInv

LEMMA MarkDirtyKeepsInv ==
  ASSUME FrameInv, NEW s \in Scope, MarkDirty(s) PROVE FrameInv'
  <1>1. CASE s \in dirty
    <2>1. FrameIsPending' /\ rafs' \in Nat /\ timers' \in Nat
      BY <1>1, RequestUnchanged DEF MarkDirty, FrameInv, frameVars
    <2>2. FrameTypes'
      BY <2>1, <1>1 DEF MarkDirty, FrameInv, FrameTypes, frameVars, inboxVars
    <2>3. dirty' = dirty
      BY <1>1 DEF MarkDirty
    <2>4. WorkIsCovered'
      BY <1>1, <2>3 DEF MarkDirty, FrameInv, WorkIsCovered, InFlush, frameVars, inboxVars, effectVars
    <2>5. QED
      BY <2>1, <2>2, <2>4 DEF FrameInv
  <1>2. CASE s \notin dirty
    <2>1. /\ FrameIsPending' /\ rafs' \in Nat /\ timers' \in Nat /\ scheduled' \in BOOLEAN
          /\ InFlush \/ scheduled' = TRUE
          /\ scheduled => scheduled' = TRUE
      BY <1>2, SignalWorkCovers DEF MarkDirty
    <2>2. FrameTypes'
      BY <2>1 DEF MarkDirty, FrameInv, FrameTypes, inboxVars
    <2>3. WorkIsCovered'
      BY <2>1 DEF MarkDirty, FrameInv, WorkIsCovered, InFlush, inboxVars, effectVars
    <2>4. QED
      BY <2>1, <2>2, <2>3 DEF FrameInv
  <1>3. QED
    BY <1>1, <1>2

LEMMA EnqueueWriteKeepsInv ==
  ASSUME FrameInv, NEW w \in Write, EnqueueWrite(w) PROVE FrameInv'
  <1>1. /\ FrameIsPending' /\ rafs' \in Nat /\ timers' \in Nat /\ scheduled' \in BOOLEAN
        /\ InFlush \/ scheduled' = TRUE
        /\ scheduled => scheduled' = TRUE
    BY SignalWorkCovers DEF EnqueueWrite
  <1>2. FrameTypes'
    BY <1>1 DEF EnqueueWrite, FrameInv, FrameTypes, inboxVars, scopeVars
  <1>3. WorkIsCovered'
    BY <1>1 DEF EnqueueWrite, FrameInv, WorkIsCovered, InFlush, inboxVars, effectVars, scopeVars
  <1>4. QED
    BY <1>1, <1>2, <1>3 DEF FrameInv

LEMMA EnqueueReadKeepsInv ==
  ASSUME FrameInv, NEW r \in Read, EnqueueRead(r) PROVE FrameInv'
  <1>1. /\ FrameIsPending' /\ rafs' \in Nat /\ timers' \in Nat /\ scheduled' \in BOOLEAN
        /\ InFlush \/ scheduled' = TRUE
        /\ scheduled => scheduled' = TRUE
    BY SignalWorkCovers DEF EnqueueRead
  <1>2. FrameTypes'
    BY <1>1 DEF EnqueueRead, FrameInv, FrameTypes, inboxVars, scopeVars
  <1>3. WorkIsCovered'
    BY <1>1 DEF EnqueueRead, FrameInv, WorkIsCovered, InFlush, inboxVars, effectVars, scopeVars
  <1>4. QED
    BY <1>1, <1>2, <1>3 DEF FrameInv

\* The callback of a frame request: the first one runs the frame, others do nothing.
LEMMA FireKeepsInv ==
  ASSUME FrameInv, FireRaf \/ FireTimer PROVE FrameInv'
  <1>1. rafs' \in Nat /\ timers' \in Nat
    BY DEF FireRaf, FireTimer, FrameInv, FrameTypes
  <1>2. Frame
    BY DEF FireRaf, FireTimer
  <1>3. scheduled' = FALSE
    BY <1>2 DEF Frame, FrameInv, FrameTypes
  <1>4. CASE scheduled
    <2>1. /\ phase' = "posted" /\ posted' = <<>>
      BY <1>2, <1>4 DEF Frame
    <2>2. FrameTypes'
      <3>1. posted' \in Seq(Task)
        BY <2>1
      <3>2. UNCHANGED <<hidden, gaveUp>>
        BY <1>2 DEF Frame, scopeVars
      <3>3. QED
        BY <1>1, <1>3, <2>1, <3>1, <3>2 DEF FrameInv, FrameTypes
    <2>3. WorkIsCovered'
      BY <2>1 DEF WorkIsCovered, InFlush, ToSet
    <2>4. QED
      BY <1>3, <2>2, <2>3 DEF FrameInv, FrameIsPending
  <1>5. CASE ~scheduled
    <2>1. UNCHANGED <<phase, scheduled, posted, draining>>
      BY <1>2, <1>5 DEF Frame
    <2>2. FrameTypes'
      BY <1>1, <1>2, <2>1 DEF Frame, FrameInv, FrameTypes, scopeVars
    <2>3. WorkIsCovered'
      BY <1>2, <2>1 DEF Frame, FrameInv, WorkIsCovered, InFlush, effectVars, scopeVars
    <2>4. QED
      BY <1>3, <2>2, <2>3 DEF FrameInv, FrameIsPending
  <1>6. QED
    BY <1>4, <1>5

\* A requested frame follows the page into the background, and back.
LEMMA HideKeepsInv ==
  ASSUME FrameInv, Hide PROVE FrameInv'
  <1>1. rafs' \in Nat /\ timers' \in Nat /\ (scheduled => timers' > 0)
    BY DEF Hide, TimersOnceHidden, FrameInv, FrameTypes
  <1>2. FrameIsPending'
    BY <1>1 DEF Hide, FrameIsPending, WillCallBack
  <1>3. FrameTypes'
    BY <1>1 DEF Hide, FrameInv, FrameTypes, inboxVars, scopeVars
  <1>4. WorkIsCovered'
    BY DEF Hide, FrameInv, WorkIsCovered, InFlush, inboxVars, effectVars, scopeVars
  <1>5. QED
    BY <1>2, <1>3, <1>4 DEF FrameInv

LEMMA ShowKeepsInv ==
  ASSUME FrameInv, Show PROVE FrameInv'
  <1>1. FrameIsPending'
    BY DEF Show, FrameInv, FrameIsPending, WillCallBack, frameVars
  <1>2. FrameTypes'
    BY DEF Show, FrameInv, FrameTypes, frameVars, inboxVars, scopeVars
  <1>3. WorkIsCovered'
    BY DEF Show, FrameInv, WorkIsCovered, InFlush, frameVars, inboxVars, effectVars, scopeVars
  <1>4. QED
    BY <1>1, <1>2, <1>3 DEF FrameInv
\* The steps of a frame leave the request alone.
LEMMA InFrameKeepsInv ==
  ASSUME FrameInv, InFrame PROVE FrameInv'
  <1> USE DEF frameVars, inboxVars, readVars, effectVars, scopeVars
  <1>1. /\ UNCHANGED <<scheduled, rafs, timers, hidden, posted, posting>>
        /\ gaveUp' \in BOOLEAN
        /\ phase' \in {"idle", "posted", "render", "apply", "reply", "effects"}
    <2>1. CASE RunPosted BY <2>1 DEF RunPosted, FrameInv, FrameTypes
    <2>2. CASE DrainDone BY <2>2 DEF DrainDone, FrameInv, FrameTypes
    <2>3. CASE StartPass BY <2>3 DEF StartPass, FrameInv, FrameTypes
    <2>4. CASE Render BY <2>4 DEF Render, FrameInv, FrameTypes
    <2>5. CASE FlushDone
      <3>1. gaveUp' \in BOOLEAN
        BY <2>5 DEF FlushDone
      <3>2. QED
        BY <2>5, <3>1 DEF FlushDone
    <2>6. CASE Apply BY <2>6 DEF Apply, FrameInv, FrameTypes
    <2>7. CASE Resolve BY <2>7 DEF Resolve, FrameInv, FrameTypes
    <2>8. CASE TakeEffects BY <2>8 DEF TakeEffects, FrameInv, FrameTypes
    <2>9. CASE RunEffect BY <2>9 DEF RunEffect, FrameInv, FrameTypes
    <2>10. CASE FrameDone BY <2>10 DEF FrameDone, FrameInv, FrameTypes
    <2>11. QED
      BY <2>1, <2>2, <2>3, <2>4, <2>5, <2>6, <2>7, <2>8, <2>9, <2>10 DEF InFrame
  <1>2. FrameTypes'
    BY <1>1 DEF FrameInv, FrameTypes
  <1>3. FrameIsPending'
    BY <1>1, RequestUnchanged DEF FrameInv
  <1>4. WorkIsCovered'
    <2> USE <1>1 DEF FrameInv, WorkIsCovered, InFlush
    <2>1. CASE RunPosted BY <2>1 DEF RunPosted
    <2>2. CASE DrainDone BY <2>2 DEF DrainDone
    <2>3. CASE StartPass BY <2>3 DEF StartPass
    <2>4. CASE Render BY <2>4 DEF Render
    <2>5. CASE FlushDone
      <3>1. ~gaveUp' => dirty' = {}
        BY <2>5 DEF FlushDone
      <3>2. queue' = <<>> /\ phase' = "apply"
        BY <2>5 DEF FlushDone
      <3>3. QED
        BY <3>1, <3>2
    <2>6. CASE Apply BY <2>6 DEF Apply
    <2>7. CASE Resolve BY <2>7 DEF Resolve
    <2>8. CASE TakeEffects BY <2>8 DEF TakeEffects, EffectsDue
    <2>9. CASE RunEffect BY <2>9 DEF RunEffect
    <2>10. CASE FrameDone BY <2>10 DEF FrameDone
    <2>11. QED
      BY <2>1, <2>2, <2>3, <2>4, <2>5, <2>6, <2>7, <2>8, <2>9, <2>10 DEF InFrame
  <1>5. QED
    BY <1>2, <1>3, <1>4 DEF FrameInv

LEMMA StutterKeepsInv ==
  ASSUME FrameInv, UNCHANGED vars PROVE FrameInv'
  BY DEF FrameInv, FrameTypes, WorkIsCovered, InFlush, FrameIsPending, WillCallBack, vars,
         frameVars, inboxVars, readVars, effectVars, scopeVars

LEMMA FrameInvNext ==
  ASSUME FrameInv, [Next]_vars PROVE FrameInv'
  <1>1. CASE \E t \in Task : PostAppend(t) \/ PostSignal(t)
    BY <1>1, PostAppendKeepsInv, PostSignalKeepsInv
  <1>2. CASE \E s \in Scope : MarkDirty(s)
    BY <1>2, MarkDirtyKeepsInv
  <1>3. CASE \E w \in Write : EnqueueWrite(w)
    BY <1>3, EnqueueWriteKeepsInv
  <1>4. CASE \E r \in Read : EnqueueRead(r)
    BY <1>4, EnqueueReadKeepsInv
  <1>5. CASE FireRaf \/ FireTimer
    BY <1>5, FireKeepsInv
  <1>6. CASE Hide
    BY <1>6, HideKeepsInv
  <1>7. CASE Show
    BY <1>7, ShowKeepsInv
  <1>8. CASE InFrame
    BY <1>8, InFrameKeepsInv
  <1>9. CASE UNCHANGED vars
    BY <1>9, StutterKeepsInv
  <1>10. QED
    BY <1>1, <1>2, <1>3, <1>4, <1>5, <1>6, <1>7, <1>8, <1>9 DEF Next

\* The invariant the theorems below rest on.
THEOREM FrameInvariant == Spec => []FrameInv
  <1>1. Init => FrameInv
    BY FrameInvInit
  <1>2. FrameInv /\ [Next]_vars => FrameInv'
    BY FrameInvNext
  <1>3. QED
    BY <1>1, <1>2, PTL DEF Spec

\* Whenever the loop is idle and there is work (queued mutations, effects, dirty scopes,
\* posted callbacks), a frame is requested: no update waits for an unrelated event.
THEOREM WorkAlwaysHasFrame == Spec => []WorkHasFrame
  <1>1. FrameInv => WorkHasFrame
    BY DEF FrameInv, WorkIsCovered, WorkHasFrame, HasWork, InFlush
  <1>2. QED
    BY <1>1, FrameInvariant, PTL

\* A requested frame has a callback the browser will make, whether the page is hidden,
\* shown again or was hidden between the request and the frame.
THEOREM RequestedFrameIsPending == Spec => []FrameIsPending
  <1>1. FrameInv => FrameIsPending
    BY DEF FrameInv
  <1>2. QED
    BY <1>1, FrameInvariant, PTL
-----------------------------------------------------------------------------
\* A step that touches neither the pending scopes nor the mounted ones.
LEMMA ScopesUnchanged ==
  ASSUME PendingIsMounted, UNCHANGED <<mounted, dirty, flushing>> PROVE PendingIsMounted'
  BY DEF PendingIsMounted

LEMMA PendingIsMountedNext ==
  ASSUME PendingIsMounted, [Next]_vars PROVE PendingIsMounted'
  <1>1. CASE \E s \in Scope : MarkDirty(s)
    BY <1>1 DEF MarkDirty, PendingIsMounted
  <1>2. CASE StartPass
    BY <1>2 DEF StartPass, PendingIsMounted, effectVars
  <1>3. CASE Render
    <2>1. PICK after, adopted, marks :
            /\ mounted' = after
            /\ marks \subseteq after
            /\ dirty' = (dirty \ ((mounted \ after) \union adopted)) \union marks
            /\ flushing' \subseteq flushing \ ((mounted \ after) \union adopted)
      BY <1>3 DEF Render, CancelledInPass
    <2>2. QED
      BY <2>1 DEF PendingIsMounted
  <1>4. CASE UNCHANGED <<mounted, dirty, flushing>>
    BY <1>4, ScopesUnchanged
  <1>5. UNCHANGED <<mounted, dirty, flushing>> \/ StartPass \/ Render
        \/ \E s \in Scope : MarkDirty(s)
    BY DEF Next, InFrame, vars, scopeVars, PostAppend, PostSignal, EnqueueWrite, EnqueueRead,
           FireRaf, FireTimer, Frame, Hide, Show, RunPosted, DrainDone, FlushDone, Apply,
           Resolve, TakeEffects, RunEffect, FrameDone
  <1>6. QED
    BY <1>1, <1>2, <1>3, <1>4, <1>5

\* No render is ever pending for a scope that is not mounted: CancelDirty reaches both the
\* next pass and the one under way, whatever a render unmounts, adopts or marks.
THEOREM NoUnmountedScopeIsPending == Spec => []PendingIsMounted
  <1>1. Init => PendingIsMounted
    BY DEF Init, PendingIsMounted
  <1>2. PendingIsMounted /\ [Next]_vars => PendingIsMounted'
    BY PendingIsMountedNext
  <1>3. QED
    BY <1>1, <1>2, PTL DEF Spec
-----------------------------------------------------------------------------
(* What a frame carries: mutations, reads and effects *)

\* The rank of a position among those kept.
Rank(I, i) == Cardinality({j \in I : j <= i})

\* Ranks number the positions kept from 1 on, each with a rank of its own.
LEMMA RankIsBijection ==
  ASSUME NEW n \in Nat, NEW I \in SUBSET (1..n)
  PROVE  /\ Cardinality(I) \in Nat
         /\ \A i \in I : Rank(I, i) \in 1..Cardinality(I)
         /\ \A i, j \in I : Rank(I, i) = Rank(I, j) => i = j
         /\ \A k \in 1..Cardinality(I) : \E i \in I : Rank(I, i) = k
  <1>1. IsFiniteSet(I)
    <2>1. IsFiniteSet(1..n)
      BY FS_Interval
    <2>2. QED
      BY <2>1, FS_Subset
  <1>2. Cardinality(I) \in Nat
    BY <1>1, FS_CardinalityType
  <1>3. ASSUME NEW i \in I PROVE Rank(I, i) \in 1..Cardinality(I)
    <2>1. {j \in I : j <= i} \in SUBSET I /\ i \in {j \in I : j <= i}
      OBVIOUS
    <2>2. IsFiniteSet({j \in I : j <= i}) /\ Rank(I, i) <= Cardinality(I)
      BY <1>1, <2>1, FS_Subset DEF Rank
    <2>3. Rank(I, i) \in Nat /\ Rank(I, i) # 0
      BY <2>1, <2>2, FS_CardinalityType, FS_EmptySet DEF Rank
    <2>4. QED
      BY <1>2, <2>2, <2>3
  <1>4. ASSUME NEW i \in I, NEW j \in I, Rank(I, i) = Rank(I, j) PROVE i >= j
    <2>1. SUFFICES ASSUME i < j PROVE FALSE
      OBVIOUS
    <2>2. {k \in I : k <= i} \in SUBSET {k \in I : k <= j}
      <3>1. i \in Int /\ j \in Int /\ \A k \in I : k \in Int
        OBVIOUS
      <3>2. \A k \in I : k <= i => k <= j
        BY <2>1, <3>1
      <3>3. QED
        BY <3>2
    <2>3. IsFiniteSet({k \in I : k <= j})
      BY <1>1, FS_Subset
    <2>4. {k \in I : k <= i} = {k \in I : k <= j}
      BY <1>4, <2>2, <2>3, FS_Subset DEF Rank
    <2>5. QED
      BY <2>1, <2>4
  <1>5. \A i, j \in I : Rank(I, i) = Rank(I, j) => i = j
    BY <1>4
  <1>6. ASSUME NEW k \in 1..Cardinality(I) PROVE \E i \in I : Rank(I, i) = k
    <2> DEFINE f == [i \in I |-> Rank(I, i)]
    <2>1. f \in Injection(I, 1..Cardinality(I))
      BY <1>3, <1>5 DEF Injection, IsInjective
    <2>2. IsFiniteSet(1..Cardinality(I)) /\ Cardinality(1..Cardinality(I)) = Cardinality(I)
      BY <1>2, FS_Interval
    <2>3. f \in Surjection(I, 1..Cardinality(I))
      BY <2>1, <2>2, FS_Injection
    <2>4. QED
      BY <2>3 DEF Surjection
  <1>7. QED
    BY <1>2, <1>3, <1>5, <1>6

\* SelectAt keeps exactly the elements at the positions given, each once.
LEMMA SelectAtKeeps ==
  ASSUME NEW S, NEW q \in Seq(S), NEW I \in SUBSET DOMAIN q
  PROVE  /\ SelectAt(q, I) \in Seq(S)
         /\ \A i \in I : \E k \in DOMAIN SelectAt(q, I) : SelectAt(q, I)[k] = q[i]
         /\ \E f \in [DOMAIN SelectAt(q, I) -> I] :
               /\ \A k \in DOMAIN SelectAt(q, I) : SelectAt(q, I)[k] = q[f[k]]
               /\ \A k, l \in DOMAIN SelectAt(q, I) : f[k] = f[l] => k = l
  <1> DEFINE at == [k \in 1..Cardinality(I) |-> CHOOSE i \in I : Rank(I, i) = k]
  <1>1. Len(q) \in Nat /\ DOMAIN q = 1..Len(q)
    OBVIOUS
  <1>2. /\ Cardinality(I) \in Nat
        /\ \A i \in I : Rank(I, i) \in 1..Cardinality(I)
        /\ \A i, j \in I : Rank(I, i) = Rank(I, j) => i = j
        /\ \A k \in 1..Cardinality(I) : \E i \in I : Rank(I, i) = k
    BY <1>1, RankIsBijection
  <1>3. \A k \in 1..Cardinality(I) : at[k] \in I /\ Rank(I, at[k]) = k
    BY <1>2
  <1>4. SelectAt(q, I) = [k \in 1..Cardinality(I) |-> q[at[k]]]
    BY DEF SelectAt, Rank
  <1>5. at \in [1..Cardinality(I) -> I]
    BY <1>3
  <1> HIDE DEF at
  <1>6. DOMAIN SelectAt(q, I) = 1..Cardinality(I)
    BY <1>4
  <1>7. \A k \in 1..Cardinality(I) : SelectAt(q, I)[k] = q[at[k]]
    BY <1>4
  <1>8. \A k \in 1..Cardinality(I) : q[at[k]] \in S
    BY <1>5, <1>1
  <1>9. SelectAt(q, I) \in Seq(S)
    BY <1>2, <1>4, <1>8
  <1>10. ASSUME NEW i \in I PROVE \E k \in DOMAIN SelectAt(q, I) : SelectAt(q, I)[k] = q[i]
    <2>1. at[Rank(I, i)] = i
      BY <1>2, <1>3
    <2>2. QED
      BY <2>1, <1>2, <1>6, <1>7
  <1>11. \A k, l \in DOMAIN SelectAt(q, I) : at[k] = at[l] => k = l
    BY <1>3, <1>6
  <1>12. QED
    BY <1>5, <1>6, <1>7, <1>9, <1>10, <1>11
-----------------------------------------------------------------------------
\* No read is twice in q.
Once(q) == \A i, j \in DOMAIN q : q[i] \in Read /\ q[i] = q[j] => i = j
\* The reads in q.
ReadsIn(q) == ToSet(q) \intersect Read

\* The types of the sequences of mutations and effects, and the phases in which those a
\* frame has taken are empty.
BatchTypes ==
  /\ phase \in {"idle", "posted", "render", "apply", "reply", "effects"}
  /\ queue \in Seq(Mutation) /\ batch \in Seq(Mutation) /\ replies \in Seq(Read)
  /\ effects \in Seq(Effect) /\ running \in Seq(Effect)
  /\ phase # "apply" => batch = <<>>
  /\ phase # "reply" => replies = <<>>
  /\ phase # "effects" => running = <<>>

\* EffectsAfterDOM, traced back through the frame: the nodes of a queued effect are in the
\* document, or created by a mutation still queued, which the next batch takes with the
\* effect's own frame, or by the batch being applied.
EffectsCovered ==
  /\ ToSet(running) \subseteq document
  /\ phase \notin {"apply", "reply"} => ToSet(effects) \subseteq document \union ToSet(queue)
  /\ phase = "apply" => ToSet(effects) \subseteq document \union ToSet(batch)
  /\ phase = "reply" => ToSet(effects) \subseteq document

\* ReadsOnTheWay, container by container: each pending read is in one of the queue, the
\* batch and the answers, once.
ReadsApart ==
  /\ Once(queue) /\ Once(batch) /\ Once(replies)
  /\ ReadsIn(queue) \intersect ReadsIn(batch) = {}
  /\ ReadsIn(queue) \intersect ReadsIn(replies) = {}
  /\ ReadsIn(batch) \intersect ReadsIn(replies) = {}
  /\ reads = ReadsIn(queue) \union ReadsIn(batch) \union ReadsIn(replies)

\* What a frame carries: the inductive invariant of the batches.
BatchInv == BatchTypes /\ EffectsCovered /\ ReadsApart

\* What Append adds to the elements of a sequence.
LEMMA ToSetAppend ==
  ASSUME NEW S, NEW q \in Seq(S), NEW m \in S
  PROVE  Append(q, m) \in Seq(S) /\ ToSet(Append(q, m)) = ToSet(q) \union {m}
  <1>1. Append(q, m) \in Seq(S) /\ Len(q) \in Nat
    OBVIOUS
  <1>2. DOMAIN Append(q, m) = 1..(Len(q) + 1) /\ DOMAIN q = 1..Len(q)
    OBVIOUS
  <1>3. Append(q, m)[Len(q) + 1] = m /\ \A i \in 1..Len(q) : Append(q, m)[i] = q[i]
    OBVIOUS
  <1>4. \A i \in 1..(Len(q) + 1) : i \in 1..Len(q) \/ i = Len(q) + 1
    BY <1>1
  <1>5. 1..Len(q) \subseteq 1..(Len(q) + 1) /\ Len(q) + 1 \in 1..(Len(q) + 1)
    BY <1>1
  <1>6. QED
    BY <1>1, <1>2, <1>3, <1>4, <1>5 DEF ToSet

\* The elements of a concatenation are those of its parts.
LEMMA ToSetOfConcat ==
  ASSUME NEW S, NEW p \in Seq(S), NEW q \in Seq(S)
  PROVE  p \o q \in Seq(S) /\ ToSet(p \o q) = ToSet(p) \union ToSet(q)
  <1>1. p \o q \in Seq(S) /\ Len(p) \in Nat /\ Len(q) \in Nat
    OBVIOUS
  <1>2. DOMAIN (p \o q) = 1..(Len(p) + Len(q)) /\ DOMAIN p = 1..Len(p) /\ DOMAIN q = 1..Len(q)
    OBVIOUS
  <1>3. ASSUME NEW i \in 1..Len(p) PROVE i \in 1..(Len(p) + Len(q)) /\ (p \o q)[i] = p[i]
    BY <1>1
  <1>4. ASSUME NEW i \in 1..Len(q)
        PROVE  Len(p) + i \in 1..(Len(p) + Len(q)) /\ (p \o q)[Len(p) + i] = q[i]
    BY <1>1
  <1>5. ASSUME NEW i \in 1..(Len(p) + Len(q))
        PROVE  \/ i \in 1..Len(p) /\ (p \o q)[i] = p[i]
               \/ i - Len(p) \in 1..Len(q) /\ (p \o q)[i] = q[i - Len(p)]
    BY <1>1
  <1>6. \A x \in ToSet(p) : x \in ToSet(p \o q)
    BY <1>2, <1>3 DEF ToSet
  <1>7. \A x \in ToSet(q) : x \in ToSet(p \o q)
    BY <1>2, <1>4 DEF ToSet
  <1>8. \A x \in ToSet(p \o q) : x \in ToSet(p) \/ x \in ToSet(q)
    BY <1>2, <1>5 DEF ToSet
  <1>9. QED
    BY <1>1, <1>6, <1>7, <1>8

\* Two sequences that share no read, each with every read once, concatenate to one.
LEMMA OnceConcat ==
  ASSUME NEW S, NEW p \in Seq(S), NEW q \in Seq(S), Once(p), Once(q),
         ReadsIn(p) \intersect ReadsIn(q) = {}
  PROVE  Once(p \o q)
  <1>1. p \o q \in Seq(S) /\ Len(p) \in Nat /\ Len(q) \in Nat
    OBVIOUS
  <1>2. DOMAIN (p \o q) = 1..(Len(p) + Len(q)) /\ DOMAIN p = 1..Len(p) /\ DOMAIN q = 1..Len(q)
    OBVIOUS
  <1>3. ASSUME NEW i \in 1..(Len(p) + Len(q))
        PROVE  \/ i \in 1..Len(p) /\ (p \o q)[i] = p[i]
               \/ i - Len(p) \in 1..Len(q) /\ (p \o q)[i] = q[i - Len(p)]
    BY <1>1
  <1>4. SUFFICES ASSUME NEW i \in 1..(Len(p) + Len(q)), NEW j \in 1..(Len(p) + Len(q)),
                        (p \o q)[i] \in Read, (p \o q)[i] = (p \o q)[j]
                 PROVE  i = j
    BY <1>2 DEF Once
  <1>5. \A k \in 1..Len(p), l \in 1..Len(q) : p[k] \in Read => p[k] # q[l]
    BY <1>2 DEF ReadsIn, ToSet
  <1>6. CASE i \in 1..Len(p) /\ (p \o q)[i] = p[i]
    <2>1. j \in 1..Len(p) /\ (p \o q)[j] = p[j]
      BY <1>3, <1>4, <1>5, <1>6
    <2>2. QED
      BY <1>2, <1>4, <1>6, <2>1 DEF Once
  <1>7. CASE i - Len(p) \in 1..Len(q) /\ (p \o q)[i] = q[i - Len(p)]
    <2>1. j - Len(p) \in 1..Len(q) /\ (p \o q)[j] = q[j - Len(p)]
      BY <1>3, <1>4, <1>5, <1>7
    <2>2. i - Len(p) = j - Len(p)
      BY <1>2, <1>4, <1>7, <2>1 DEF Once
    <2>3. QED
      BY <1>1, <2>2
  <1>8. QED
    BY <1>3, <1>6, <1>7

\* Appending a mutation that is no read of the sequence leaves each read once.
LEMMA OnceAppend ==
  ASSUME NEW S, NEW q \in Seq(S), NEW m \in S, Once(q), m \notin ReadsIn(q)
  PROVE  Once(Append(q, m))
  <1>1. <<m>> \in Seq(S) /\ Append(q, m) = q \o <<m>>
    OBVIOUS
  <1>2. Once(<<m>>) /\ ReadsIn(<<m>>) \subseteq {m}
    BY DEF Once, ReadsIn, ToSet
  <1>3. QED
    BY <1>1, <1>2, OnceConcat

\* A selection that keeps the reads keeps each of them once.
LEMMA SelectedReads ==
  ASSUME NEW S, NEW q \in Seq(S), NEW I \in SUBSET DOMAIN q,
         \A i \in DOMAIN q : q[i] \in Read => i \in I
  PROVE  ReadsIn(SelectAt(q, I)) = ReadsIn(q) /\ (Once(q) => Once(SelectAt(q, I)))
  <1>1. \A i \in I : \E k \in DOMAIN SelectAt(q, I) : SelectAt(q, I)[k] = q[i]
    BY SelectAtKeeps
  <1>2. PICK f \in [DOMAIN SelectAt(q, I) -> I] :
               /\ \A k \in DOMAIN SelectAt(q, I) : SelectAt(q, I)[k] = q[f[k]]
               /\ \A k, l \in DOMAIN SelectAt(q, I) : f[k] = f[l] => k = l
    BY SelectAtKeeps
  <1>3. ReadsIn(SelectAt(q, I)) = ReadsIn(q)
    BY <1>1, <1>2 DEF ReadsIn, ToSet
  <1>4. Once(q) => Once(SelectAt(q, I))
    BY <1>2 DEF Once
  <1>5. QED
    BY <1>3, <1>4

\* Answering the first read leaves the others, once each.
LEMMA OnceTail ==
  ASSUME NEW q \in Seq(Read), q # <<>>, Once(q)
  PROVE  Tail(q) \in Seq(Read) /\ Once(Tail(q)) /\ ReadsIn(Tail(q)) = ReadsIn(q) \ {Head(q)}
         /\ Head(q) \in ReadsIn(q)
  <1>1. Tail(q) \in Seq(Read) /\ Len(q) \in Nat \ {0} /\ DOMAIN q = 1..Len(q)
    OBVIOUS
  <1>2. DOMAIN Tail(q) = 1..(Len(q) - 1) /\ \A i \in 1..(Len(q) - 1) : Tail(q)[i] = q[i + 1]
    OBVIOUS
  <1>3. Head(q) = q[1] /\ 1 \in 1..Len(q) /\ q[1] \in Read
    BY <1>1
  <1>4. \A i \in 1..(Len(q) - 1) : i + 1 \in 1..Len(q) /\ i + 1 # 1 /\ q[i + 1] \in Read
    BY <1>1
  <1>5. \A i \in 1..Len(q) : i # 1 => i - 1 \in 1..(Len(q) - 1) /\ Tail(q)[i - 1] = q[i]
    BY <1>1, <1>2
  <1>6. Once(Tail(q))
    <2>1. SUFFICES ASSUME NEW i \in 1..(Len(q) - 1), NEW j \in 1..(Len(q) - 1),
                          Tail(q)[i] = Tail(q)[j]
                   PROVE  i = j
      BY <1>2 DEF Once
    <2>2. i + 1 = j + 1
      BY <1>1, <1>2, <1>4, <2>1 DEF Once
    <2>3. QED
      BY <1>1, <2>2
  <1>7. \A i \in 1..(Len(q) - 1) : q[i + 1] # q[1]
    BY <1>1, <1>3, <1>4 DEF Once
  <1>8. ToSet(Tail(q)) = ToSet(q) \ {q[1]}
    <2>1. \A x \in ToSet(Tail(q)) : x \in ToSet(q) /\ x # q[1]
      BY <1>1, <1>2, <1>4, <1>7 DEF ToSet
    <2>2. ASSUME NEW x \in ToSet(q), x # q[1] PROVE x \in ToSet(Tail(q))
      <3>1. PICK i \in 1..Len(q) : q[i] = x
        BY <1>1 DEF ToSet
      <3>2. i - 1 \in 1..(Len(q) - 1) /\ Tail(q)[i - 1] = x
        BY <1>5, <2>2, <3>1
      <3>3. QED
        BY <1>2, <3>2 DEF ToSet
    <2>3. QED
      BY <2>1, <2>2
  <1>9. QED
    BY <1>1, <1>3, <1>6, <1>8 DEF ReadsIn, ToSet
-----------------------------------------------------------------------------
\* A sequence of at most one element.
LEMMA AtMostOne ==
  ASSUME NEW S, NEW q \in {<<>>} \union {<<e>> : e \in S}
  PROVE  /\ q \in Seq(S) /\ ToSet(q) \subseteq S
         /\ Len(q) \in {0, 1} /\ DOMAIN q = 1..Len(q)
  <1>1. CASE q = <<>>
    BY <1>1 DEF ToSet
  <1>2. ASSUME NEW e \in S, q = <<e>> PROVE q \in Seq(S) /\ ToSet(q) \subseteq S
                                        /\ Len(q) \in {0, 1} /\ DOMAIN q = 1..Len(q)
    BY <1>2 DEF ToSet
  <1>3. QED
    BY <1>1, <1>2

\* A sequence over a set is one over any larger set.
LEMMA SeqWidens ==
  ASSUME NEW S, NEW T, S \subseteq T, NEW q \in Seq(S) PROVE q \in Seq(T)
  OBVIOUS

\* Nothing is on its way at first but the effects of the first render, with their nodes.
LEMMA BatchInvInit ==
  ASSUME Init PROVE BatchInv
  <1>1. PICK fx \in {<<>>} \union {<<e>> : e \in Effect} : effects = fx /\ queue = fx
    BY DEF Init
  <1>2. fx \in Seq(Effect) /\ fx \in Seq(Mutation)
    BY AtMostOne, SeqWidens DEF Mutation
  <1>3. BatchTypes
    BY <1>1, <1>2 DEF Init, BatchTypes
  <1>4. EffectsCovered
    BY <1>1 DEF Init, EffectsCovered, ToSet
  <1>5. Once(fx) /\ ReadsIn(fx) = {}
    BY <1>1, MutationAssumption DEF Once, ReadsIn, ToSet
  <1>6. Once(<<>>) /\ ReadsIn(<<>>) = {}
    BY DEF Once, ReadsIn, ToSet
  <1>7. ReadsApart
    BY <1>1, <1>5, <1>6 DEF Init, ReadsApart
  <1>8. QED
    BY <1>3, <1>4, <1>7 DEF BatchInv

\* A step that touches no mutation and no effect: it stays in its phase, or goes on to
\* another where nothing is being applied.
LEMMA NothingTaken ==
  ASSUME BatchInv, UNCHANGED <<queue, batch, reads, replies, effects, running, document>>,
         \/ phase' = phase
         \/ /\ phase \in {"idle", "posted", "render", "effects"}
            /\ phase' \in {"idle", "posted", "render", "effects"}
            /\ running = <<>>
  PROVE  BatchInv'
  <1>1. BatchTypes'
    BY DEF BatchInv, BatchTypes
  <1>2. EffectsCovered'
    BY DEF BatchInv, BatchTypes, EffectsCovered
  <1>3. ReadsApart'
    BY DEF BatchInv, ReadsApart
  <1>4. QED
    BY <1>1, <1>2, <1>3 DEF BatchInv

\* A binding enqueues a write, which is neither a read nor the nodes of an effect.
LEMMA EnqueueWriteKeepsBatchInv ==
  ASSUME BatchInv, NEW w \in Write, EnqueueWrite(w) PROVE BatchInv'
  <1>1. /\ queue' = Append(queue, w)
        /\ UNCHANGED <<phase, batch, reads, replies, effects, running, document>>
    BY DEF EnqueueWrite, readVars, effectVars
  <1>2. queue \in Seq(Mutation) /\ w \in Mutation /\ w \notin Read
    BY MutationAssumption DEF BatchInv, BatchTypes, Mutation
  <1>3. queue' \in Seq(Mutation) /\ ToSet(queue') = ToSet(queue) \union {w}
    BY <1>1, <1>2, ToSetAppend
  <1>4. ReadsIn(queue') = ReadsIn(queue) /\ w \notin ReadsIn(queue)
    BY <1>2, <1>3 DEF ReadsIn
  <1>5. Once(queue')
    BY <1>1, <1>2, <1>4, OnceAppend DEF BatchInv, ReadsApart
  <1>6. BatchTypes'
    BY <1>1, <1>3 DEF BatchInv, BatchTypes
  <1>7. EffectsCovered'
    BY <1>1, <1>3 DEF BatchInv, EffectsCovered
  <1>8. ReadsApart'
    BY <1>1, <1>4, <1>5 DEF BatchInv, ReadsApart
  <1>9. QED
    BY <1>6, <1>7, <1>8 DEF BatchInv

\* A read is parked under an id that is not pending, hence nowhere on its way.
LEMMA EnqueueReadKeepsBatchInv ==
  ASSUME BatchInv, NEW r \in Read, EnqueueRead(r) PROVE BatchInv'
  <1>1. /\ queue' = Append(queue, r) /\ r \notin reads /\ reads' = reads \union {r}
        /\ UNCHANGED <<phase, batch, replies, effects, running, document>>
    BY DEF EnqueueRead, effectVars
  <1>2. queue \in Seq(Mutation) /\ r \in Mutation
    BY DEF BatchInv, BatchTypes, Mutation
  <1>3. queue' \in Seq(Mutation) /\ ToSet(queue') = ToSet(queue) \union {r}
    BY <1>1, <1>2, ToSetAppend
  <1>4. ReadsIn(queue') = ReadsIn(queue) \union {r}
    BY <1>3 DEF ReadsIn
  <1>5. r \notin ReadsIn(queue) /\ r \notin ReadsIn(batch) /\ r \notin ReadsIn(replies)
    BY <1>1 DEF BatchInv, ReadsApart
  <1>6. Once(queue')
    BY <1>1, <1>2, <1>5, OnceAppend DEF BatchInv, ReadsApart
  <1>7. BatchTypes'
    BY <1>1, <1>3 DEF BatchInv, BatchTypes
  <1>8. EffectsCovered'
    BY <1>1, <1>3 DEF BatchInv, EffectsCovered
  <1>9. ReadsApart'
    BY <1>1, <1>4, <1>5, <1>6 DEF BatchInv, ReadsApart
  <1>10. QED
    BY <1>7, <1>8, <1>9 DEF BatchInv

\* A render enqueues its effects with its mutations.
LEMMA RenderKeepsBatchInv ==
  ASSUME BatchInv, Render PROVE BatchInv'
  <1>1. PICK fx \in {<<>>} \union {<<e>> : e \in Effect},
             writes \in {<<>>} \union {<<w>> : w \in Write} :
          /\ queue' = queue \o fx \o writes
          /\ effects' = effects \o fx
          /\ document' = document \ ToSet(fx)
    BY DEF Render, Unused
  <1>2. phase = "render" /\ UNCHANGED <<phase, batch, reads, replies, running>>
    BY DEF Render, readVars
  <1>3. /\ fx \in Seq(Effect) /\ fx \in Seq(Mutation) /\ writes \in Seq(Mutation)
        /\ ToSet(fx) \subseteq Effect /\ ToSet(writes) \subseteq Write
    <2>1. fx \in Seq(Effect) /\ ToSet(fx) \subseteq Effect
      BY AtMostOne
    <2>2. writes \in Seq(Write) /\ ToSet(writes) \subseteq Write
      BY AtMostOne
    <2>3. QED
      BY <2>1, <2>2, SeqWidens DEF Mutation
  <1>4. queue \in Seq(Mutation) /\ effects \in Seq(Effect)
    BY DEF BatchInv, BatchTypes
  <1>5. queue \o fx \in Seq(Mutation) /\ ToSet(queue \o fx) = ToSet(queue) \union ToSet(fx)
    BY <1>3, <1>4, ToSetOfConcat
  <1>6. queue' \in Seq(Mutation) /\ ToSet(queue') = ToSet(queue) \union ToSet(fx) \union ToSet(writes)
    <2>1. PICK p \in Seq(Mutation) : p = queue \o fx
      BY <1>5
    <2>2. p \o writes \in Seq(Mutation) /\ ToSet(p \o writes) = ToSet(p) \union ToSet(writes)
      BY <1>3, ToSetOfConcat
    <2>3. QED
      BY <1>1, <1>5, <2>1, <2>2
  <1>7. effects' \in Seq(Effect) /\ ToSet(effects') = ToSet(effects) \union ToSet(fx)
    BY <1>1, <1>3, <1>4, ToSetOfConcat
  <1>8. ReadsIn(fx) = {} /\ ReadsIn(writes) = {} /\ ReadsIn(queue \o fx) = ReadsIn(queue)
        /\ ReadsIn(queue') = ReadsIn(queue)
    BY <1>3, <1>5, <1>6, MutationAssumption DEF ReadsIn
  <1>9. Once(fx) /\ Once(writes)
    BY <1>3, MutationAssumption DEF Once, ToSet
  <1>10. Once(queue \o fx)
    BY <1>3, <1>4, <1>8, <1>9, OnceConcat DEF BatchInv, ReadsApart
  <1>11. Once(queue')
    BY <1>1, <1>3, <1>5, <1>8, <1>9, <1>10, OnceConcat
  <1>12. BatchTypes'
    BY <1>2, <1>6, <1>7 DEF BatchInv, BatchTypes
  <1>13. running = <<>> /\ ToSet(running) = {}
    BY <1>2 DEF BatchInv, BatchTypes, ToSet
  <1>14. ToSet(effects) \subseteq document \union ToSet(queue)
    BY <1>2 DEF BatchInv, EffectsCovered
  <1>15. EffectsCovered'
    BY <1>1, <1>2, <1>6, <1>7, <1>13, <1>14 DEF EffectsCovered
  <1>16. ReadsApart'
    BY <1>2, <1>8, <1>11 DEF BatchInv, ReadsApart
  <1>17. QED
    BY <1>12, <1>15, <1>16 DEF BatchInv

\* What coalesce leaves out are writes.
LEMMA CoalescedKeeps ==
  ASSUME NEW q \in Seq(Mutation)
  PROVE  /\ Coalesced(q) \in Seq(Mutation)
         /\ ToSet(q) \intersect Effect \subseteq ToSet(Coalesced(q))
         /\ ReadsIn(Coalesced(q)) = ReadsIn(q)
         /\ Once(q) => Once(Coalesced(q))
  <1> DEFINE I == {i \in DOMAIN q : \A j \in DOMAIN q : j > i /\ q[j] \in Write => q[i] # q[j]}
  <1>1. Coalesced(q) = SelectAt(q, I)
    BY DEF Coalesced
  <1>2. I \in SUBSET DOMAIN q
    OBVIOUS
  <1>3. \A i \in DOMAIN q : q[i] \in Read \union Effect => i \in I
    BY MutationAssumption
  <1> HIDE DEF I
  <1>4. SelectAt(q, I) \in Seq(Mutation)
    BY <1>2, SelectAtKeeps
  <1>5. \A i \in I : \E k \in DOMAIN SelectAt(q, I) : SelectAt(q, I)[k] = q[i]
    BY <1>2, SelectAtKeeps
  <1>6. ToSet(q) \intersect Effect \subseteq ToSet(SelectAt(q, I))
    BY <1>3, <1>5 DEF ToSet
  <1>7. ReadsIn(SelectAt(q, I)) = ReadsIn(q) /\ (Once(q) => Once(SelectAt(q, I)))
    BY <1>2, <1>3, SelectedReads
  <1>8. QED
    BY <1>1, <1>4, <1>6, <1>7

\* The flush hands the coalesced queue over: every read and every node creation with it.
LEMMA FlushDoneKeepsBatchInv ==
  ASSUME BatchInv, FlushDone PROVE BatchInv'
  <1>1. /\ phase = "render" /\ phase' = "apply" /\ batch' = Coalesced(queue) /\ queue' = <<>>
        /\ UNCHANGED <<reads, replies, effects, running, document>>
    BY DEF FlushDone, readVars, effectVars
  <1>2. queue \in Seq(Mutation) /\ batch = <<>> /\ replies = <<>> /\ running = <<>>
        /\ effects \in Seq(Effect)
    BY <1>1 DEF BatchInv, BatchTypes
  <1>3. /\ batch' \in Seq(Mutation)
        /\ ToSet(queue) \intersect Effect \subseteq ToSet(batch')
        /\ ReadsIn(batch') = ReadsIn(queue)
        /\ Once(batch')
    BY <1>1, <1>2, CoalescedKeeps DEF BatchInv, ReadsApart
  <1>4. Once(<<>>) /\ ReadsIn(<<>>) = {} /\ ToSet(<<>>) = {}
    BY DEF Once, ReadsIn, ToSet
  <1>5. BatchTypes'
    BY <1>1, <1>2, <1>3 DEF BatchTypes
  <1>6. ToSet(effects) \subseteq document \union ToSet(queue) /\ ToSet(effects) \subseteq Effect
    BY <1>1, <1>2 DEF BatchInv, EffectsCovered, ToSet
  <1>7. EffectsCovered'
    BY <1>1, <1>2, <1>3, <1>4, <1>6 DEF EffectsCovered
  <1>8. ReadsApart'
    BY <1>1, <1>2, <1>3, <1>4 DEF BatchInv, ReadsApart
  <1>9. QED
    BY <1>5, <1>7, <1>8 DEF BatchInv

\* Applying the batch creates the nodes in it and answers its reads.
LEMMA ApplyKeepsBatchInv ==
  ASSUME BatchInv, Apply PROVE BatchInv'
  <1> DEFINE I == {i \in DOMAIN batch : batch[i] \in Read}
  <1>1. /\ phase = "apply" /\ phase' = "reply" /\ batch' = <<>> /\ replies' = SelectAt(batch, I)
        /\ document' = document \union (ToSet(batch) \intersect Effect)
        /\ UNCHANGED <<queue, reads, effects, running>>
    BY DEF Apply
  <1>2. /\ queue \in Seq(Mutation) /\ batch \in Seq(Mutation) /\ replies = <<>> /\ running = <<>>
        /\ effects \in Seq(Effect)
    BY <1>1 DEF BatchInv, BatchTypes
  <1>3. I \in SUBSET DOMAIN batch /\ \A i \in DOMAIN batch : batch[i] \in Read <=> i \in I
    OBVIOUS
  <1> HIDE DEF I
  <1>4. ReadsIn(replies') = ReadsIn(batch) /\ Once(replies')
    BY <1>1, <1>2, <1>3, SelectedReads DEF BatchInv, ReadsApart
  <1>5. replies' \in Seq(Read)
    <2>1. SelectAt(batch, I) \in Seq(Mutation)
      BY <1>2, <1>3, SelectAtKeeps
    <2>2. PICK f \in [DOMAIN SelectAt(batch, I) -> I] :
            /\ \A k \in DOMAIN SelectAt(batch, I) : SelectAt(batch, I)[k] = batch[f[k]]
            /\ \A k, l \in DOMAIN SelectAt(batch, I) : f[k] = f[l] => k = l
      BY <1>2, <1>3, SelectAtKeeps
    <2>3. \A k \in DOMAIN SelectAt(batch, I) : SelectAt(batch, I)[k] \in Read
      BY <1>3, <2>2
    <2>4. QED
      BY <1>1, <2>1, <2>3
  <1>6. Once(<<>>) /\ ReadsIn(<<>>) = {} /\ ToSet(<<>>) = {}
    BY DEF Once, ReadsIn, ToSet
  <1>7. BatchTypes'
    BY <1>1, <1>2, <1>5 DEF BatchTypes
  <1>8. ToSet(effects) \subseteq document \union ToSet(batch) /\ ToSet(effects) \subseteq Effect
    BY <1>1, <1>2 DEF BatchInv, EffectsCovered, ToSet
  <1>9. EffectsCovered'
    BY <1>1, <1>2, <1>6, <1>8 DEF EffectsCovered
  <1>10. ReadsApart'
    BY <1>1, <1>2, <1>4, <1>6 DEF BatchInv, ReadsApart
  <1>11. QED
    BY <1>7, <1>9, <1>10 DEF BatchInv

\* Resolve takes a read off the answers and off the pending ones at once.
LEMMA ResolveKeepsBatchInv ==
  ASSUME BatchInv, Resolve PROVE BatchInv'
  <1>1. /\ replies # <<>> /\ replies' = Tail(replies) /\ reads' = reads \ {Head(replies)}
        /\ phase = "reply" /\ UNCHANGED <<phase, queue, batch, effects, running, document>>
    BY DEF Resolve, effectVars
  <1>2. /\ replies' \in Seq(Read) /\ Once(replies')
        /\ ReadsIn(replies') = ReadsIn(replies) \ {Head(replies)}
        /\ Head(replies) \in ReadsIn(replies)
    BY <1>1, OnceTail DEF BatchInv, BatchTypes, ReadsApart
  <1>3. BatchTypes'
    BY <1>1, <1>2 DEF BatchInv, BatchTypes
  <1>4. EffectsCovered'
    BY <1>1 DEF BatchInv, EffectsCovered
  <1>5. ReadsApart'
    BY <1>1, <1>2 DEF BatchInv, ReadsApart
  <1>6. QED
    BY <1>3, <1>4, <1>5 DEF BatchInv

\* RunEffects takes the effects once the batch that created their nodes is applied.
LEMMA TakeEffectsKeepsBatchInv ==
  ASSUME BatchInv, TakeEffects PROVE BatchInv'
  <1>1. /\ phase = "reply" /\ replies = <<>> /\ running' = effects /\ effects' = <<>>
        /\ phase' = "effects" /\ UNCHANGED <<queue, batch, reads, replies, document>>
    BY DEF TakeEffects, EffectsDue, readVars
  <1>2. ToSet(<<>>) = {} /\ ToSet(effects) \subseteq document
    BY <1>1 DEF BatchInv, EffectsCovered, ToSet
  <1>3. BatchTypes'
    BY <1>1 DEF BatchInv, BatchTypes
  <1>4. EffectsCovered'
    BY <1>1, <1>2 DEF EffectsCovered
  <1>5. ReadsApart'
    BY <1>1 DEF BatchInv, ReadsApart
  <1>6. QED
    BY <1>3, <1>4, <1>5 DEF BatchInv

\* Running an effect leaves the others waiting with their nodes in the document.
LEMMA RunEffectKeepsBatchInv ==
  ASSUME BatchInv, RunEffect PROVE BatchInv'
  <1>1. /\ phase = "effects" /\ running # <<>> /\ running' = Tail(running)
        /\ UNCHANGED <<phase, queue, batch, reads, replies, effects, document>>
    BY DEF RunEffect, readVars
  <1>2. running \in Seq(Effect)
    BY DEF BatchInv, BatchTypes
  <1>3. Tail(running) \in Seq(Effect) /\ ToSet(Tail(running)) \subseteq ToSet(running)
    BY <1>1, <1>2 DEF ToSet
  <1>4. BatchTypes'
    BY <1>1, <1>3 DEF BatchInv, BatchTypes
  <1>5. EffectsCovered'
    BY <1>1, <1>3 DEF BatchInv, EffectsCovered
  <1>6. ReadsApart'
    BY <1>1 DEF BatchInv, ReadsApart
  <1>7. QED
    BY <1>4, <1>5, <1>6 DEF BatchInv

\* Every step keeps the invariant of the batches.
LEMMA BatchInvNext ==
  ASSUME BatchInv, [Next]_vars PROVE BatchInv'
  <1>1. CASE \E w \in Write : EnqueueWrite(w)
    BY <1>1, EnqueueWriteKeepsBatchInv
  <1>2. CASE \E r \in Read : EnqueueRead(r)
    BY <1>2, EnqueueReadKeepsBatchInv
  <1>3. CASE Render
    BY <1>3, RenderKeepsBatchInv
  <1>4. CASE FlushDone
    BY <1>4, FlushDoneKeepsBatchInv
  <1>5. CASE Apply
    BY <1>5, ApplyKeepsBatchInv
  <1>6. CASE Resolve
    BY <1>6, ResolveKeepsBatchInv
  <1>7. CASE TakeEffects
    BY <1>7, TakeEffectsKeepsBatchInv
  <1>8. CASE RunEffect
    BY <1>8, RunEffectKeepsBatchInv
  <1>9. CASE UNCHANGED vars
    BY <1>9, NothingTaken DEF vars, readVars, effectVars
  <1>10. CASE \/ \E t \in Task : PostAppend(t) \/ PostSignal(t)
              \/ \E s \in Scope : MarkDirty(s)
              \/ Hide \/ Show \/ RunPosted \/ StartPass
    <2>1. UNCHANGED <<phase, queue, batch, reads, replies, effects, running, document>>
      BY <1>10 DEF PostAppend, PostSignal, MarkDirty, Hide, Show, RunPosted, StartPass,
                   readVars, effectVars
    <2>2. QED
      BY <2>1, NothingTaken
  <1>11. CASE FireRaf \/ FireTimer
    <2>1. /\ UNCHANGED <<queue, batch, reads, replies, effects, running, document>>
          /\ phase = "idle" /\ phase' \in {"idle", "posted"}
      BY <1>11 DEF FireRaf, FireTimer, Frame, readVars, effectVars
    <2>2. running = <<>>
      BY <2>1 DEF BatchInv, BatchTypes
    <2>3. QED
      BY <2>1, <2>2, NothingTaken
  <1>12. CASE DrainDone
    <2>1. /\ UNCHANGED <<queue, batch, reads, replies, effects, running, document>>
          /\ phase = "posted" /\ phase' = "render"
      BY <1>12 DEF DrainDone, readVars, effectVars
    <2>2. running = <<>>
      BY <2>1 DEF BatchInv, BatchTypes
    <2>3. QED
      BY <2>1, <2>2, NothingTaken
  <1>13. CASE FrameDone
    <2>1. /\ UNCHANGED <<queue, batch, reads, replies, effects, running, document>>
          /\ phase = "effects" /\ phase' = "idle" /\ running = <<>>
      BY <1>13 DEF FrameDone, readVars, effectVars
    <2>2. QED
      BY <2>1, NothingTaken
  <1>14. QED
    BY <1>1, <1>2, <1>3, <1>4, <1>5, <1>6, <1>7, <1>8, <1>9, <1>10, <1>11, <1>12, <1>13
    DEF Next, InFrame

\* Mutations, reads and effects travel through the frames as BatchInv says, in any
\* interleaving of user code, goroutines and frames.
THEOREM BatchInvariant == Spec => []BatchInv
  <1>1. Init => BatchInv
    BY BatchInvInit
  <1>2. BatchInv /\ [Next]_vars => BatchInv'
    BY BatchInvNext
  <1>3. QED
    BY <1>1, <1>2, PTL DEF Spec

\* An effect runs with the nodes of its component in the document, whichever renders,
\* handlers and frames come between its being queued and its run.
THEOREM EffectsSeeTheirDOM == Spec => []EffectsAfterDOM
  <1>1. BatchInv => EffectsAfterDOM
    BY DEF BatchInv, EffectsCovered, EffectsAfterDOM
  <1>2. QED
    BY <1>1, BatchInvariant, PTL

\* A parked read is on its way, once, until its callback is called: coalescing drops no
\* read, and no read is answered twice.
THEOREM NoReadIsLost == Spec => []ReadsOnTheWay
  <1>1. ASSUME BatchInv PROVE ReadsOnTheWay
    <2>1. /\ queue \in Seq(Mutation) /\ batch \in Seq(Mutation) /\ replies \in Seq(Read)
          /\ replies \in Seq(Mutation)
      BY <1>1 DEF BatchInv, BatchTypes, Mutation
    <2>2. queue \o batch \in Seq(Mutation) /\ ToSet(queue \o batch) = ToSet(queue) \union ToSet(batch)
      BY <2>1, ToSetOfConcat
    <2>3. ToSet(queue \o batch \o replies) = ToSet(queue) \union ToSet(batch) \union ToSet(replies)
      <3>1. PICK p \in Seq(Mutation) : p = queue \o batch
        BY <2>2
      <3>2. ToSet(p \o replies) = ToSet(p) \union ToSet(replies)
        BY <2>1, ToSetOfConcat
      <3>3. QED
        BY <2>2, <3>1, <3>2
    <2>4. ReadsIn(queue \o batch) = ReadsIn(queue) \union ReadsIn(batch)
      BY <2>2 DEF ReadsIn
    <2>5. Once(queue \o batch)
      BY <1>1, <2>1, OnceConcat DEF BatchInv, ReadsApart
    <2>6. ReadsIn(queue \o batch) \intersect ReadsIn(replies) = {} /\ Once(replies)
      BY <1>1, <2>4 DEF BatchInv, ReadsApart
    <2>7. Once(queue \o batch \o replies)
      BY <2>1, <2>2, <2>5, <2>6, OnceConcat
    <2>8. ToSet(queue \o batch \o replies) \intersect Read = reads
      BY <1>1, <2>3 DEF BatchInv, ReadsApart, ReadsIn
    <2>9. QED
      BY <2>7, <2>8 DEF ReadsOnTheWay, Once
  <1>2. QED
    BY <1>1, BatchInvariant, PTL

-----------------------------------------------------------------------------
\* Callbacks taken from posted are run before Flush does anything else.
InboxInv ==
  /\ posted \in Seq(Task) /\ draining \in Seq(Task)
  /\ phase # "posted" => draining = <<>>

LEMMA TailConcat ==
  ASSUME NEW S, NEW p \in Seq(S), NEW q \in Seq(S), p # <<>>
  PROVE  Tail(p) \o q = Tail(p \o q) /\ p \o q # <<>> /\ Tail(p) \in Seq(S)
  OBVIOUS

LEMMA AppendConcat ==
  ASSUME NEW S, NEW p \in Seq(S), NEW q \in Seq(S), NEW t \in S
  PROVE  p \o Append(q, t) = Append(p \o q, t)
  OBVIOUS

LEMMA InboxStep ==
  ASSUME InboxInv, [Next]_vars PROVE InboxInv' /\ [Inbox!Next]_(draining \o posted)
  <1>1. CASE \E t \in Task : PostAppend(t)
    <2>1. PICK t \in Task : PostAppend(t)
      BY <1>1
    <2>2. posted' = Append(posted, t) /\ UNCHANGED <<phase, draining>>
      BY <2>1 DEF PostAppend
    <2>3. InboxInv'
      BY <2>2 DEF InboxInv
    <2>4. t \notin ToSet(draining \o posted)
      BY <2>1, ToSetOfConcat DEF PostAppend, InboxInv
    <2>5. draining' \o posted' = Append(draining \o posted, t)
      BY <2>2, AppendConcat DEF InboxInv
    <2>6. Inbox!Post(t)
      BY <2>4, <2>5 DEF Inbox!Post, Inbox!ToSet, ToSet
    <2>7. QED
      BY <2>3, <2>6 DEF Inbox!Next
  <1>2. CASE FireRaf \/ FireTimer
    <2>1. Frame
      BY <1>2 DEF FireRaf, FireTimer
    <2>2. CASE UNCHANGED <<phase, posted, draining>>
      BY <2>2 DEF InboxInv
    <2>3. CASE phase' = "posted" /\ draining' = posted /\ posted' = <<>>
      <3>1. draining = <<>>
        BY <2>1 DEF Frame, InboxInv
      <3>2. draining' \o posted' = draining \o posted
        BY <2>3, <3>1 DEF InboxInv
      <3>3. InboxInv'
        BY <2>3 DEF InboxInv
      <3>4. QED
        BY <3>2, <3>3
    <2>4. QED
      BY <2>1, <2>2, <2>3 DEF Frame
  <1>3. CASE RunPosted
    <2>1. /\ draining # <<>> /\ draining' = Tail(draining)
          /\ phase = "posted" /\ UNCHANGED <<phase, posted>>
      BY <1>3 DEF RunPosted
    <2>2. InboxInv'
      BY <2>1, TailConcat DEF InboxInv
    <2>3. draining \o posted # <<>> /\ draining' \o posted' = Tail(draining \o posted)
      BY <2>1, TailConcat DEF InboxInv
    <2>4. QED
      BY <2>2, <2>3 DEF Inbox!Next, Inbox!Run
  <1>4. CASE DrainDone
    BY <1>4 DEF DrainDone, InboxInv, inboxVars
  <1>5. CASE UNCHANGED <<posted, draining>> /\ phase # "posted" /\ phase' # "posted"
    BY <1>5 DEF InboxInv
  <1>6. CASE UNCHANGED <<phase, posted, draining>>
    BY <1>6 DEF InboxInv
  <1>7. QED
    <2>1. CASE InFrame
      BY <2>1, <1>3, <1>4, <1>5, <1>6 DEF InFrame, inboxVars, StartPass, Render, FlushDone, Apply,
         Resolve, TakeEffects, EffectsDue, RunEffect, FrameDone
    <2>2. CASE UNCHANGED vars
      BY <2>2, <1>6 DEF vars, inboxVars
    <2>3. CASE ~InFrame /\ Next
      BY <2>3, <1>1, <1>2, <1>6 DEF Next, inboxVars, PostSignal, MarkDirty, EnqueueWrite,
         EnqueueRead, Hide, Show
    <2>4. QED
      BY <2>1, <2>2, <2>3

\* The loop implements the inbox: each posted callback runs at most once, and callbacks run
\* in the order they were posted, whatever frames and posts interleave.
THEOREM ImplementsInbox == Spec => Inbox!Init /\ [][Inbox!Next]_(draining \o posted)
  <1>1. Init => InboxInv /\ Inbox!Init
    <2>1. ASSUME Init PROVE posted = <<>> /\ draining = <<>>
      BY <2>1 DEF Init
    <2>2. QED
      BY <2>1 DEF InboxInv, Inbox!Init
  <1>2. InboxInv /\ [Next]_vars => InboxInv' /\ [Inbox!Next]_(draining \o posted)
    BY InboxStep
  <1>3. QED
    BY <1>1, <1>2, PTL DEF Spec
=============================================================================
