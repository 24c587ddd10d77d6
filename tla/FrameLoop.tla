------------------------------ MODULE FrameLoop ------------------------------
(***************************************************************************)
(* The render loop: the scheduler (core/scheduler.go) and the frames the   *)
(* bridge requests from the browser for it (bridge/wasm.go).               *)
(*                                                                         *)
(* The loop is the JavaScript event loop: it is either idle or inside one  *)
(* frame, whose phases are                                                 *)
(*                                                                         *)
(*   posted   Flush runs the callbacks goroutines posted                   *)
(*   render   Flush re-renders dirty scopes, pass after pass               *)
(*   apply    applyMutations changes the document                          *)
(*   reply    Resolve hands the answers of DOM reads to their callbacks    *)
(*   effects  RunEffects runs effects queued by the renders                *)
(*                                                                         *)
(* User code runs in every phase (while idle: event handlers; in apply:    *)
(* handlers of events the document fires while it is changed).  Goroutines *)
(* call Post at any time.  A mutation is a read, a write to some property, *)
(* or the creation of the nodes an effect waits for.                       *)
(***************************************************************************)
EXTENDS Naturals, SequencesExt

CONSTANTS
  Task,            \* callbacks goroutines post
  Read,            \* DOM reads
  Effect,          \* effects, each with the nodes its component rendered
  Write,           \* properties that bindings and renders write
  ScopeCount,      \* scopes are 1..ScopeCount, numbered by seq
  Parent,          \* the enclosing scope of each scope but the first
  RenderMarks,     \* scopes that the render of a scope may mark dirty
  MaxDirtyPasses,  \* maxDirtyPasses
  MaxQueue,        \* bound: user code writes no more than this into one batch
  MaxCallbacks     \* bound: the page is not hidden with more callbacks pending

Scope == 1..ScopeCount
Mutation == Read \union Effect \union Write

ASSUME FrameLoopAssumption ==
  /\ ScopeCount \in Nat
  /\ Parent \in [Scope \ {1} -> Scope]
  /\ \A s \in Scope \ {1} : Parent[s] < s
  /\ RenderMarks \in [Scope -> SUBSET Scope]
  /\ MaxDirtyPasses \in Nat /\ MaxQueue \in Nat /\ MaxCallbacks \in Nat

\* Mutations of different types are different.
ASSUME MutationAssumption ==
  Read \intersect Effect = {} /\ Read \intersect Write = {} /\ Effect \intersect Write = {}

VARIABLES
  phase,      \* where the loop is
  posted,     \* Scheduler.posted
  posting,    \* tasks between Post's Unlock and its call of OnWork
  draining,   \* callbacks drainPosted has taken and not run
  queue,      \* Scheduler.queue
  batch,      \* the mutations Flush returned, being applied
  reads,      \* keys of Scheduler.reads
  replies,    \* answered reads not yet given to Resolve
  effects,    \* Scheduler.effects
  running,    \* effects RunEffects has taken and not run
  document,   \* history: effects whose nodes are in the document
  mounted,    \* keys of the renderer's scopes
  dirty,      \* keys of Scheduler.dirty
  flushing,   \* entries of the current pass to render, the cancelled ones left out
  pass,       \* passes of the Flush under way
  gaveUp,     \* history: the last Flush left dirty scopes behind
  scheduled,  \* startScheduler's scheduled
  rafs,       \* pending requestAnimationFrame callbacks
  timers,     \* pending setTimeout callbacks
  hidden      \* document.hidden

frameVars == <<scheduled, rafs, timers>>
inboxVars == <<posted, posting, draining>>
readVars == <<reads, replies>>
effectVars == <<effects, running, document>>
scopeVars == <<mounted, dirty, flushing, pass, gaveUp>>
vars == <<phase, queue, batch, hidden, frameVars, inboxVars, readVars, effectVars, scopeVars>>

InFlush == phase \in {"posted", "render"}

\* OnWork: request one frame, on a timer when the page is hidden.
OnWork ==
  \/ /\ scheduled
     /\ UNCHANGED frameVars
  \/ /\ ~scheduled
     /\ scheduled' = TRUE
     /\ timers' = IF hidden THEN timers + 1 ELSE timers
     /\ rafs' = IF hidden THEN rafs ELSE rafs + 1

\* signalWork: the flush under way takes the work itself.
SignalWork ==
  \/ InFlush /\ UNCHANGED frameVars
  \/ ~InFlush /\ OnWork

\* Run has rendered the application, and startScheduler requested the first frame.
Init ==
  /\ phase = "idle"
  /\ posted = <<>> /\ posting = {} /\ draining = <<>>
  /\ effects \in {<<>>} \union {<<e>> : e \in Effect}
  /\ queue = effects
  /\ batch = <<>> /\ reads = {} /\ replies = <<>> /\ running = <<>> /\ document = {}
  /\ mounted = Scope
  /\ dirty = {} /\ flushing = {} /\ pass = 0 /\ gaveUp = FALSE
  /\ hidden \in BOOLEAN
  /\ scheduled = TRUE
  /\ rafs = IF hidden THEN 0 ELSE 1
  /\ timers = IF hidden THEN 1 ELSE 0
-----------------------------------------------------------------------------
(* Goroutines *)

\* A mutant: Post relies on the flush under way, as the loop's own code does.
SignalPostUnlessInFlush == SignalWork

SignalPost == OnWork

\* Post appends under the lock, then calls OnWork.
PostAppend(t) ==
  /\ t \notin ToSet(posted) \union posting \union ToSet(draining)
  /\ posted' = Append(posted, t)
  /\ posting' = posting \union {t}
  /\ UNCHANGED <<phase, queue, batch, hidden, frameVars, draining, readVars, effectVars, scopeVars>>

PostSignal(t) ==
  /\ t \in posting
  /\ posting' = posting \ {t}
  /\ SignalPost
  /\ UNCHANGED <<phase, queue, batch, hidden, posted, draining, readVars, effectVars, scopeVars>>
-----------------------------------------------------------------------------
(* User code on the loop, outside renders *)

InUserCode == phase # "render"

\* A signal a scope depends on changed.
MarkDirty(s) ==
  /\ InUserCode
  /\ s \in mounted
  /\ dirty' = dirty \union {s}
  /\ IF s \in dirty THEN UNCHANGED frameVars ELSE SignalWork
  /\ UNCHANGED <<phase, queue, batch, hidden, inboxVars, readVars, effectVars, mounted,
                 flushing, pass, gaveUp>>

\* A binding enqueues a mutation.
EnqueueWrite(w) ==
  /\ InUserCode
  /\ Len(queue) < MaxQueue
  /\ queue' = Append(queue, w)
  /\ SignalWork
  /\ UNCHANGED <<phase, batch, hidden, inboxVars, readVars, effectVars, scopeVars>>

\* Scheduler.Read; r stands for a request id that is not in use.
EnqueueRead(r) ==
  /\ InUserCode
  /\ r \notin reads
  /\ reads' = reads \union {r}
  /\ queue' = Append(queue, r)
  /\ SignalWork
  /\ UNCHANGED <<phase, batch, hidden, inboxVars, replies, effectVars, scopeVars>>
-----------------------------------------------------------------------------
(* A frame *)

\* The callback of a frame request: it does nothing if the frame already ran.
Frame ==
  /\ phase = "idle"
  /\ \/ /\ ~scheduled
        /\ UNCHANGED <<phase, scheduled, posted, draining>>
     \/ /\ scheduled
        /\ scheduled' = FALSE
        /\ phase' = "posted"
        /\ draining' = posted
        /\ posted' = <<>>
  /\ UNCHANGED <<queue, batch, hidden, posting, readVars, effectVars, scopeVars>>

FireRaf == rafs > 0 /\ ~hidden /\ rafs' = rafs - 1 /\ Frame /\ UNCHANGED timers
FireTimer == timers > 0 /\ timers' = timers - 1 /\ Frame /\ UNCHANGED rafs

\* A mutant: nothing listens to visibilitychange.
TimersUnmoved == timers

TimersOnceHidden == IF scheduled THEN timers + 1 ELSE timers

\* visibilitychange: a frame requested before the page was hidden moves to a timer.
Hide ==
  /\ phase = "idle"
  /\ ~hidden
  /\ rafs + timers < MaxCallbacks
  /\ hidden' = TRUE
  /\ timers' = TimersOnceHidden
  /\ UNCHANGED <<phase, queue, batch, scheduled, rafs, inboxVars, readVars, effectVars, scopeVars>>

Show ==
  /\ phase = "idle"
  /\ hidden
  /\ hidden' = FALSE
  /\ UNCHANGED <<phase, queue, batch, frameVars, inboxVars, readVars, effectVars, scopeVars>>

RunPosted ==
  /\ phase = "posted"
  /\ draining # <<>>
  /\ draining' = Tail(draining)
  /\ UNCHANGED <<phase, queue, batch, hidden, frameVars, posted, posting, readVars, effectVars,
                 scopeVars>>

DrainDone ==
  /\ phase = "posted"
  /\ draining = <<>>
  /\ phase' = "render"
  /\ UNCHANGED <<queue, batch, hidden, frameVars, inboxVars, readVars, effectVars, scopeVars>>

PassAllowed == dirty # {} /\ pass < MaxDirtyPasses

\* The next pass takes every scope dirty now.
StartPass ==
  /\ phase = "render"
  /\ flushing = {}
  /\ PassAllowed
  /\ flushing' = dirty
  /\ dirty' = {}
  /\ pass' = pass + 1
  /\ UNCHANGED <<phase, queue, batch, hidden, frameVars, inboxVars, readVars, effectVars,
                 mounted, gaveUp>>

Above[s \in Scope] == IF s = 1 THEN {} ELSE {Parent[s]} \union Above[Parent[s]]
Inside(s) == {d \in Scope : s \in Above[d]}

\* What may be mounted once s has rendered: anything inside s.
Renderings(s) ==
  {M \in SUBSET Scope : M \ Inside(s) = mounted \ Inside(s) /\ \A d \in M : Above[d] \subseteq M}

Unused == Effect \ (ToSet(queue) \union ToSet(effects))

\* A mutant: CancelDirty forgets the entries of the pass under way.
NotCancelledInPass(S) == flushing

\* CancelDirty, for each of S: neither this pass nor the next one renders it.
CancelledInPass(S) == flushing \ S

\* The first scope of the pass in seq order renders.  Of the scopes inside it some are
\* unmounted (after lacks them), some adopted, which renders them on the spot, and some
\* mounted; pending renders of the unmounted and the adopted are cancelled.  Its user
\* code marks scopes dirty; what it renders is enqueued, with the effects it queued.
Render ==
  /\ phase = "render"
  /\ flushing # {}
  /\ LET s == Min(flushing)
     IN \E after \in Renderings(s),
           fx \in {<<>>} \union {<<e>> : e \in Unused},
           writes \in {<<>>} \union {<<w>> : w \in {w \in Write : Len(queue) < MaxQueue}} :
        \E adopted \in SUBSET (Inside(s) \intersect mounted \intersect after),
           marks \in SUBSET (RenderMarks[s] \intersect after) :
          LET gone == (mounted \ after) \union adopted
          IN /\ mounted' = after
             /\ dirty' = (dirty \ gone) \union marks
             /\ flushing' = CancelledInPass(gone) \ {s}
             /\ queue' = queue \o fx \o writes
             /\ effects' = effects \o fx
             /\ document' = document \ ToSet(fx)
  /\ UNCHANGED <<phase, batch, hidden, frameVars, inboxVars, readVars, running, pass, gaveUp>>

\* The elements of q at the positions in I, in their order.
SelectAt(q, I) ==
  [k \in 1..Cardinality(I) |-> q[CHOOSE i \in I : Cardinality({j \in I : j <= i}) = k]]

\* A mutant: a write supersedes reads too.
CoalescedReads(q) ==
  SelectAt(q, {i \in DOMAIN q : \A j \in DOMAIN q :
                 j > i /\ q[j] \in Write => q[i] # q[j] /\ q[i] \notin Read})

\* coalesce: of the writes to one property only the last remains.
Coalesced(q) ==
  SelectAt(q, {i \in DOMAIN q : \A j \in DOMAIN q : j > i /\ q[j] \in Write => q[i] # q[j]})

\* Flush returns the batch; scopes still dirty after the last pass stay dirty.
FlushDone ==
  /\ phase = "render"
  /\ flushing = {}
  /\ ~PassAllowed
  /\ gaveUp' = (dirty # {})
  /\ batch' = Coalesced(queue)
  /\ queue' = <<>>
  /\ phase' = "apply"
  /\ pass' = 0
  /\ UNCHANGED <<hidden, frameVars, inboxVars, readVars, effectVars, mounted, dirty, flushing>>

\* applyMutations: the writes take effect, then the reads are answered, in order.
Apply ==
  /\ phase = "apply"
  /\ document' = document \union (ToSet(batch) \intersect Effect)
  /\ replies' = SelectAt(batch, {i \in DOMAIN batch : batch[i] \in Read})
  /\ batch' = <<>>
  /\ phase' = "reply"
  /\ UNCHANGED <<queue, hidden, frameVars, inboxVars, reads, effects, running, scopeVars>>

\* Resolve calls the callback of a read that is pending, once.
Resolve ==
  /\ phase = "reply"
  /\ replies # <<>>
  /\ reads' = reads \ {Head(replies)}
  /\ replies' = Tail(replies)
  /\ UNCHANGED <<phase, queue, batch, hidden, frameVars, inboxVars, effectVars, scopeVars>>

\* A mutant: RunEffects is called before sendMutations.
EffectsBeforeApply == phase = "apply"

EffectsDue == phase = "reply" /\ replies = <<>>

\* RunEffects takes the effects queued so far.
TakeEffects ==
  /\ EffectsDue
  /\ running' = effects
  /\ effects' = <<>>
  /\ phase' = "effects"
  /\ UNCHANGED <<queue, batch, hidden, frameVars, inboxVars, readVars, document, scopeVars>>

RunEffect ==
  /\ phase = "effects"
  /\ running # <<>>
  /\ running' = Tail(running)
  /\ UNCHANGED <<phase, queue, batch, hidden, frameVars, inboxVars, readVars, effects, document,
                 scopeVars>>

FrameDone ==
  /\ phase = "effects"
  /\ running = <<>>
  /\ phase' = "idle"
  /\ UNCHANGED <<queue, batch, hidden, frameVars, inboxVars, readVars, effectVars, scopeVars>>

InFrame ==
  \/ RunPosted \/ DrainDone \/ StartPass \/ Render \/ FlushDone
  \/ Apply \/ Resolve \/ TakeEffects \/ RunEffect \/ FrameDone

Next ==
  \/ \E t \in Task : PostAppend(t) \/ PostSignal(t)
  \/ \E s \in Scope : MarkDirty(s)
  \/ \E w \in Write : EnqueueWrite(w)
  \/ \E r \in Read : EnqueueRead(r)
  \/ FireRaf \/ FireTimer \/ Hide \/ Show
  \/ InFrame

Spec == Init /\ [][Next]_vars

(***************************************************************************)
(* A frame runs to its end, goroutines run on between Unlock and OnWork,   *)
(* and the browser calls back: timers always, animation frames while the   *)
(* page is visible.                                                        *)
(***************************************************************************)
Fairness ==
  /\ WF_vars(InFrame)
  /\ WF_vars(FireRaf)
  /\ WF_vars(FireTimer)
  /\ \A t \in Task : WF_vars(PostSignal(t))

FairSpec == Spec /\ Fairness
-----------------------------------------------------------------------------
(* Properties *)

\* HasWork, without scopes a flush gave up on and tasks whose Post has not called OnWork.
HasWork ==
  \/ queue # <<>> \/ effects # <<>>
  \/ dirty # {} /\ ~gaveUp
  \/ ToSet(posted) \ posting # {}

\* Work never waits without a frame: whenever the loop is idle with work, a frame is
\* requested (scheduler.go:25-29), whatever phase the work appeared in.
WorkHasFrame == phase = "idle" /\ HasWork => scheduled

WillCallBack == timers > 0 \/ (rafs > 0 /\ ~hidden)

\* A requested frame will run even if the page stays hidden (wasm.go:126-142).
FrameIsPending == scheduled => WillCallBack

\* An effect first runs with its component's nodes in the document (scheduler.go:125-127).
EffectsAfterDOM == ToSet(running) \subseteq document

\* Only mounted scopes wait to be rendered (scheduler.go:180-181).
PendingIsMounted == dirty \union flushing \subseteq mounted

\* A parked read is never lost: it is on its way, once, until its callback is called,
\* whatever writes are coalesced with it (scheduler.go:219-226).
ReadsOnTheWay ==
  LET way == queue \o batch \o replies
  IN /\ ToSet(way) \intersect Read = reads
     /\ \A i, j \in DOMAIN way : way[i] \in Read /\ way[i] = way[j] => i = j

\* A dirty scope is rendered, removed or adopted, eventually, unless a flush gives up on
\* a cascade of renders (scheduler.go:200-203).
DirtyRenders == \A s \in Scope : s \in dirty ~> s \notin dirty \/ gaveUp

\* Posted callbacks run once each, in the order they were posted, and all of them run.
Inbox == INSTANCE Inbox WITH inbox <- draining \o posted
InboxSpec == Inbox!Spec
=============================================================================
