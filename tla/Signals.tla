------------------------------- MODULE Signals -------------------------------
(***************************************************************************)
(* Signals and batches (core/signal.go, core/batch.go).                    *)
(*                                                                         *)
(* Everything here runs on one goroutine, the render loop, so the          *)
(* interleavings are those of nested calls: a subscriber runs inside a     *)
(* notification pass and may itself write signals, open a Batch,           *)
(* subscribe, unsubscribe or panic.  The Go call stack is a variable; its  *)
(* head is the innermost call.                                             *)
(*                                                                         *)
(*   batch    the fn of a Batch is running                                 *)
(*   recover  the fn of a core.Recover is running                          *)
(*   drain    endBatch delivers the rest of one batchQueue                 *)
(*   notify   one pass of notify over subs[1..n], next index i             *)
(*   call     the function of subscriber who is running                    *)
(*                                                                         *)
(* The empty stack is the event loop between two handlers; its plain code  *)
(* may write signals too.  The user code of a handler, a Batch or a        *)
(* subscriber is arbitrary.                                                *)
(***************************************************************************)
EXTENDS Naturals, SequencesExt

CONSTANTS
  Signal,            \* the signals
  Listener,          \* subscriptions user code can hold
  Value,             \* values a signal can hold
  MaxNotifyPasses,   \* maxNotifyPasses: passes of one notify before it gives up
  MaxStack           \* bound: user code opens no Batch or Recover beyond this depth

ASSUME SignalsAssumption ==
  /\ MaxNotifyPasses \in Nat \ {0}
  /\ MaxStack \in Nat

VARIABLES
  value,        \* Signal.value
  subs,         \* Signal.subs: registrations, dead ones until they are compacted
  notifying,    \* Signal.notifying
  dirty,        \* Signal.dirty
  queued,       \* Signal.queued
  batchDepth,   \* batchDepth
  batchQueue,   \* batchQueue
  stack,        \* the call stack, innermost call first
  panicking,    \* the stack is being unwound by a panic
  seen,         \* history: the value a listener last ran with or subscribed at
  cut,          \* history: signals whose last notification was stopped, as a cycle or
                \* by a panic
  stranded      \* history: signals a panicking drain dropped with their queued mark

historyVars == <<seen, cut, stranded>>
signalVars == <<value, subs, notifying, dirty, queued, batchDepth, batchQueue, historyVars>>
vars == <<signalVars, stack, panicking>>

Registered == {entry.who : entry \in UNION {ToSet(subs[s]) : s \in Signal}}
IsLive(x, s) == [who |-> x, dead |-> FALSE] \in ToSet(subs[s])

\* kept[k]: the live ones of the first k entries.
LiveOnes(entries) ==
  LET kept[k \in 0..Len(entries)] ==
        IF k = 0 THEN <<>>
        ELSE IF entries[k].dead THEN kept[k - 1] ELSE Append(kept[k - 1], entries[k])
  IN  kept[Len(entries)]

\* compact: only once the dead make up half of the slice.
Compacted(entries) ==
  IF 2 * Len(LiveOnes(entries)) <= Len(entries) THEN LiveOnes(entries) ELSE entries

Top == IF stack = <<>> THEN [op |-> "loop"] ELSE Head(stack)
Below == Tail(stack)
Idle == stack = <<>> /\ ~panicking
InUserCode ==
  /\ ~panicking
  /\ Top.op \in {"loop", "batch", "recover", "call"}
  /\ Top.op = "call" => Top.who \in Listener

LiveOf(s) == {x \in {entry.who : entry \in ToSet(subs[s])} : IsLive(x, s)}

\* todo is history: the subscribers of the pass that have not run in it.
NotifyFrame(s, pass) ==
  [op |-> "notify", sig |-> s, pass |-> pass, i |-> 1, n |-> Len(subs[s]),
   todo |-> LiveOf(s)]

\* notify: start the first pass on top of the calls in below, or leave it to the
\* pass that is already running.
Notify(s, below) ==
  \/ /\ notifying[s]
     /\ dirty' = [dirty EXCEPT ![s] = TRUE]
     /\ stack' = below
     /\ UNCHANGED <<notifying, cut>>
  \/ /\ ~notifying[s]
     /\ notifying' = [notifying EXCEPT ![s] = TRUE]
     /\ dirty' = [dirty EXCEPT ![s] = FALSE]
     /\ stack' = <<NotifyFrame(s, 0)>> \o below
     /\ cut' = cut \ {s}

\* A mutant: only nested batches defer.
DeferringWhenNested == batchDepth > 1

Deferring == batchDepth > 0

\* publish: notify now, or at the end of the outermost Batch.
Publish(s, below) ==
  \/ /\ Deferring
     /\ queued' = [queued EXCEPT ![s] = TRUE]
     /\ batchQueue' = IF queued[s] THEN batchQueue ELSE Append(batchQueue, s)
     /\ stack' = below
     /\ UNCHANGED <<notifying, dirty, cut>>
  \/ /\ ~Deferring
     /\ Notify(s, below)
     /\ UNCHANGED <<queued, batchQueue>>

\* What seen holds for a listener that is not subscribed.
Unseen == CHOOSE v \in Value : TRUE

Init ==
  /\ value \in [Signal -> Value]
  /\ subs = [s \in Signal |-> <<>>]
  /\ notifying = [s \in Signal |-> FALSE]
  /\ dirty = [s \in Signal |-> FALSE]
  /\ queued = [s \in Signal |-> FALSE]
  /\ batchDepth = 0
  /\ batchQueue = <<>>
  /\ stack = <<>>
  /\ panicking = FALSE
  /\ seen = [x \in Listener |-> Unseen]
  /\ cut = {}
  /\ stranded = {}
-----------------------------------------------------------------------------
(* What user code does. *)

\* Set; writing an equal value returns at once and changes nothing.
Set(s, v) ==
  /\ InUserCode
  /\ v # value[s]
  /\ value' = [value EXCEPT ![s] = v]
  /\ Publish(s, stack)
  /\ UNCHANGED <<subs, batchDepth, panicking, seen, stranded>>

Subscribe(x, s) ==
  /\ InUserCode
  /\ x \notin Registered
  /\ subs' = [subs EXCEPT ![s] = Append(@, [who |-> x, dead |-> FALSE])]
  /\ seen' = [seen EXCEPT ![x] = value[s]]
  /\ UNCHANGED <<value, notifying, dirty, queued, batchDepth, batchQueue, cut, stranded,
                 stack, panicking>>

\* entries once x's registration is marked dead.
Marked(entries, x) ==
  [k \in DOMAIN entries |-> IF entries[k].who = x THEN [who |-> x, dead |-> TRUE]
                                                 ELSE entries[k]]

\* A mutant: compaction does not wait for the notification to end.
RemovedAtOnce(s, entries, x) == Compacted(Marked(entries, x))

\* The entries of s without x: compacted, unless a notification is indexing them.
Removed(s, entries, x) ==
  IF notifying[s] THEN Marked(entries, x) ELSE Compacted(Marked(entries, x))

\* The function Subscribe returned; calling it again does nothing.
Unsubscribe(x, s) ==
  /\ InUserCode
  /\ IsLive(x, s)
  /\ subs' = [subs EXCEPT ![s] = Removed(s, @, x)]
  /\ seen' = [seen EXCEPT ![x] = Unseen]
  /\ UNCHANGED <<value, notifying, dirty, queued, batchDepth, batchQueue, cut, stranded,
                 stack, panicking>>

BeginBatch ==
  /\ InUserCode
  /\ Len(stack) < MaxStack
  /\ batchDepth' = batchDepth + 1
  /\ stack' = <<[op |-> "batch"]>> \o stack
  /\ UNCHANGED <<value, subs, notifying, dirty, queued, batchQueue, historyVars, panicking>>

BeginRecover ==
  /\ InUserCode
  /\ Len(stack) < MaxStack
  /\ stack' = <<[op |-> "recover"]>> \o stack
  /\ UNCHANGED <<signalVars, panicking>>

\* A subscriber or the fn of a Recover returns.
Return ==
  /\ InUserCode
  /\ Top.op \in {"call", "recover"}
  /\ stack' = Below
  /\ UNCHANGED <<signalVars, panicking>>

Panic ==
  /\ InUserCode
  /\ stack # <<>>
  /\ panicking' = TRUE
  /\ UNCHANGED <<signalVars, stack>>
-----------------------------------------------------------------------------
(* endBatch: it runs when the fn of a Batch returns or panics. *)

\* A mutant: endBatch is not deferred work, a panic skips the delivery.
MustFlushUnlessPanicking == batchDepth = 1 /\ batchQueue # <<>> /\ ~panicking

MustFlush == batchDepth = 1 /\ batchQueue # <<>>

EndBatch ==
  /\ Top.op = "batch"
  /\ batchDepth' = batchDepth - 1
  /\ \/ /\ MustFlush
        /\ stack' = <<[op |-> "drain", rest |-> batchQueue, rethrow |-> panicking]>> \o Below
        /\ batchQueue' = <<>>
        /\ panicking' = FALSE
     \/ /\ ~MustFlush
        /\ stack' = Below
        /\ UNCHANGED <<batchQueue, panicking>>
  /\ UNCHANGED <<value, subs, notifying, dirty, queued, historyVars>>

Dequeued(s) == [queued EXCEPT ![s] = FALSE]

\* flushBatched on the next signal of the queue taken.
DrainNext ==
  /\ ~panicking
  /\ Top.op = "drain"
  /\ Top.rest # <<>>
  /\ LET s == Head(Top.rest)
     IN /\ queued' = Dequeued(s)
        /\ Notify(s, <<[Top EXCEPT !.rest = Tail(@)]>> \o Below)
  /\ UNCHANGED <<value, subs, batchDepth, batchQueue, seen, stranded, panicking>>

\* The queue taken is empty: take the one that has grown since, or return.
DrainEnd ==
  /\ ~panicking
  /\ Top.op = "drain"
  /\ Top.rest = <<>>
  /\ \/ /\ batchQueue # <<>>
        /\ stack' = <<[Top EXCEPT !.rest = batchQueue]>> \o Below
        /\ UNCHANGED panicking
     \/ /\ batchQueue = <<>>
        /\ stack' = Below
        /\ panicking' = Top.rethrow
  /\ batchQueue' = <<>>
  /\ UNCHANGED <<value, subs, notifying, dirty, queued, batchDepth, historyVars>>
-----------------------------------------------------------------------------
(* notify *)

Advance(x) == <<[Top EXCEPT !.i = @ + 1, !.todo = @ \ {x}]>> \o Below

\* Call the subscriber at index i, unless it is dead.  current gives what a
\* listener reads from each signal.
NotifyNext(current) ==
  /\ ~panicking
  /\ Top.op = "notify"
  /\ Top.i <= Top.n
  /\ LET entry == subs[Top.sig][Top.i]
     IN \/ /\ entry.dead
           /\ stack' = Advance(entry.who)
           /\ UNCHANGED seen
        \/ /\ ~entry.dead
           /\ stack' = <<[op |-> "call", who |-> entry.who]>> \o Advance(entry.who)
           /\ seen' = IF entry.who \in Listener
                      THEN [seen EXCEPT ![entry.who] = current[Top.sig]] ELSE seen
  /\ UNCHANGED <<value, subs, notifying, dirty, queued, batchDepth, batchQueue, cut, stranded,
                 panicking>>

\* A mutant: the mark is cleared by the return of notify, not by a deferred function.
EndNotifyUnlessPanicking(s) ==
  /\ notifying' = [notifying EXCEPT ![s] = panicking]
  /\ subs' = [subs EXCEPT ![s] = Compacted(@)]

\* The deferred function of notify.
EndNotify(s) ==
  /\ notifying' = [notifying EXCEPT ![s] = FALSE]
  /\ subs' = [subs EXCEPT ![s] = Compacted(@)]

PassAllowed(pass) == pass < MaxNotifyPasses

\* A pass is over: run another if the signal was set meanwhile, up to the bound.
NotifyPassEnd ==
  /\ ~panicking
  /\ Top.op = "notify"
  /\ Top.i > Top.n
  /\ LET s == Top.sig
     IN \/ /\ dirty[s]
           /\ PassAllowed(Top.pass + 1)
           /\ dirty' = [dirty EXCEPT ![s] = FALSE]
           /\ stack' = <<NotifyFrame(s, Top.pass + 1)>> \o Below
           /\ UNCHANGED <<subs, notifying, cut>>
        \/ /\ ~(dirty[s] /\ PassAllowed(Top.pass + 1))
           /\ EndNotify(s)
           /\ stack' = Below
           /\ cut' = IF dirty[s] THEN cut \union {s} ELSE cut
           /\ UNCHANGED dirty
  /\ UNCHANGED <<value, queued, batchDepth, batchQueue, seen, stranded, panicking>>
-----------------------------------------------------------------------------
(* A panic leaves the innermost call; only deferred functions still run: *)
(* endBatch, above, and that of notify.                                  *)

Unwind ==
  /\ panicking
  /\ Top.op \in {"call", "drain", "notify"}
  /\ stack' = Below
  /\ \/ /\ Top.op = "notify"
        /\ EndNotify(Top.sig)
        /\ cut' = cut \union {Top.sig}
        /\ UNCHANGED stranded
     \/ /\ Top.op = "drain"
        /\ stranded' = stranded \union ToSet(Top.rest)
        /\ UNCHANGED <<notifying, subs, cut>>
     \/ /\ Top.op = "call"
        /\ UNCHANGED <<notifying, subs, cut, stranded>>
  /\ UNCHANGED <<value, dirty, queued, batchDepth, batchQueue, seen, panicking>>

\* A Recover, or the one every handler runs under, stops the panic.
Recovered ==
  /\ panicking
  /\ Top.op \in {"loop", "recover"}
  /\ panicking' = FALSE
  /\ stack' = IF stack = <<>> THEN <<>> ELSE Below
  /\ UNCHANGED signalVars

Deliver == DrainNext \/ DrainEnd \/ NotifyPassEnd \/ Unwind \/ Recovered

Next ==
  \/ \E s \in Signal, v \in Value : Set(s, v)
  \/ \E s \in Signal, x \in Listener : Subscribe(x, s) \/ Unsubscribe(x, s)
  \/ BeginBatch
  \/ EndBatch
  \/ BeginRecover
  \/ Return
  \/ Panic
  \/ NotifyNext(value)
  \/ Deliver

Spec == Init /\ [][Next]_vars
-----------------------------------------------------------------------------
(* Properties *)

CountFrames(op) == Cardinality({k \in DOMAIN stack : stack[k].op = op})

Notifies(s) == {k \in DOMAIN stack : stack[k].op = "notify" /\ stack[k].sig = s}

\* Where s waits for its notification: at place j of what drain k still has to deliver,
\* or of batchQueue if k = 0.
Waits(s) ==
  {<<0, j>> : j \in {j \in DOMAIN batchQueue : batchQueue[j] = s}}
    \union UNION {{<<k, j>> : j \in {j \in DOMAIN stack[k].rest : stack[k].rest[j] = s}} :
                    k \in {k \in DOMAIN stack : stack[k].op = "drain"}}

\* What marks a notification as under way or to come outlives it in no panic: batchDepth
\* counts the Batch calls whose fn is running (TestBatchFlushesWhenFnPanics,
\* batch_test.go:84-87, tests it), a signal is notifying while one notify of it is on the
\* stack, and queued while one pending queue holds it, once, unless a panic dropped it.
MarksMatchStack ==
  /\ batchDepth = CountFrames("batch")
  /\ \A s \in Signal :
       /\ Cardinality(Notifies(s)) = IF notifying[s] THEN 1 ELSE 0
       /\ Cardinality(Waits(s)) = IF queued[s] /\ s \notin stranded THEN 1 ELSE 0

\* When the loop is idle every live subscriber has run with, or subscribed at, the
\* value its signal holds, unless a cycle or a panic stopped the signal's last
\* notification (signal.go:126-137).
NothingMissed ==
  Idle => \A s \in Signal \ (cut \union stranded), x \in Listener : IsLive(x, s) => seen[x] = value[s]

\* Each signal written in a Batch notifies its subscribers after the outermost Batch
\* ends (batch.go:4-6): once no call is left, no written signal is still waiting.
BatchDelivers == Idle => \A s \in Signal : ~queued[s]

\* No subscriber runs while the fn of a Batch that encloses it is still running:
\* derived state never observes a half-applied update (batch.go:3-7).
BatchIsolation ==
  \A outer, inner \in DOMAIN stack :
    stack[outer].op = "batch" /\ stack[inner].op = "notify" => outer < inner

\* What a pass still has to run is what was live when it started, has not run in it
\* and has not been removed: added subscribers wait for the next pass, removed ones
\* are skipped, nobody runs twice and nobody is lost (signal.go:130-132).
PassTodo ==
  \A k \in DOMAIN stack : stack[k].op = "notify" =>
    LET f == stack[k]
    IN f.todo \intersect LiveOf(f.sig) =
       {subs[f.sig][j].who : j \in {j \in (f.i..f.n) \intersect DOMAIN subs[f.sig] :
                                     ~subs[f.sig][j].dead}}
=============================================================================
