------------------------------- MODULE Resource -------------------------------
(***************************************************************************)
(* One UseResource of one component (hooks/use_resource.go), from the      *)
(* render of the component to its unmount.                                 *)
(*                                                                         *)
(* load and the callbacks of fetches run on the render loop; fetches run   *)
(* in goroutines.  Effects, event handlers and callbacks run inside a      *)
(* Batch, so the signals a load or a callback sets there notify nobody     *)
(* before it is over.  But subscribers run outside of batches: a load that *)
(* one of them starts sets its signals one at a time, and the subscribers  *)
(* of each run before it goes on.  They may start another load (Refetch, a *)
(* dep that changes), or panic.  The stack holds these loads, innermost    *)
(* first, each with the signal whose subscribers it is running.            *)
(*                                                                         *)
(* A load is named by its generation.  User code uses the resource until   *)
(* its component is unmounted.                                             *)
(***************************************************************************)
EXTENDS Naturals, Sequences

CONSTANT MaxLoads   \* bound: user code starts no load beyond this generation

ASSUME ResourceAssumption == MaxLoads \in Nat

NoLoad == 0   \* a nil cancel, a nil error, the zero value

VARIABLES
  life,       \* of the component: its effects have not run, have run, are cleaned up
  gen,        \* Resource.gen
  cancel,     \* the load Resource.cancel cancels
  data,       \* the load whose value Data holds
  err,        \* the load whose error Err holds
  loading,    \* Resource.Loading
  fetches,    \* loads whose fetch is running
  cancelled,  \* loads whose context is cancelled
  posted,     \* callbacks of finished fetches, in Scheduler.posted
  stack,      \* loads in progress outside of batches
  aborted,    \* history: loads that a panic of a subscriber ended
  shown       \* history: the load whose result was applied last

vars == <<life, gen, cancel, data, err, loading, fetches, cancelled, posted, stack, aborted, shown>>

Init ==
  /\ life = "rendered"
  /\ gen = 0 /\ cancel = NoLoad /\ data = NoLoad /\ err = NoLoad /\ loading = TRUE
  /\ fetches = {} /\ cancelled = {} /\ posted = <<>> /\ stack = <<>>
  /\ aborted = {} /\ shown = NoLoad

Top == Head(stack)
Below == Tail(stack)
Idle == stack = <<>>
InUserCode == ~Idle => Top.running # "none"

\* Setting a signal runs its subscribers if the value changes, unless they are running:
\* then the call that runs them runs them again.
Running(signal, changes) ==
  IF changes /\ \A k \in DOMAIN stack : stack[k].running # signal THEN signal ELSE "none"

\* A mutant: a load invalidates the previous one without cancelling it.
CancelledByNothing == cancelled

\* stop
CancelledByStop == IF cancel = NoLoad THEN cancelled ELSE cancelled \union {cancel}

\* load, up to where Loading is true.
Started ==
  /\ gen' = gen + 1
  /\ cancelled' = CancelledByStop
  /\ cancel' = gen + 1
  /\ loading' = TRUE

\* The effect of OnMount, which runs in a Batch: nothing comes between the parts of load.
Mount ==
  /\ Idle
  /\ life = "rendered"
  /\ life' = "mounted"
  /\ Started
  /\ err' = NoLoad
  /\ fetches' = fetches \union {gen + 1}
  /\ UNCHANGED <<data, posted, stack, aborted, shown>>

\* Refetch, or a dep that Watch subscribed to during the render.  In a Batch, this load
\* happens to go on before anything else.
Load ==
  /\ InUserCode
  /\ life # "unmounted"
  /\ gen < MaxLoads
  /\ Started
  /\ stack' = <<[gen |-> gen + 1, next |-> "err", running |-> Running("loading", ~loading)]>>
                 \o stack
  /\ UNCHANGED <<life, data, err, fetches, posted, aborted, shown>>

LoadErr ==
  /\ ~Idle
  /\ Top.next = "err"
  /\ err' = NoLoad
  /\ stack' = <<[Top EXCEPT !.next = "fetch", !.running = Running("err", err # NoLoad)]>> \o Below
  /\ UNCHANGED <<life, gen, cancel, data, loading, fetches, cancelled, posted, aborted, shown>>

LoadFetch ==
  /\ ~Idle
  /\ Top.next = "fetch"
  /\ fetches' = fetches \union {Top.gen}
  /\ stack' = Below
  /\ UNCHANGED <<life, gen, cancel, data, err, loading, cancelled, posted, aborted, shown>>

\* A subscriber that a load is running panics, or does not recover what it called.
Panic ==
  /\ ~Idle
  /\ InUserCode
  /\ aborted' = aborted \union {Top.gen}
  /\ stack' = Below
  /\ UNCHANGED <<life, gen, cancel, data, err, loading, fetches, cancelled, posted, shown>>

\* A fetch returns, with a value or an error, and its goroutine calls Schedule.
FetchEnds(g) ==
  /\ g \in fetches
  /\ fetches' = fetches \ {g}
  /\ \E ok \in BOOLEAN : posted' = Append(posted, [gen |-> g, ok |-> ok])
  /\ UNCHANGED <<life, gen, cancel, data, err, loading, cancelled, stack, aborted, shown>>

\* A mutant: any result is wanted while the resource is loading.
IsCurrentWhileLoading(g) == loading

IsCurrent(g) == g = gen

\* A mutant: the callback returns once it has set Err.
LoadingAfterData(ok) == IF ok THEN FALSE ELSE loading

LoadingAfter(ok) == FALSE

\* The callback of a fetch, in the Batch of drainPosted.
Apply(g, ok) ==
  /\ cancelled' = cancelled \union {g}
  /\ cancel' = NoLoad
  /\ shown' = g
  /\ data' = IF ok THEN g ELSE data
  /\ err' = IF ok THEN err ELSE g
  /\ loading' = LoadingAfter(ok)

RunPosted ==
  /\ Idle
  /\ posted # <<>>
  /\ posted' = Tail(posted)
  /\ LET c == Head(posted)
     IN \/ /\ IsCurrent(c.gen)
           /\ Apply(c.gen, c.ok)
        \/ /\ ~IsCurrent(c.gen)
           /\ UNCHANGED <<cancel, data, err, loading, cancelled, shown>>
  /\ UNCHANGED <<life, gen, fetches, stack, aborted>>

\* RunFrameCleanup: the effect is disposed; if it has run, its cleanup is stop.
Unmount ==
  /\ Idle
  /\ life # "unmounted"
  /\ life' = "unmounted"
  /\ \/ /\ life = "mounted"
        /\ gen' = gen + 1
        /\ cancelled' = CancelledByStop
        /\ cancel' = NoLoad
     \/ /\ life = "rendered"
        /\ UNCHANGED <<gen, cancelled, cancel>>
  /\ UNCHANGED <<data, err, loading, fetches, posted, stack, aborted, shown>>

OnLoop == LoadErr \/ LoadFetch \/ RunPosted

Next ==
  \/ Mount
  \/ Load
  \/ \E g \in fetches : FetchEnds(g)
  \/ OnLoop
  \/ Panic
  \/ Unmount

Spec == Init /\ [][Next]_vars

(***************************************************************************)
(* The loop runs its calls and posted callbacks and the effect of the      *)
(* component, and every fetch returns.                                     *)
(***************************************************************************)
Fairness(Loads) ==
  /\ WF_vars(Mount)
  /\ WF_vars(OnLoop)
  /\ \A g \in Loads : WF_vars(FetchEnds(g))
-----------------------------------------------------------------------------
(* Properties *)

Call == [gen : Nat, next : {"err", "fetch"}, running : {"none", "loading", "err"}]

\* Types.  Only loads that started have a context to cancel.
TypeOK ==
  /\ life \in {"rendered", "mounted", "unmounted"}
  /\ gen \in Nat /\ cancel \in Nat /\ data \in Nat /\ err \in Nat /\ shown \in Nat
  /\ loading \in BOOLEAN
  /\ fetches \subseteq 1..gen /\ cancelled \subseteq 1..gen
  /\ posted \in Seq([gen : Nat, ok : BOOLEAN])
  /\ stack \in Seq(Call) /\ aborted \subseteq 1..gen

\* Every fetch but that of the newest load runs with a cancelled context, however loads
\* nest, so it can stop early (use_resource.go:29-31).
SupersededIsCancelled == \A g \in fetches : g # gen => g \in cancelled

\* Loading is true exactly while a fetch is in flight (use_resource.go:10-11): while the
\* component lives and the loop is idle, the newest load has its fetch, or the callback of
\* it, still to come, or a subscriber's panic left it without one.
Coming(g) == g \in fetches \/ \E k \in DOMAIN posted : posted[k].gen = g
LoadingIsFetching ==
  Idle /\ life # "unmounted" /\ gen > 0 => (loading <=> Coming(gen) \/ gen \in aborted)

\* Only the result of the newest load is applied (use_resource.go:43).
Latest == INSTANCE Latest WITH newest <- gen
LatestSpec == Latest!Spec

\* Every load of a living component comes to an end, unless a subscriber panics.
LoadingEnds == loading ~> ~loading \/ life = "unmounted" \/ gen \in aborted
=============================================================================
