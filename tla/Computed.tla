------------------------------ MODULE Computed ------------------------------
(***************************************************************************)
(* Derived signals (core/computed.go) among the signals of Signals.        *)
(*                                                                         *)
(* A Computed caches its value with the versions of its deps.  A version   *)
(* only grows, so all that matters is whether the one remembered is still  *)
(* the dep's: known holds the deps for which it is.  A Computed subscribes *)
(* to its deps while somebody observes it; its subscription to dep k is    *)
(* the registration <<c, k>>.                                              *)
(*                                                                         *)
(* Compute functions read their deps and do nothing else, so evaluating,   *)
(* activating and deactivating run no other code and each is one step.     *)
(***************************************************************************)
EXTENDS Signals

CONSTANTS
  Derived,         \* the signals made by Computed
  Deps,            \* the deps of each
  MaxEntries,      \* bound: user code subscribes while no slice of registrations is longer
  Compute(_, _)    \* the value of each, from those of its deps

Source == Signal \ Derived

ASSUME ComputedAssumption ==
  /\ Derived \subseteq Signal /\ IsFiniteSet(Signal)
  /\ Deps \in [Derived -> Seq(Signal) \ {<<>>}]
  /\ \E rank \in [Signal -> 1..Cardinality(Signal)] :
       \A c \in Derived : \A k \in DOMAIN Deps[c] : rank[Deps[c][k]] < rank[c]
  /\ \A c \in Derived : \A k \in DOMAIN Deps[c] : <<c, k>> \notin Listener
  /\ \A c \in Derived : \A args \in [DOMAIN Deps[c] -> Value] : Compute(c, args) \in Value

VARIABLES
  known,      \* derivation.depVers, as the deps whose version it is
  notified,   \* derivation.notified
  called,     \* history: the listeners called since user code last wrote
  nested,     \* history: it wrote inside a notification last
  took        \* history: who read a value of a Computed that it has told nobody of since

derivedVars == <<known, notified>>
callVars == <<called, nested, took>>
allVars == <<vars, derivedVars, callVars>>

\* The part of the state that evaluating and subscribing change.
Now == [value |-> value, subs |-> subs, known |-> known, notified |-> notified]
Becomes(st) ==
  /\ value' = st.value
  /\ subs' = st.subs
  /\ known' = st.known
  /\ notified' = st.notified

DepSub(c, k) == <<c, k>>
IsDepSub(who) == who \notin Listener

\* Who registers, what registers, and what evaluating and subscribing may leave.
Who == Listener \union UNION {{DepSub(c, k) : k \in DOMAIN Deps[c]} : c \in Derived}
Registration == [who : Who, dead : BOOLEAN]
Store == [value : [Signal -> Value], subs : [Signal -> Seq(Registration)],
          known : [Derived -> SUBSET Nat], notified : [Derived -> Value]]
Observed(entries) == \E k \in DOMAIN entries : ~entries[k].dead

\* What changes made one after the other leave of st.
Through(changes, st) ==
  LET after[k \in 0..Len(changes)] == IF k = 0 THEN st ELSE changes[k][after[k - 1]]
  IN  after[Len(changes)]

\* s.version++: nobody knows the version of s any more.
Bumped(kn, s) == [c \in Derived |-> {k \in kn[c] : Deps[c][k] # s}]

\* A mutant: while it is observed, notifications are trusted to bring every change.
StaleUnlessObserved(st, c) == st.known[c] # DOMAIN Deps[c] /\ ~Observed(st.subs[c])

Stale(st, c) == st.known[c] # DOMAIN Deps[c]

\* refresh, once the deps are up to date: the value v and, if it is new, a new version.
Evaluated(st, c, v) ==
  [st EXCEPT !.value[c] = v,
             !.known = [(IF v = st.value[c] THEN @ ELSE Bumped(@, c))
                          EXCEPT ![c] = DOMAIN Deps[c]]]

\* What compute reads.
DepValues(st, c) == [k \in DOMAIN Deps[c] |-> st.value[Deps[c][k]]]

\* refresh: reading the version of a dep refreshes it first.
Refreshing[s \in Signal] ==
  [st \in Store |->
     IF s \in Source THEN st
     ELSE LET up == Through([k \in DOMAIN Deps[s] |-> Refreshing[Deps[s][k]]], st)
          IN  IF Stale(up, s) THEN Evaluated(up, s, Compute(s, DepValues(up, s))) ELSE up]

Refreshed(st, s) == Refreshing[s][st]

\* Get and Peek.
Current == [s \in Signal |-> Refreshed(Now, s).value[s]]

\* A mutant: observers are told of the change by the read that found it.
ToldByReads(st, c) ==
  LET up == Refreshed(st, c) IN [up EXCEPT !.notified[c] = up.value[c]]

\* What a read leaves: it never swallows a notification that is still to come.
ReadBy(st, c) == Refreshed(st, c)

\* Subscribe: the first observer activates a Computed, which subscribes to its deps.
Subscribing[s \in Signal] ==
  [who \in Who |-> [st \in Store |->
     LET fresh == Refreshed(st, s)
         synced == [fresh EXCEPT !.notified[s] = fresh.value[s]]
         ready == IF s \in Derived /\ ~Observed(st.subs[s])
                  THEN Through([k \in DOMAIN Deps[s] |-> Subscribing[Deps[s][k]][DepSub(s, k)]],
                               synced)
                  ELSE st
     IN  [ready EXCEPT !.subs[s] = Append(@, [who |-> who, dead |-> FALSE])]]]

Subscribed(st, who, s) == Subscribing[s][who][st]

\* A mutant: whoever leaves deactivates the Computed.
UnobservedByOne(entries) == TRUE

Unobserved(entries) == ~Observed(entries)

\* The function Subscribe returned: without observers a Computed leaves its deps.
Unsubscribing[s \in Signal] ==
  [who \in Who |-> [st \in Store |->
     LET off == [st EXCEPT !.subs[s] = Removed(s, @, who)]
     IN  IF s \in Derived /\ Unobserved(off.subs[s])
         THEN Through([k \in DOMAIN Deps[s] |-> Unsubscribing[Deps[s][k]][DepSub(s, k)]], off)
         ELSE off]]

Unsubscribed(st, who, s) == Unsubscribing[s][who][st]

\* The value of a Computed that has not been evaluated.
Zero == CHOOSE v \in Value : TRUE

DerivedInit ==
  /\ Init
  /\ \A c \in Derived : value[c] = Zero
  /\ notified = [c \in Derived |-> Zero]
  /\ known = [c \in Derived |-> {}]
  /\ called = {} /\ nested = FALSE /\ took = {}
-----------------------------------------------------------------------------
(* Steps *)

\* The value of s is not the one its observers have been told of.
Ahead(s) == s \in Derived /\ notified[s] # Current[s]

\* An observed Computed was last evaluated from such a value of its dep k.
Anticipates(c, k) ==
  LET dep == Deps[c][k]
  IN  dep \in Derived /\ Observed(subs[c]) /\ k \in known[c] /\ notified[dep] # value[dep]

\* It was evaluated again since, and its own observers know of the result.
InStep(c, k) == k \in known[c] /\ notified[c] = value[c]

\* took after a step in which the listeners in readers read what they are registered with.
TookBy(readers) ==
  {x \in Listener : \E s \in Derived :
     /\ IsLive(x, s)'
     /\ \/ x \in readers /\ Ahead(s)'
        \/ x \in took \ readers /\ notified'[s] = notified[s]}
  \union {w \in Who \ Listener :
     \/ Anticipates(w[1], w[2])'
     \/ /\ w \in took /\ Observed(subs[w[1]])' /\ ~InStep(w[1], w[2])'
        /\ notified'[Deps[w[1]][w[2]]] = notified[Deps[w[1]][w[2]]]}

InNotification == \E k \in DOMAIN stack : stack[k].op \in {"notify", "drain"}

SetSource(s, v) ==
  /\ Set(s, v)
  /\ known' = Bumped(known, s)
  /\ called' = {}
  /\ nested' = InNotification
  /\ UNCHANGED notified
  /\ took' = TookBy({})

SubscribeTo(x, s) ==
  /\ InUserCode
  /\ x \notin Registered
  /\ Becomes(Subscribed(Now, x, s))
  /\ \A t \in Signal : Len(subs'[t]) <= MaxEntries
  /\ seen' = [seen EXCEPT ![x] = Current[s]]
  /\ UNCHANGED <<notifying, dirty, queued, batchDepth, batchQueue, cut, stranded, stack,
                 panicking, called, nested>>
  /\ took' = TookBy({x})

UnsubscribeFrom(x, s) ==
  /\ InUserCode
  /\ IsLive(x, s)
  /\ Becomes(Unsubscribed(Now, x, s))
  /\ seen' = [seen EXCEPT ![x] = Unseen]
  /\ UNCHANGED <<notifying, dirty, queued, batchDepth, batchQueue, cut, stranded, stack,
                 panicking, called, nested>>
  /\ took' = TookBy({})

\* User code reads a Computed that is not up to date.
Read(c) ==
  /\ InUserCode
  /\ ReadBy(Now, c) # Now
  /\ Becomes(ReadBy(Now, c))
  /\ UNCHANGED <<notifying, dirty, queued, batchDepth, batchQueue, historyVars, stack,
                 panicking, called, nested>>
  /\ took' = TookBy({})

\* A mutant: observers are told whenever a dep notifies.
HasNewsAlways(st, c) == TRUE

HasNews(st, c) == st.notified[c] # st.value[c]

\* onDepChange, in the call of subscription <<c, k>>.
OnDepChange ==
  /\ ~panicking
  /\ Top.op = "call"
  /\ IsDepSub(Top.who)
  /\ LET c == Top.who[1]
         st == Refreshed(Now, c)
     IN \/ /\ HasNews(st, c)
           /\ Becomes([st EXCEPT !.notified[c] = st.value[c]])
           /\ Publish(c, Below)
        \/ /\ ~HasNews(st, c)
           /\ Becomes(st)
           /\ stack' = Below
           /\ UNCHANGED <<notifying, dirty, queued, batchQueue, cut>>
  /\ UNCHANGED <<batchDepth, seen, stranded, panicking, called, nested>>
  /\ took' = TookBy({})

\* The listener this step calls, if any.
Called ==
  IF Len(stack') > Len(stack) /\ stack'[1].op = "call" THEN {stack'[1].who} \intersect Listener
  ELSE {}

CallNext ==
  /\ NotifyNext(Current)
  /\ called' = called \union Called
  /\ UNCHANGED <<derivedVars, nested>>
  /\ took' = TookBy(Called)

\* A step of Signals that concerns no Computed.
Unwatched(Step) ==
  /\ Step
  /\ called' = IF stack' = <<>> THEN {} ELSE called
  /\ nested' = (nested /\ stack' # <<>>)
  /\ UNCHANGED <<derivedVars, took>>

DerivedNext ==
  \/ \E s \in Source, v \in Value : SetSource(s, v)
  \/ \E s \in Signal, x \in Listener : SubscribeTo(x, s) \/ UnsubscribeFrom(x, s)
  \/ \E c \in Derived : Read(c)
  \/ OnDepChange
  \/ CallNext
  \/ Unwatched(BeginBatch \/ EndBatch \/ Return \/ Deliver)

DerivedSpec == DerivedInit /\ [][DerivedNext]_allVars
-----------------------------------------------------------------------------
(* Properties *)

\* The value of a signal, from the sources alone.
Meaning[s \in Signal] ==
  IF s \in Source THEN value[s]
  ELSE Compute(s, [k \in DOMAIN Deps[s] |-> Meaning[Deps[s][k]]])

\* Get is always up to date (signal.go:48-50): the cache, trusted while the versions of
\* the deps are the ones remembered, never hides a write, at any depth of Computeds.
GetIsCurrent == \A c \in Derived : Current[c] = Meaning[c]

LiveSubs(who, s) == Cardinality({k \in DOMAIN subs[s] : subs[s][k] = [who |-> who, dead |-> FALSE]})

\* A Computed is subscribed to each of its deps, once, exactly while it is observed
\* (computed.go:3-9), even when observers come and go during notifications of the deps.
ObservedIsSubscribed ==
  \A c \in Derived : \A k \in DOMAIN Deps[c] :
    LiveSubs(DepSub(c, k), Deps[c][k]) = IF Observed(subs[c]) THEN 1 ELSE 0

\* Signals whose last notification was stopped, or that were evaluated from a value nobody
\* was told of, and those derived from them.
Unreliable[s \in Signal] ==
  \/ s \in cut \union stranded
  \/ s \in Derived /\ \E k \in DOMAIN Deps[s] : DepSub(s, k) \in took \/ Unreliable[Deps[s][k]]

\* When the loop is idle, every live observer of a signal holds its value: what it read when
\* it was last called, or when it subscribed.  A read in between, which refreshes the cache,
\* swallows no notification (computed.go:49-50).  Left out is an observer that subscribed, or
\* was called, while a Computed had a value it had told nobody of, and that saw it return to
\* the value told before: onDepChange then finds nothing to tell (computed.go:92).
ObserversAreTold ==
  Idle => \A s \in Signal, x \in Listener :
            IsLive(x, s) /\ ~Unreliable[s] =>
              IF x \in took THEN notified[s] = Current[s] ELSE seen[x] = Current[s]

\* An update made outside notifications, in one Batch or by one Set, calls each observer of
\* a Computed once at most, however many paths lead to it.
OncePerUpdate ==
  [][\A x \in Called : Top.sig \in Derived /\ ~nested => x \notin called]_allVars
=============================================================================
