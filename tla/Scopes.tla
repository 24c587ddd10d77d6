------------------------------- MODULE Scopes -------------------------------
(***************************************************************************)
(* Mounting, re-rendering, adopting, abandoning and removing parts of the  *)
(* page (internal/dom/renderer.go, internal/dom/diff.go,                   *)
(* internal/walker/walker.go), with the subscriptions, bindings and frames *)
(* each part holds.                                                        *)
(*                                                                         *)
(* The page is a fixed tree of sites, numbered in document order.  A site  *)
(* holds a scope, a component, an element with a binding, or an error      *)
(* boundary; what is rendered at a site may come and go.  A walk is a      *)
(* stack of frames, one per node it is inside, and takes one step per      *)
(* child, so that user code may write signals between any two steps.       *)
(*                                                                         *)
(* Whatever a node holds is held by an object: the one in the page ("old") *)
(* or the one the current walk made for the same site ("new").  When a     *)
(* walk is abandoned, an object it made that still holds something is an   *)
(* "orphan": nothing in the page refers to it.                             *)
(***************************************************************************)
EXTENDS Naturals, SequencesExt

CONSTANTS
  Kind,  \* site -> "scope", "component", "element" or "boundary"
  Up     \* site -> the enclosing site, 0 for the first

Sites == 1..Len(Kind)
Kids(s) == {c \in Sites : Up[c] = s}

\* Sites are numbered in the order a walk enters them, so a site is below
\* those before it that nothing in between is outside of.
Ancestors == [d \in Sites |-> {a \in 1..(d - 1) : \A k \in (a + 1)..d : Up[k] >= a}]
Below(s) == {d \in Sites : s \in Ancestors[d]}
Whole(s) == {s} \union Below(s)

ASSUME ScopesAssumption ==
  /\ Kind \in Seq({"scope", "component", "element", "boundary"}) /\ Kind # <<>>
  /\ Up \in [Sites -> {0} \union Sites]
  /\ Kind[1] = "scope" /\ Up[1] = 0
  /\ \A s \in Sites \ {1} : Up[s] \in Ancestors[s]
  /\ \A b \in Sites : Kind[b] = "boundary" => Cardinality(Kids(b)) = 1

\* The element whose child a node at the site becomes; 0 is the root container.
Host(s) == Max({0} \union {a \in Ancestors[s] : Kind[a] = "element"})

Who == {"old", "new", "orphan"}
Old(S) == S \X {"old"}
New(S) == S \X {"new"}

VARIABLES
  tree,        \* sites of the page
  live,        \* scopes registered, frames not cleaned up, elements bound: <<site, object>>
  subscribed,  \* scopes subscribed to their dependencies
  dirty,       \* scopes marked dirty
  queued,      \* components whose effects wait for their first run
  walk,        \* the frames of the walk under way, outermost first
  built,       \* sites of the tree the walk has made so far
  adopted,     \* scopes the walk adopted
  removed,     \* sites of the page the walk removed
  recovery,    \* recoveryScopes: scopes the walk subscribed
  scopeStack,  \* scopeStack: scopes being mounted, and those of panicked mounts
  fresh,       \* scopes rendered since their dependencies last changed
  missed,      \* history: scopes whose dependencies changed before they subscribed
  misplaced,   \* history: scopes attached where another scope belonged
  careless,    \* history: a walk that had adopted or removed something panicked
  harmed       \* history: sites such a walk had adopted or removed, still in the page

resourceVars == <<live, subscribed, dirty, queued>>
walkVars == <<walk, built, adopted, removed, recovery, scopeStack>>
historyVars == <<careless, harmed>>
vars == <<tree, resourceVars, walkVars, fresh, missed, misplaced, historyVars>>

Idle == walk = <<>>
Top == walk[Len(walk)]

\* A frame: what is done at the site, the children left to remove and to
\* render, whether the user's render function is running, and whether the
\* node is at the top of a fresh subtree, which the diff places itself.
Frame(op, s, drop, todo, detached) ==
  [op |-> op, site |-> s, drop |-> drop, todo |-> todo,
   user |-> Kind[s] \in {"scope", "component"}, detached |-> detached]

\* The frame on top has gone on to its child c, to render or to remove it.
Advance(c) == [walk EXCEPT ![Len(walk)].user = FALSE, ![Len(walk)].todo = @ \ {c}]
AdvanceDrop(c) == [walk EXCEPT ![Len(walk)].user = FALSE, ![Len(walk)].drop = @ \ {c}]

Mounting(f) == f.op = "mount"

\* What a render may return below a site: a boundary has its one child.
Contents(s) == IF Kind[s] = "boundary" THEN {Kids(s)} ELSE SUBSET Kids(s)
-----------------------------------------------------------------------------
(* Removal *)

\* disposeReactive and emitRemoveTree: the objects of the page at these sites.
Disposed(S) ==
  /\ live' = live \ Old(S)
  /\ subscribed' = subscribed \ Old(S)
  /\ dirty' = dirty \ Old(S)
  /\ queued' = queued \ Old(S)

\* A mutant: a removed scope that is still dirty renders again.
DisposedButDirty(S) ==
  /\ live' = live \ Old(S)
  /\ subscribed' = subscribed \ Old(S)
  /\ queued' = queued \ Old(S)
  /\ UNCHANGED dirty

EmitRemoveTree(S) == Disposed(S)

\* Surplus children go first.
DropChild ==
  /\ ~Idle
  /\ \E c \in Top.drop :
       /\ walk' = AdvanceDrop(c)
       /\ EmitRemoveTree(Whole(c))
       /\ removed' = removed \union (Whole(c) \cap tree)
  /\ UNCHANGED <<tree, built, adopted, recovery, scopeStack, fresh, missed, misplaced, historyVars>>
-----------------------------------------------------------------------------
(* Mounting a fresh subtree *)

\* The walker enters a fresh node.  An element is bound and a component's
\* frame pushed and its effects queued before its children; a scope is
\* registered when its content is done.
Detached(f, c) == (Mounting(f) => f.detached) /\ Kind[f.site] # "element"

Enter(c, w, det) ==
  /\ \E new \in Contents(c) : walk' = Append(w, Frame("mount", c, {}, new, det))
  /\ built' = built \union {c}
  /\ live' = IF Kind[c] \in {"element", "component"} THEN live \union New({c}) ELSE live
  /\ queued' = IF Kind[c] = "component" THEN queued \union New({c}) ELSE queued
  /\ scopeStack' = IF Kind[c] = "scope" THEN Append(scopeStack, c) ELSE scopeStack
  /\ fresh' = IF Kind[c] = "scope" THEN fresh \union {c} ELSE fresh
  /\ missed' = missed \ {c}

MountChild ==
  /\ ~Idle /\ Top.drop = {} /\ Mounting(Top) /\ Top.todo # {}
  /\ LET c == Min(Top.todo)
     IN Enter(c, Advance(c), Detached(Top, c))
  /\ UNCHANGED <<tree, subscribed, dirty, adopted, removed, recovery, misplaced, historyVars>>

\* A mutant: the subscription is made by a re-render only.
RegisteredOnly(s) ==
  /\ live' = live \union New({s})
  /\ recovery' = recovery \union {s}
  /\ UNCHANGED subscribed

\* subscribeScope
Subscribed(s) ==
  /\ live' = live \union New({s})
  /\ subscribed' = subscribed \union New({s})
  /\ recovery' = recovery \union {s}

\* VisitScopeLeave attaches the scope where scopeStack's top says.
LeaveScope ==
  /\ ~Idle /\ Mounting(Top) /\ Kind[Top.site] = "scope"
  /\ Top.drop = {} /\ Top.todo = {}
  /\ Subscribed(Top.site)
  /\ misplaced' = IF ~Top.detached /\ Host(Last(scopeStack)) # Host(Top.site)
                  THEN misplaced \union {Top.site} ELSE misplaced
  /\ scopeStack' = Front(scopeStack)
  /\ walk' = Front(walk)
  /\ UNCHANGED <<tree, dirty, queued, built, adopted, removed, fresh, missed, historyVars>>

LeaveNode ==
  /\ ~Idle /\ Top.drop = {} /\ Top.todo = {}
  /\ Kind[Top.site] # "scope"
  /\ walk' = Front(walk)
  /\ UNCHANGED <<tree, resourceVars, built, adopted, removed, recovery, scopeStack,
                 fresh, missed, misplaced, historyVars>>
-----------------------------------------------------------------------------
(* Diffing against what the page shows *)

Diffing(f) == ~Mounting(f)
NextDiffed == Max(Top.todo)

\* The frame of a diff: children no longer rendered are dropped, and those of
\* the page are told from fresh ones as they are reached.
DiffFrame(op, s, new) == Frame(op, s, (Kids(s) \cap tree) \ new, new, FALSE)

ReadyToDiff ==
  /\ ~Idle /\ Diffing(Top) /\ Top.drop = {} /\ Top.todo # {}

\* old == nil: renderFresh
DiffFresh ==
  /\ ReadyToDiff
  /\ NextDiffed \notin tree
  /\ Enter(NextDiffed, Advance(NextDiffed), Detached(Top, NextDiffed))
  /\ UNCHANGED <<tree, subscribed, dirty, adopted, removed, recovery, misplaced, historyVars>>

\* A mutant: the element keeps the binding of the old render only.
NotRebound(c) == live' = live \ Old({c})

\* diffElement binds the node again.
Rebound(c) == live' = live \union Old({c})

DiffElement ==
  /\ ReadyToDiff
  /\ NextDiffed \in tree /\ Kind[NextDiffed] = "element"
  /\ Rebound(NextDiffed)
  /\ built' = built \union {NextDiffed}
  /\ \E new \in Contents(NextDiffed) :
       walk' = Append(Advance(NextDiffed), DiffFrame("diff", NextDiffed, new))
  /\ UNCHANGED <<tree, subscribed, dirty, queued, adopted, removed, recovery, scopeStack,
                 fresh, missed, misplaced, historyVars>>

\* The component is preserved: Adopt
DiffComponent ==
  /\ ReadyToDiff
  /\ NextDiffed \in tree /\ Kind[NextDiffed] = "component"
  /\ built' = built \union (Whole(NextDiffed) \cap tree)
  /\ walk' = Advance(NextDiffed)
  /\ UNCHANGED <<tree, resourceVars, adopted, removed, recovery, scopeStack, fresh, missed,
                 misplaced, historyVars>>

\* diffBoundary's diff of the child, under recover.
DiffBoundary ==
  /\ ReadyToDiff
  /\ NextDiffed \in tree /\ Kind[NextDiffed] = "boundary"
  /\ built' = built \union {NextDiffed}
  /\ walk' = Append(Advance(NextDiffed), DiffFrame("diff", NextDiffed, Kids(NextDiffed)))
  /\ UNCHANGED <<tree, resourceVars, adopted, removed, recovery, scopeStack, fresh, missed,
                 misplaced, historyVars>>

\* Running the render of a mounted scope: adopted by its parent's walk, or dirty.
UpdateFrame(s, w) == \E new \in Contents(s) : walk' = Append(w, DiffFrame("update", s, new))

\* adoptScope, up to updateScope
TakenOver(c) ==
  /\ live' = (live \ Old({c})) \union New({c})
  /\ subscribed' = subscribed \ Old({c})
  /\ dirty' = dirty \ Old({c})

AdoptScope ==
  /\ ReadyToDiff
  /\ NextDiffed \in tree /\ Kind[NextDiffed] = "scope" /\ <<NextDiffed, "old">> \in live
  /\ TakenOver(NextDiffed)
  /\ UpdateFrame(NextDiffed, Advance(NextDiffed))
  /\ built' = built \union {NextDiffed}
  /\ adopted' = adopted \union {NextDiffed}
  /\ fresh' = fresh \union {NextDiffed}
  /\ missed' = missed \ {NextDiffed}
  /\ UNCHANGED <<tree, queued, removed, recovery, scopeStack, misplaced, historyVars>>

\* A scope of the page that is no longer registered is replaced.
ReplaceScope ==
  /\ ReadyToDiff
  /\ NextDiffed \in tree /\ Kind[NextDiffed] = "scope" /\ <<NextDiffed, "old">> \notin live
  /\ EmitRemoveTree(Whole(NextDiffed))
  /\ removed' = removed \union (Whole(NextDiffed) \cap tree)
  /\ \E new \in Contents(NextDiffed) :
       walk' = Append(Advance(NextDiffed), Frame("mount", NextDiffed, {}, new, Kind[Top.site] # "element"))
  /\ built' = built \union {NextDiffed}
  /\ scopeStack' = Append(scopeStack, NextDiffed)
  /\ fresh' = fresh \union {NextDiffed}
  /\ missed' = missed \ {NextDiffed}
  /\ UNCHANGED <<tree, adopted, recovery, misplaced, historyVars>>

\* adoptScope, after updateScope
AdoptEnd ==
  /\ Len(walk) > 1 /\ Top.op = "update" /\ Top.drop = {} /\ Top.todo = {}
  /\ Subscribed(Top.site)
  /\ walk' = Front(walk)
  /\ UNCHANGED <<tree, dirty, queued, built, adopted, removed, scopeStack, fresh, missed,
                 misplaced, historyVars>>
-----------------------------------------------------------------------------
(* Re-renders *)

\* reRenderScope of a scope the flush found dirty.
ReRender(s) ==
  /\ Idle
  /\ <<s, "old">> \in dirty
  /\ dirty' = dirty \ Old({s})
  /\ IF <<s, "old">> \in live
     THEN /\ UpdateFrame(s, <<>>)
          /\ built' = {s}
          /\ fresh' = fresh \union {s}
          /\ missed' = missed \ {s}
     ELSE UNCHANGED <<walk, built, fresh, missed>>
  /\ UNCHANGED <<tree, live, subscribed, queued, adopted, removed, recovery, scopeStack, misplaced, historyVars>>

\* The objects the walk made are those of the page from now on.
Settle(R) == {<<r[1], "old">> : r \in R}
WalkEnds ==
  /\ walk' = <<>> /\ built' = {} /\ adopted' = {} /\ removed' = {}
  /\ recovery' = {} /\ scopeStack' = <<>>

Commit ==
  /\ Len(walk) = 1 /\ Top.drop = {} /\ Top.todo = {}
  /\ tree' = (tree \ Whole(Top.site)) \union built
  /\ live' = Settle({r \in live : r[2] = "new"}) \union {r \in live : r[2] # "new"}
  /\ subscribed' = Settle({r \in subscribed : r[2] = "new"}) \union {r \in subscribed : r[2] # "new"}
  /\ dirty' = Settle({r \in dirty : r[2] = "new"}) \union {r \in dirty : r[2] # "new"}
  /\ queued' = Settle({r \in queued : r[2] = "new"}) \union {r \in queued : r[2] # "new"}
  /\ WalkEnds
  /\ misplaced' = misplaced \cap tree'
  /\ harmed' = (harmed \cap tree') \ {s \in built : <<s, "new">> \in live}
  /\ UNCHANGED <<fresh, missed, careless>>
-----------------------------------------------------------------------------
(* Panics *)

\* The frame whose recover catches a panic: the innermost boundary, or the
\* re-render itself.
Catcher == Max({1} \union {i \in DOMAIN walk : Kind[walk[i].site] = "boundary"})

\* The owner a frame made by the walk hangs off: the innermost adopted scope
\* around it, whose owner is not linked to the one above.
OwnerOf(c) == Max({0} \union (adopted \cap Ancestors[c]))

\* Owners that are disposed as the panic unwinds to the catcher: those of the
\* updates it leaves and of the catcher itself.
Unwound(i) ==
  {walk[j].site : j \in {k \in i..Len(walk) : walk[k].op = "update"}} \union {OwnerOf(walk[i].site)}
    \union (IF i = 1 THEN {0} ELSE {})

\* What abandon releases below a site: scopes subscribed by the walk, frames
\* below a disposed owner, bindings of nodes the walk made.
Abandoned(i, S) ==
  {r \in New(S) :
     \/ Kind[r[1]] = "scope" /\ r[1] \in recovery
     \/ Kind[r[1]] = "component" /\ OwnerOf(r[1]) \in Unwound(i)
     \/ Kind[r[1]] = "element"}

\* A mutant: abandon forgets the nodes the walk bound.
AbandonedScopesOnly(i, S) == {r \in New(S) : Kind[r[1]] # "element"}

Released(i, S) == Abandoned(i, S)

\* No adoption or removal below the catcher can be undone.
Harmless(S) == (adopted \union removed) \cap S = {}

\* What the walk made below these sites and nobody released.
Orphaned(R, S) == (R \ New(S)) \union {<<r[1], "orphan">> : r \in R \cap New(S)}

\* childMuts is discarded.
Discarded(b) == Below(b)

RenderPanics ==
  /\ ~Idle /\ Top.user
  /\ careless' = (careless \/ ~Harmless(Below(walk[Catcher].site)))

\* VisitErrorBoundary and diffBoundary: the boundary shows its fallback, and
\* what it showed before is removed.
CaughtByBoundary ==
  /\ RenderPanics
  /\ Catcher > 1
  /\ LET b == walk[Catcher].site
         gone == Released(Catcher, Below(b))
         shown == IF Mounting(walk[Catcher]) THEN {} ELSE Below(b)
         left(R) == Orphaned(R \ (gone \union Old(shown)), Below(b))
     IN /\ live' = left(live)
        /\ subscribed' = left(subscribed)
        /\ dirty' = left(dirty)
        /\ queued' = left(queued)
        /\ built' = built \ Discarded(b)
        /\ removed' = removed \union (shown \cap tree)
        /\ recovery' = recovery \ Below(b)
  /\ walk' = SubSeq(walk, 1, Catcher - 1)
  /\ UNCHANGED <<tree, adopted, scopeStack, fresh, missed, misplaced, harmed>>

\* reRenderScope contains the panic: the scope keeps what it shows.
CaughtByReRender ==
  /\ RenderPanics
  /\ Catcher = 1
  /\ LET gone == Released(1, Below(walk[1].site))
         left(R) == Orphaned(R \ gone, Sites)
     IN /\ live' = left(live)
        /\ subscribed' = left(subscribed)
        /\ dirty' = left(dirty)
        /\ queued' = left(queued)
  /\ WalkEnds
  /\ misplaced' = misplaced \cap tree
  /\ harmed' = harmed \union ((adopted \union removed) \cap tree)
  /\ UNCHANGED <<tree, fresh, missed>>
-----------------------------------------------------------------------------
(* User code outside renders, and between the steps of a walk *)

Rendered(s) == Kind[s] = "scope" /\ (s \in tree \/ s \in built)

\* A mutant: a walk under way swallows the mark.
MarkDirtyWhenIdle(s) == dirty' = IF Idle THEN dirty \union {r \in subscribed : r[1] = s} ELSE dirty

MarkDirty(s) == dirty' = dirty \union {r \in subscribed : r[1] = s}

\* A dependency of a scope changes: whoever is subscribed is marked dirty.
Write(s) ==
  /\ Rendered(s) /\ s \in fresh
  /\ fresh' = fresh \ {s}
  /\ MarkDirty(s)
  /\ missed' = IF \E r \in subscribed : r[1] = s THEN missed ELSE missed \union {s}
  /\ UNCHANGED <<tree, live, subscribed, queued, walkVars, misplaced, historyVars>>

\* RunEffects, once the mutations of the flush are applied.
RunEffects ==
  /\ Idle
  /\ queued # {}
  /\ queued' = {}
  /\ UNCHANGED <<tree, live, subscribed, dirty, walkVars, fresh, missed, misplaced, historyVars>>

\* Unmount removes the whole page.
Unmount ==
  /\ Idle /\ tree # {}
  /\ EmitRemoveTree(Sites)
  /\ tree' = {}
  /\ UNCHANGED <<walkVars, fresh, missed, misplaced, historyVars>>

\* Mounted: the outermost scope, which rendered nothing yet.
Init ==
  /\ tree = {1}
  /\ live = Old({1}) /\ subscribed = Old({1}) /\ dirty = {} /\ queued = {}
  /\ walk = <<>> /\ built = {} /\ adopted = {} /\ removed = {} /\ recovery = {} /\ scopeStack = <<>>
  /\ fresh = {1} /\ missed = {} /\ misplaced = {}
  /\ careless = FALSE /\ harmed = {}

Next ==
  \/ \E s \in Sites : ReRender(s) \/ Write(s)
  \/ DropChild \/ MountChild \/ LeaveScope \/ LeaveNode
  \/ DiffFresh \/ DiffElement \/ DiffComponent \/ DiffBoundary
  \/ AdoptScope \/ ReplaceScope \/ AdoptEnd \/ Commit
  \/ CaughtByBoundary \/ CaughtByReRender
  \/ RunEffects \/ Unmount

Spec == Init /\ [][Next]_vars
-----------------------------------------------------------------------------
(* Properties *)

(* Between walks nothing outside the page is registered, subscribed, bound *)
(* or waiting to run: every way a part leaves the page or fails to enter   *)
(* it releases all it held (emitRemoveTree, abandon, DisposeFrameTree).    *)
(* A walk that panicked after it adopted or removed something may leave    *)
(* orphans, and they never render: at no time is a scope dirty that was    *)
(* removed, adopted or abandoned (CancelDirty).                            *)
NothingLeaks ==
  /\ Idle => /\ live \union queued \subseteq Old(tree) \union (IF careless THEN Sites \X {"orphan"} ELSE {})
             /\ subscribed \subseteq Old(tree)
  /\ dirty \subseteq subscribed

(* Between walks everything in the page works: every scope is registered   *)
(* and subscribed, every component's frame is live, every element bound    *)
(* (adoptScope, diffElement, VisitErrorBoundary), but for what a walk had  *)
(* adopted or removed before it panicked.                                  *)
PageIsAlive ==
  Idle => /\ Old({s \in tree \ harmed : Kind[s] # "boundary"}) \subseteq live
          /\ Old({s \in tree \ harmed : Kind[s] = "scope"}) \subseteq subscribed

(* With no scope dirty, every scope of the page has rendered since its     *)
(* dependencies last changed, unless they changed before it subscribed.    *)
ContentIsLatest ==
  Idle /\ dirty = {} => \A s \in tree : Kind[s] = "scope" => s \in fresh \union missed \union harmed

(* A boundary that catches a panic leaves the rest of the page intact: the *)
(* scope around it is attached where it belongs.                           *)
RestStaysInPlace == misplaced = {}
=============================================================================
