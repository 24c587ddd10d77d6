# Goowee in TLA+

Goowee compiles Go programs to WebAssembly and keeps a browser's document in step with
reactive state. This directory models the parts of it whose correctness depends on order:
the notification engine, the render loop, asynchronous loads, sockets and streams, the
renderer's walks, the diff, the router, and a page from the server's HTML to the running client.
TLC checks the models on small instances; TLAPS proves the invariants of signals, Computeds, the loop,
resources, the network, the renderer's walks, the router and a page's files for every instance.

`PROJECT.json` lists the components, the runs, the map from definitions to source lines, the
hazards, the findings and the theorems. Source paths below are relative to the repository.

## 1. The system

A Goowee page is one Go program on the browser's event loop. A *signal* holds a value; user
code sets it; its subscribers run. Subscribers are bindings (which enqueue mutations of the
document), scopes (which ask to be re-rendered), Computeds, watches and effects. The
*scheduler* collects what they ask for until a *frame*, in which callbacks posted by
goroutines run, dirty scopes render, the batch of mutations is sent to JavaScript and applied,
replies to reads are resolved, and effects run. Everything on the loop is sequential; what makes it hard
is that it is re-entrant (a subscriber may set, subscribe, unsubscribe, batch, panic), that
goroutines meet it at the inbox, and that the browser decides when frames come.

### Components

| component | state | operations | interacts with |
|---|---|---|---|
| Signals and batches (`core/signal.go`, `core/batch.go`, `core/observability.go`) | value, version, subscriber slice with dead entries, `notifying`, `dirty`, `queued`; the global batch depth and queue | Get, Set, Subscribe and its undo, Batch, Recover, notify, compact | calls subscribers, which call back |
| Computed (`core/computed.go`) | cached value, versions of deps, subscriptions while observed, value last notified | stale, refresh, activate, deactivate, onDepChange | is a signal; subscribes to signals |
| Scheduler and bridge (`core/scheduler.go`, `bridge/wasm.go`) | inbox, mutation queue, dirty scopes, pending reads, effects; whether a frame is requested | Post, MarkDirty, CancelDirty, Enqueue, Read, Resolve, QueueEffect, RunEffects, Flush; the frame callback, visibilitychange | goroutines, renderer, browser |
| Resources (`hooks/use_resource.go`, `watch.go`, `use_effect.go`) | generation, cancel function, Data, Loading and Err signals | load, stop, Refetch, the callback of a fetch | signals, effects, goroutines, inbox |
| Sockets (`net/socket.go`) | closed, generation, connection, open, timer, failures | Dial, Close, Send, opened, message, ended, reconnect | transport callbacks, timer, inbox; any goroutine may call Close |
| Event streams (`net/subscribe.go`) | closed, connection | Subscribe, Close, callbacks | as sockets |
| Renderer (`internal/dom/renderer.go`) | node tree, scopes with subscriptions and frames, recovery scopes | render, re-render, adopt, recover, dispose | signals, scheduler, ownership |
| Diff (`internal/dom/diff.go`) | none | positional and keyed children, moves from a longest increasing subsequence | renderer, bindings |
| Ownership (`internal/runtime`, `hooks`) | owners, frames, disposers, hooks, bindings | push and pop owners, queue effects, bind, unbind, clean up | renderer |
| Events (`internal/dom/node_registry.go`, `runtime/goowee.js`) | handlers by node id; queued events | register, dispatch, forget; coalesce | JavaScript, signals |
| Hydration (`internal/walker`, `ssr`, `runtime/goowee.js`) | node ids, claimed nodes | walk, render to HTML, claim | server and client |
| Flow helpers (`h/flow.go`) | For's rows by key | render a list again, reuse, remount | scopes, diff |
| Router (`router`) | path, params and query signals, compiled routes | Navigate, SetQueryParam, Route, SubRoute, Guard, Lazy | history, signals, scopes |
| Files (`core/file.go`, `runtime/goowee.js`) | handles | stash, read, forget | reads |

Builders of elements (`h`), the byte layout of mutations, storage, development checks, the test harness and the examples keep
no state whose order matters; they are not modelled, and `PROJECT.json` says so one by one.

### What makes each part correct

- **Signals.** When everything has returned, every subscriber has seen the last value. A pass
  runs exactly the subscribers that were live as it began and still are. No subscriber runs
  inside a Batch. A panic leaks no mark.
- **Computeds.** Reads are current. The Computed is subscribed to its deps exactly while
  somebody observes it. Observers are told of every change, once per update.
- **Frame loop.** Work never waits without a frame, and a requested frame comes. Effects
  follow the mutations they were queued with. A read is answered once. Removed scopes do not
  render. Posted callbacks run once, in order.
- **Resources.** Only the newest load's result is shown. Superseded fetches are cancelled. Loading tells
  whether a fetch is in flight.
- **Sockets.** No connection outlives Close. A user sees open, messages, close, in that order,
  per connection. A connection that ends is made again. Streams: the same, and a failure is told.
- **Renderer, ownership.** A scope in the tree is subscribed to what it read; nothing that was
  removed is still subscribed; what the document shows is the last value.
- **Diff, For.** The moves turn the old children into the new ones, and are the fewest. A keyed row
  keeps its node; a row shows its item.
- **Router, hydration, events, files.** Params belong to the path that matched; the client claims
  the nodes the server meant; events reach handlers of nodes that exist; a handle is not released
  while it is read.

## 2. Modules

| module | models | state and actions |
|---|---|---|
| `Signals` | `core/signal.go`, `core/batch.go`, `Recover` | one variable per field of all signals; the Go call stack as a sequence of frames, innermost first; user code is any program of Set, Subscribe, Unsubscribe, Batch, Recover, return and panic |
| `SignalsProofs` | | theorems about `Signals` |
| `Computed` (extends `Signals`) | `core/computed.go` | adds the cached versions and the value last notified; a Computed is a signal, its subscription to dep `k` the listener `<<c, k>>` |
| `ComputedProofs` | | theorems about `Computed`, for any graph of deps |
| `Inbox` | the promise of `core.Schedule` | a queue whose callbacks run once, in order |
| `FrameLoop` | `core/scheduler.go`, `bridge/wasm.go` | fields of the scheduler, browser callbacks pending, and the phase of the frame; goroutines' Post is two steps |
| `FrameLoopProofs` | | theorems about `FrameLoop` |
| `Latest` | the promise of `hooks.Resource` | the newest load and the one shown |
| `Resource` | `hooks/use_resource.go` | fields of a resource, fetches, posted callbacks, and loads in progress |
| `ResourceProofs` | | theorems about `Resource` |
| `SocketEvents` | the promise of `net.SocketOptions` | the state of a connection and the callback running |
| `Socket` | `net/socket.go` | fields of a socket, three goroutines, the transport and the timer |
| `SubscriptionEvents` | the promise of `net.SubscribeOptions` | the state of a stream and the callback running |
| `Subscription` (extends `Socket`) | `net/subscribe.go` and the EventSource of `net/browser_js.go` | fields of a subscription and its stream, on the loop that also serves the socket |
| `NetworkProofs` | | theorems about `Socket` and `Subscription` together |
| `Scopes` | walks of `internal/dom/renderer.go`, `internal/dom/diff.go` | what each site of a tree holds, the stack of frames of the walk under way; one action per node entered, left, diffed, adopted, removed, or panicking |
| `ScopesProofs` | | theorems about `Scopes` |
| `ChildNodes`, `ChildDiff` | roots and removal in `internal/dom/renderer.go`; the diff of a child list in `internal/dom/diff.go` | operators, one per function of the source; `ChildDiff` takes `diffNode` as a constant |
| `KeyedDiff` | `diffNode`, `runtime/goowee.js:518-607` | the mounted child list of a scope, the components of it that are disposed, and the children of its DOM parent; one action, a re-render |
| `For` (extends `KeyedDiff`) | `h/flow.go:34-109` | the items and the rows remembered by key; a new list, the scope's render, the render of the scope around, a render that panics before the diff or in the middle of it |
| `Router` | `router/router.go`, `router/history_js.go`, `router/base.go` | the browser's history entries; Path, Query, params, NotFound; calls that have set a signal and have yet to write the history; the scopes that render routes and what each shows |
| `RouterProofs` | | theorems about patterns, queries and the URL, and about what the scopes show |
| `Dom` | `applyMutations`, `forget` in `runtime/goowee.js` | operators over a document: children of every holder, texts, the table from ids to nodes, server nodes not yet claimed |
| `Hydration` (extends `Dom`) | `ssr/renderer.go`, `internal/walker/walker.go`, `hydrateOnce` | a page rendered by the server or not; the client's first render, frames, bindings, and a scope that renders again |
| `Events` (extends `Hydration`) | `internal/dom/node_registry.go`, the event queue and file store of `runtime/goowee.js`, `core/file.go` | handlers, coalesced events, files parked under nodes and their handles |
| `EventsProofs` | | theorems about the files of `Events` |
| `MC*` | | values of constants, symmetry, views and fairness for TLC |

### Signals

`subs[s]` is the slice of subscribers with its dead entries, so that compaction and the
indices of a pass mean what they do in the code: `notify` remembers `i` and `n`, and a slice
that were compacted under it would make it skip or repeat. A subscriber that runs is a frame
of op `call`, and whatever user code does happens on top of it. A panic sets `panicking`, which
pops frames; `endBatch` and the deferred function of `notify` run while it does, as Go's
`defer` has them. An empty stack is the loop between handlers, and stands for the recover every
handler runs under (`internal/dom/node_registry.go:97`). `Update` is a Set. Equality functions
are abstracted to equality.

Three variables are history. `seen` is what a listener last read, `cut` the signals whose last
notification a cycle or a panic stopped, `stranded` those a panic dropped from the queue
of an ending Batch.

### Computed

A version only grows, so a Computed that remembers the version of a dep either still knows it
or never will again: `known[c]` is the set of deps it knows. Evaluating, subscribing and unsubscribing
recurse through the deps and run no user code but the compute functions, so each is one step
(`Refreshed`, `Subscribed`, `Unsubscribed`). They are recursive functions on the signals, whose
results are functions on the state (`Store`): `Through` passes the state from dep to dep. Compute functions read their deps and do nothing
else. The run leaves the panics of listeners, handlers and Batches to `Signals`, to stay small; `ComputedProofs` has them (`PanickyNext`).

A read or an activation may give a Computed a new value before the notification of the same change reaches it. `seen` (from `Signals`)
is what each listener really read, when it was called or when it subscribed, and `ObserversAreTold` compares that with the current value.
The code has one gap there. `onDepChange` compares the value with the one it told last (`core/computed.go:92`), so a value that changes and returns
before the notification tells nobody. A listener that subscribed in between, or a Computed that was evaluated in between, keeps the value in the
middle. `took` is the history of exactly those: who reads a value of a Computed that it has not told its observers, until the Computed tells them of something.

### FrameLoop

The phases are those of the frame callback: `posted` and `render` inside `Flush`, `apply` for the
mutations on the JavaScript side, `reply` for Resolve, `effects`. User code may mark scopes, write and
read in each of them outside renders; `signalWork` and `OnWork` are called where the code calls
them. What a render does to the scopes inside it is any combination of unmounting, adopting and mounting that
leaves a tree; `Scopes` is the renderer itself. `Coalesced` keeps the positions of all but the writes that a later
write to the same property supersedes (`SelectAt`), which is what `coalesce` does to mutations with equal
node, kind and key.

`OnWork` requests an animation frame, or a timer when the page is hidden; `visibilitychange` moves a request
to a timer and leaves the animation frame pending, so two callbacks may come for one
request and the second finds `scheduled` false.

### Resource

Handlers, effects and posted callbacks run in a Batch. So `Mount` and the callback of a fetch
(`RunPosted`) are one step each: the signals they set notify nobody until they are
over. Subscribers run after that, outside of the Batch: a load they start sets Loading, whose
subscribers run before it sets Err, whose subscribers run before it starts its fetch.
`stack` holds such loads. A subscriber may start another load there, or panic.
`Running` says whether setting a signal runs its subscribers: not if the value is the same, nor
if they are already running further out. The batching matters: were the callback not batched, a subscriber of
Err that retries would find Loading true, and the callback would then reset it during the new fetch.

### Socket and Subscription

The goroutines of a socket are `user` (in Dial), `closer` (in Close) and `loop`. `pc` says between which
two steps each is: the mutex is free there, or user code or the transport runs. The transport may fail at
once, connect, deliver, drop, and close late. How long the timer waits, and the count of
failures that decides it, are left out: they change no order.

`Subscription` adds a stream to the same render loop: `posted` holds the events of both, and a callback of
one runs while events of the other arrive. Subscribe returns the subscription when it has stored its stream, so
Close comes after it; what can come between is an event, an error or a failure the transport posts. The
EventSource opens, drops and connects again by itself, or gives up; `Again` and `GaveUp` are the two kinds of
error the browser's transport tells apart.

### Scopes

The page is a tree of sites; what is rendered at a site comes and goes, any way a render function may
decide (`Contents`). A walk, that is a re-render with the mounts, diffs, adoptions and removals inside it,
is a stack of frames and takes a step per child, so that `Write` (a signal a scope depends on changes: from a
render, a cleanup, a binding) falls between any two steps, and a panic may come where user code runs.
`live`, `subscribed`, `dirty` and `queued` say what each object holds: the object of the page, or the one the walk
made for the same site. `LeaveScope` registers and subscribes a scope when its content is there
(`VisitScopeLeave`), `AdoptScope` ... `AdoptEnd` update an adopted scope before they subscribe it, `CaughtByBoundary` and
`CaughtByReRender` abandon what a panicked walk had made, `Commit` ends a re-render.

The history variables exempt what the code does lose, no more: `missed` the scopes whose dependencies changed while they
mounted, before they subscribed; `careless` and `harmed` walks that panicked after they had adopted or removed
something, and the sites they did that to.

### KeyedDiff

A re-render is one call and its mutations are one batch, so `Rerender` is one step: match (`Match`), remove
what is unpaired, diff from last to first, place. `DiffChildren` is both `diffChildrenKeyed` and
`diffChildrenPositional`: matches by position are in order, so the longest increasing subsequence is all of them and only
fresh nodes are placed. It is instantiated twice, for the list and for the content of
what the list holds; content is elements, so no recursion is needed. Fragments are not there: `FlatTree`
has dissolved them. The browser's side decides by where the reference *is*, as `moveNode` is called; that is how a
portal, whose container Go does not know, places its content. A boundary with one child diffs it with the one before, whatever their
keys (`DiffBoundary`); only when both hold several are they lists. Attributes, text, handlers and bindings of an element are
left out, and so is a panic in a boundary.

### For

A row is a node with the item it shows. `Row` is what For renders for an item: the remembered node if the item
is the same, else a new one, with a key of a new generation if it is a plain component. What the document ends up showing
is decided by `KeyedDiff`: an element takes the new node's item, a component with props has it delivered
(`Adopted`), a plain component keeps the item it was created with. `ParentRenders` makes a new For, with an empty memory,
whose scope adopts the old one's rows. `forgotten` is history: plain rows of the page that For had no memory of when it rendered,
which may keep an older item.

`UpdatePanics` is a render of For's scope that panics. In `RenderPanics` user code does so while the rows are made, and nothing has changed yet. In `MountPanics(j)` it is
the j-th row's code, as the diff mounts it: the memory has been replaced (`h/flow.go:99`), every unpaired row has been removed (`diff.go:436-440`) and the rows after the
j-th are diffed, with their props delivered. The re-render's mutations are discarded and the mounted list stays (`renderer.go:504-530`), so
components that were disposed are still listed: `disposed`. A later render that finds the key of such a row adopts it (`core/node.go:235-241`), and it goes on showing what it
showed, as its props signal has no bindings left. Not modelled is a panic of a render of the scope around, which adopts For's scope.

### Router

A path is a sequence of segments, a pattern a sequence of literals, parameters and a final `*`. `Precedes` is
the comparison by which a Route picks among the patterns that match.

The URL is what the browser makes of the text it is given (`Url`). It spells some segments differently (`Escapes`: a space is `%20`), and cuts a path at
a `?` or a `#` (`Cuts`), whose rest it takes for the query or drops. `location.pathname` then reads the spelled and cut path: after a reload, or back and forth, `/a b` is
another Path than the one the application navigated to. A query that SetQueryParam puts behind such a path joins the one that is there (`Joined`).

`Navigate` sets Path, whose subscribers run before the history is written (`router.go:61-66`), unless a Batch is open. `GoTo` therefore either writes at once or leaves
a call in `writing`, and `Finish` writes it when the subscribers are done; while it waits they may navigate and set query parameters. So does `SetQueryParam` with
Query, and popstate between its two Sets (`history_js.go:58-60`). A Path or Query that is notifying keeps a nested Set for later and returns, so at most one
call per signal waits (`MayWait`). The handler of a redirect does the same while it renders; there the subscriber's navigation is part of the render's step (`AfterHandler`, `HandlerNavigates`),
and its `replaceState` is done whether or not Path changed. `crossed` is history: the URL was written for a path that Path had left by then; `behind`: it was written without
Query, or with what cannot be read back from it.

Traversals (`popstate`; Back and Forward are among them) and a load of the page change the entries, Path and Query and mark every scope that depends on Path;
`RenderRoute`, `RenderNested` and `RenderSide` are one scope's render: it matches, fills `params`, sets NotFound, and runs the handler, which may navigate
elsewhere (`Redirects`), mount a SubRoute (`Nested`), panic, be Lazy or be guarded. Scopes render
outermost and earliest first, in passes, as `FrameLoop` has it.

### Dom, Hydration, Events

A page is a tree of sites as in `Scopes`, here with node ids and mutations. `NumberedOnServer` and `Boot` give each
node its id by the order each side walks in, `ServerDocument` (what the HTML becomes) by what the server writes: markers before texts,
anchors, head tags, nothing for portals. `Boot` is the client's first render, which claims the server's nodes or makes its own;
`Frame` applies it with what bindings wrote since; `ReRender` is a scope whose content goes, comes or stays. An id that finds no node
of its kind gets one that hangs nowhere, and is then `lost`. `stale` holds head tags a later render replaced.

`QueueEvent` keeps one event of a type and target waiting (`scroll`, `pointermove`), `Deliver` is the animation frame; other events are
delivered at once and are only of interest for their files. `Pick`, `Change` and `Paste` are the input event with its selection, the change
event that follows it, and a paste or a drop.

## 3. Runs

| run | question | bounds | result |
|---|---|---|---|
| `signals` | are notifications lost, duplicated, or run inside a Batch; do panics leak marks | 2 signals, 2 listeners, 2 values, user code 3 calls deep, 2 passes | holds |
| `signals_stranded` | does each signal written in a Batch notify | same, 2 calls deep | violated |
| `computed` | are reads, activation and notification right in a diamond | 1 source, 2 Computeds, 2 observers | holds |
| `frames` | does work wait without a frame; effects, reads, scopes; is everything handed to the loop done | 1 task, a read, an effect, a property, 2 nested scopes, 2 passes, 2 writes queued, 2 callbacks | holds |
| `resource` | newest result, cancellation, Loading | 4 loads nested to any depth | holds |
| `network` | leaks, order of callbacks, reconnection, failures told | a socket of 2 attempts and a stream that drops once, 2 callbacks waiting | holds |
| `keyed_diff` | do order, identity, portals and rows come out right, with the fewest moves | every re-render from every list to every other: reorders of 4 keys, rows with 2 keys, 2 tags or no key up to 3 long, all kinds up to 2; For with 5 items of 2 keys and panics at any row | holds |
| `router` | do URL, signals, params and pages agree | 4 patterns, a nested and 2 standalone SubRoutes that share names, 3 paths of which a URL spells one and cuts one, 2 history entries, 1 call that waits | holds |
| `scopes` | does anything leak, go deaf or show old content | 7 sites: 3 scopes, a component, 2 elements, a boundary | holds |
| `scopes_in_place` | does a caught panic leave the rest of the page intact | same | violated |
| `page` | is the document the client's tree; events, files | 10 sites, 2 values of a text, 14 ids, 1 binding's write and 1 event waiting, 2 file handles | holds |
| `page_texts` | is every text claimed | same | violated |

Why the bounds are enough to mean something:

- *Signals.* Three calls of user code on the stack give a write inside a subscriber inside a Batch, and a
  Batch inside a subscriber inside the delivery of another. Two listeners are needed for one
  to remove or precede the other; a second signal for a queue with a rest. With 2 passes
  (1000 in the code) the bound is reached and `cut` is exercised. `MaxStack` bounds user calls only; the frames
  of the engine come on top.
- *Computed.* `low = 1 - src` and `same = src * (1 - low)`: a change of the source reaches `same` on two paths,
  and a value computed from one new and one old dep is wrong and visible. `MaxEntries` bounds the slices, with room
  for a dead entry beside the live ones. Two observers are one that was there and one that comes in between.
  The view leaves out what no step reads again: what a Computed told last, once nobody observes it, and a stale value whose version nobody knows. 690,000 states.
- *FrameLoop.* `MaxQueue` 2 lets two writes coalesce around a read; `MaxCallbacks` 2 lets an animation frame and a timer be
  pending for the same request. The scopes are nested, so each can be unmounted,
  adopted or marked while the other is in the pass. With one task, order among posts is not seen; the theorems cover any number.
- *Resource.* Three loads in progress and one fetch, or the other way round, with Mount and Unmount beyond the bound of user
  loads. Deadlock is allowed: an unmounted resource stops.
- *Network.* Events of a superseded connection can wait while the next lives, and an event of the stream between them. The last attempt is assumed to stay open until
  Close, which bounds the run; deadlock is allowed after both were closed.
- *KeyedDiff, For.* Four rows make the subsequence's predecessor links matter; three with duplicates and missing keys make queues
  with rests; pairs put each kind before and after each other. Items of one key are shown by plain components or by an element, those of the
  other by components with props; `MaxGen` 1 lets each be remounted. A list of two rows, one that goes and one that comes, is enough for a panic to leave a disposed row, and a
  third list to bring its key back. Ids grow with each re-render, so the view replaces each by
  the places of its node in the document.
- *Router.* Two entries are a forward and a back; the patterns overlap so that a literal, a parameter and a wildcard
  compete, and the two SubRoutes match paths with and without the Route. Both have `:id`, and one shares `:repo` with the nested one. Of the paths, `/org/a b/r` is spelled differently,
  `/old?y=1` is cut, `/old` redirects. With `MaxWaiting` 1 a call waits while others, in its subscribers, write at once; calls that wait in calls that wait
  are left to the theorems. 950,000 states.
- *Scopes.* A scope in an element of a scope gives adoption below a diff; a scope in an element in a boundary gives a panic inside a mount that
  something further out catches. Deadlock is allowed: a page can be unmounted.
- *Page.* 14 ids let the content of the scope be rendered about twice. Every kind of node is there: elements, a dynamic one with a text, raw HTML, a fragment, a portal nested in
  the dynamic element, head metadata, a scope. The ids are
  bounded, so the run ends: deadlock is allowed.

Each property of a passing run is paired in `PROJECT.json` with a mutation of one definition
(marked "A mutant" in the modules) that breaks it: a dropped guard, a pass too many, a mark not
cleared. They show that the property can fail.

### Fairness

- `FrameLoop`: a frame once begun runs to its end; a goroutine in Post reaches OnWork; timers
  fire; animation frames come while the page is visible. Nothing is assumed of `Show`: a page may stay hidden for ever.
- `Resource`: the loop goes on, the effect of a mounted component runs, fetches return (their
  context lets them; a fetch that never returns loads for ever, as the code says).
- `Subscription`: goroutines go on, the loop runs what is posted, the timer fires. The transport owes nothing.

The others are checked for safety only; that cascades of signals end is the bound on passes.

### Findings

1. **A subscriber's panic strands the rest of a Batch** (`signals_stranded`, `core/batch.go:44`). The queue being
   delivered is a local; a panic drops it with `queued` still set, so later Batches skip
   those signals. A Set outside of a Batch still notifies.
2. **A caught panic displaces the scope around its boundary** (`scopes_in_place`, `internal/dom/renderer.go:382`).
   `VisitErrorBoundary` restores most of the renderer's stacks and not `scopeStack`; the scope around takes the
   place of the one that panicked, and is attached to an element of the abandoned render.
3. **A text that starts empty is never seen** (`page_texts`, `runtime/goowee.js:228`). The server writes its marker and no
   text node; there is nothing to claim, and later values go to a node that hangs nowhere.

The models have more behaviour that a doc or a reader might not expect. No run checks the following; the properties
exempt exactly these cases, or do not reach them.

- Loop: a cascade that reaches `maxDirtyPasses` leaves a scope dirty with no frame requested, and marking it again
  requests none (`core/scheduler.go:200`; `gaveUp`).
- Resources: an early load survives its component (`hooks/use_resource.go:58`): deps are watched from the render on, the
  cancelling cleanup exists only once the effect ran. A panic of a subscriber of Loading, during a load outside of a
  Batch, leaves Loading true without a fetch (`aborted`).
- Sockets: a callback can follow Close (`net/socket.go:175`): `closed` is read under the mutex, the callback called
  after. It takes goroutines that really interleave there, as native builds and tests have.
- Computeds: a value that changes and returns before its notification is told to nobody, also not to a listener that subscribed in between or to a
  Computed that was evaluated in between, although a read "can never swallow a pending notification" (`core/computed.go:47-50, 92`; `took`). E.g. in a Batch: the source is set,
  a listener reads and subscribes to a Computed others observe already, the source is set back.
- Diff: a portal or a boundary beside a keyed row is rebuilt (`internal/dom/diff.go:585`): `typeCompatible` has no case
  for them, so in a list with any key they match nothing, and what they hold loses its state.
- For: when the scope around renders in the flush in which the items changed, a plain component row keeps showing its old item,
  although `h/flow.go:48-55` says it is remounted: the new For has no memory of the row and gives it its plain key (`forgotten`). Rows of a
  later generation are remounted by such a render without any change (against `h/flow.go:40-43`). Component rows that a diff removed before a later row's
  mount panicked stay in the list, dead, and show their old item when their key returns (`internal/dom/diff.go:436-440`, against `h/flow.go:52-53`; `disposed`).
- Scopes: a dependency written while a scope mounts is missed, for it subscribes afterwards (`internal/dom/renderer.go:424-454`; `missed`). In the router this is a
  redirect by the first render of a Route. An adopted scope whose update panics leaves an orphan; parts that an abandoned walk
  had removed stay in the page and are dead; components mounted afresh below an adopted scope in a walk that fails are not disposed
  (`careless`, `harmed`).
- Router, URL: a subscriber of Path that navigates writes its URL before the navigation that notified it, which overwrites it: the address bar then shows a path the router has left
  (`router/router.go:61-77`; `crossed`); SetQueryParam likewise with Query (`behind`). A path with a `?`, a `#` or characters a URL escapes is another Path after a reload or a traversal
  (`router/history_js.go:29-31, 58-59`). Navigate leaves Query as it was although the URL has none (`router/router.go:61-66`; `behind`), and so does a redirect to the path that is
  already there. A parameter with an empty name is written and not read back (`router/router.go:486`; `behind`). `sameParams` looks at the keys of one side
  only, so `{x: "", y: "1"}` and `{y: "1", z: "2"}` are the same one way around and Query keeps the older (`router/router.go:450-460`); UrlIsCurrent compares as the code does.
- Router, scopes: two SubRoutes with a parameter of the same name overwrite, and on a path change delete, each other's (`router/router.go:264-277`); a Lazy whose load panics stays broken (`sync.Once`); a
  SubRoute rendered before the Route loses its params; NotFound is reset by a Route only; Guard is asked when its route renders only.
- Page: a re-render of metadata after hydration leaves the server's tags in the head (`stale`); files pasted on the splash stay in the store; a paste
  of text on a file input releases the handles of its selection; a coalesced `pointermove` may come after `pointerup`; events before the
  first frame reach nobody; scopes and components inside metadata are not rendered into the head by the server; a boundary whose child
  panics in the browser only shifts the ids behind it.
- `VirtualList` (`h/virtual_list.go:48-60`), not modelled: when the list shrinks below the scrolled window, the window ends before it starts and
  `make` is called with a negative capacity (line 88); the scope keeps its old rows.

## 4. Proofs

All constants are arbitrary, subject to the named assumptions, which TLC evaluates on the runs:

- `FrameLoopAssumption`, `MutationAssumption`, `ResourceAssumption`, `SignalsAssumption`, `SocketAssumption`, `EventsAssumption`: types, kinds
  that are disjoint, positive bounds, and that the files are finitely many.
- `ComputedAssumption`: the signals are finitely many and a Computed is made after its deps, which is how Go code makes them
  (`rank`); it has a dep; `Compute` gives values; the subscription of a Computed is no listener of user code.
- `RouterAssumption`: types, positive bounds, and that no segment of a URL spells a pattern's parameter or `*`, as the model's paths are texts and
  its patterns are not.
- `ScopesAssumption`: the page is a tree whose sites are numbered in document order, the outermost a scope; a boundary has one child. `Ancestors` is
  defined by that order, without recursion.
- `PagesAssumption`: the pages the router shows without a handler are no routes of the application's.
- `SpellingAssumption`: how URLs spell and cut segments. A spelling is spelled as itself, a segment with a `?` or `#` is the last of its path (what follows would be in the query), and
  the base is given as URLs spell it, as `BindHistory` reads it from the page's `<base>`.

In each module an inductive invariant is established by one lemma per operation, and the properties follow from it. TLC checked each
invariant on its run before it was proved.

`FrameLoopProofs`. `WorkHasFrame` speaks of the idle loop only, so it is not inductive: during a frame, work may rightly be without a
request. `WorkIsCovered` says for each phase which work needs one: none of a flush's own work, but always posted
tasks whose Post has returned, and, from `apply` on, everything but effects, which this frame still runs. With
`FrameIsPending` (a request has a callback that will come) and the types it is inductive:

    FrameInv == FrameTypes /\ WorkIsCovered /\ FrameIsPending

- `WorkAlwaysHasFrame`, `RequestedFrameIsPending`: from `FrameInv`.
- `NoUnmountedScopeIsPending`: `PendingIsMounted` is inductive by itself.
- `EffectsSeeTheirDOM`, `NoReadIsLost`: from `BatchInv == BatchTypes /\ EffectsCovered /\ ReadsApart`, which follows what a frame
  carries from one container to the next. `EffectsAfterDOM` speaks of effects that run; `EffectsCovered` says of each phase where the
  nodes of one that still waits are: in the document, or created by a mutation of the queue that the next batch takes, or of
  the batch being applied. `ReadsOnTheWay` counts reads; `ReadsApart` keeps them apart, each in one container and once. Both go through
  `coalesce`: `CoalescedKeeps` says that what it drops are superseded writes only, and that it repeats nothing, from
  the rank of a position among the positions kept (`RankIsBijection`, `SelectAtKeeps`).
- `ImplementsInbox`: with `InboxInv` (tasks being drained exist only in their phase), every step maps to a Post or Run of
  `Inbox`, or stutters: taking the inbox moves tasks from `posted` to `draining` and leaves `draining \o posted` alone.

`ResourceProofs`. The invariant is

    ResourceInv == TypeOK /\ Once /\ Cancellable /\ LoadingIsCovered /\ CoveredIsLoading

`Once`: a load is on the stack, fetching or posted, in one place and once, and nowhere after it was applied or aborted.
Without it a second callback of the same load could be applied. `Cancellable`: a load that has not finished its fetch is cancelled
or is the one `stop` would cancel, which carries `SupersededIsCancelled` through nested loads. The last two are the two
directions of `LoadingIsFetching` at any depth of the stack.

- `ResourceTypes`, `SupersededFetchIsCancelled`, `LoadingTellsFetching`: from `ResourceInv`.
- `ResourceShowsLatest`: `Resource` implements `Latest`; by `Once` the load applied is newer than the one shown.

`SignalsProofs`. The invariant is

    SignalsInv == TypeOK /\ BatchInv /\ NotifyInv /\ QueueInv /\ RegisteredInv /\ PassInv /\ ToldInv

The stack of calls has no bound here but `MaxStack`, so each part speaks of a frame *and all frames below it*.
`BatchInv`: the depth counts the batches on the stack, and no notification is above one of them that has not begun to drain.
`NotifyInv`: a mark is a frame, once. `QueueInv`: a signal marked `queued` stands at exactly one place of the queue or of a drain that has it
still before it, or a panic stranded it. `RegisteredInv`: no listener has two live entries. `PassInv`: what a pass has yet to call stands at or after its index
and before its end in a slice that is not compacted under it. `ToldInv`: a live listener that has not seen the value is going to be
told: its signal waits in a queue or a pass will come to it. Compaction (`LiveOnes`) is recursion over a slice;
its facts are proved from a least counterexample among the prefixes.

- `BatchIsolationAlways`, `MarksMatchStackAlways`: from `BatchInv`, `NotifyInv`, `QueueInv`.
- `PassTodoAlways`: from `PassInv` and `RegisteredInv`. `NothingMissedAlways`: `ToldInv` with an empty stack.
- On the way: a drain never ends with signals queued behind it, so the test for it in `endBatch` never fails.

`ComputedProofs`. The invariant is

    DerivedInv == CacheInv /\ SubsInv /\ CallsInv

`CacheInv` is the memo: a Computed that knows all its deps has the value that compute makes of theirs. This holds even where a dep is itself out of date,
since the dep gets a new version when it is refreshed to another value; so a refresh leaves a *settled* set of signals, in which everybody knows their deps, and
on such a set values and `Meaning` coincide. `SubsInv`: in the slice of each dep a Computed has one live entry while it is observed and none
otherwise. Nothing in it says how many observers there are: that the first one activates and the last one deactivates, along every path of a diamond,
is what the proof shows. It needs `CallsInv`: a notification under way marks its signal, once, and its slice does not get shorter while it walks it. There an unsubscription flags
entries dead, elsewhere it drops them, and the two agree on who is live.

The recursion is along the deps. `DepsInduction` is induction over them, from the least rank of a counterexample; `DepsRecursion` shows that the
recursive functions exist (`Refreshing`, `Subscribing`, `Unsubscribing`, `Meaning`), by taking the function that is right up to each rank. `SubscribeJoins` and `UndoLeaves`
say by that induction what a subscription or its undo does to all slices: other subscribers live on as they did (`Foreign`), signals of a higher rank are
left alone, and every Computed up to that rank agrees again once the walk is over.

- `GetIsCurrentAlways`, `ObservedIsSubscribedAlways`, from `DerivedInvariant`.
- `DespitePanics`: both hold if listeners, handlers and Batches panic as well, under a `Recover` or not.

`NetworkProofs`. `SocketInv` is stated for three goroutines in any interleaving. What makes it inductive: an attempt that is
up is `conn`, or a call under way keeps it or drops it (`Owned`); only one call dials an attempt (`CallsFit`); a posted close is
the last event of its attempt (`CloseIsLast`); another attempt is planned once (`RedialFits`); what the loop has yet to handle of the newest attempt
is the rest of open, messages, close (`OpensOnce` to `OpenIsTold`). For streams, `StreamTold` says that the events that wait lead from what
the user has heard to the state the source is in, by steps a user may hear; it asks for a path and not for a rule, so posting extends it
at its end and a callback takes its first step.

- `NothingStaysConnectedAlways`: for both, on the loop they share.
- `SocketImplementsEvents`, `SubscriptionImplementsEvents`: every step is one of the abstract specifications', or stutters.

`ScopesProofs`. The three properties speak of the state between walks, so none is inductive. The invariant

    ScopesInv == Types /\ StackFits /\ SitesFit /\ KindsFit /\ ObjectsFit /\ AliveFit /\ LatestFit

says at any step of a walk what it has done and what lies ahead. `StackFits`: each frame is below the one it was pushed on, the children it has yet to come to
are apart from all that was built, adopted or removed, and below a mount is nothing but mounts. From it follows that a panic which cuts
the stack at a boundary leaves the frames under it with their work intact. `SitesFit`: what is above a node is there, and a walk stays below
its root. `ObjectsFit`: an object of the page is at a site the walk has built or will come by (`Ahead`), so `Commit`
drops no site that holds something; an object of the walk is at a site it built, and one `abandon` would not find (an owner that
is not disposed, an adoption that has not subscribed) implies that something was adopted below the catcher, that is `careless`; every subscribed one is
among `recovery`, so an orphan never renders. `AliveFit` and `LatestFit`: a site of the page is alive, and rendered or marked,
unless the walk has taken it over; a site the walk built is so once its frame is left.

A step inside a walk is described by its effect on the objects (`Does`), and `DoesInv` shows once that an effect with the right side conditions
keeps the invariant; each action's lemma names its effect. Panics and the end of a walk, which discard or settle sets of objects, are proved one by one.

- `NothingLeaksAlways`, `PageIsAliveAlways`, `ContentIsLatestAlways`.
- On the way: a dirty scope is always registered, so the test for it in `reRenderScope` never fails (`ReRenderKeepsInv`).

`RouterProofs`. The invariant of the URL is

    UrlInv == HistoryInv /\ WritingInv /\ PathInUrl /\ QueryInUrl (and types)

`HistoryInv`: every entry's path has the base in front and is spelled as URLs are, without which a traversal could leave the application. `UrlIsCurrent` speaks of the state in which
no call waits. `PathInUrl` is stronger: the URL is Path's also while a query or a popstate waits, as long as no navigation does; when one is finished after Path was moved on,
`crossed` says so. `QueryInUrl` is the same for the query, and `WritingInv` has what a waiting SetQueryParam is going to write agree with what it left in Query. Any number of calls may wait. Then

    Inv == UrlInv /\ StructInv /\ FitInv

`StructInv` is the order of rendering: which scopes wait, that the SubRoutes that wait are the later ones, that Route is marked with the SubRoutes and renders before them, that a nested
SubRoute lives in Route's page. `FitInv`: every scope that does not wait fits the path. It shows the page of the pattern it resolved (`SidesFit`, `RoutePage`), and one that waits may be anything.
For the parameters, `NoneLeft` says that each is what a scope that has rendered captures, or in `lastKeys` of a SubRoute that waits, which will take it away; `NoneMissing`, that what a scope
captures is there unless a later SubRoute has a parameter of the same name, whose merge may have overwritten or deleted it. Nothing is assumed about which names SubRoutes share.
`ParamsFitPath`, `NotFoundFits` and `ShowsThePath` speak of the state in which none waits, and none is inductive by itself.

- `FirstCandidate`: among the patterns that match, one precedes all others, so `compileRoutes`'s order is total on them (least element of
  a lexicographic order on literals and length). `Resolve` is then well-defined.
- `ParseEncode`, `StripBaseUrl`: what is read back of what was written into a URL: the query but for an empty name, and the path as the browser spelled it.
- `UrlIsCurrentAlways`, `ParamsFitPathAlways`, `NotFoundFitsAlways`, `ShowsThePathAlways`.

`EventsProofs`. `FilesFollowElements` says where files are parked and what the store has. The invariant is

    FilesInv == StoreInv /\ ParkedInPage /\ ChangeReplacesNothing

`StoreInv`: a handle is one parked file's and below the next one, so releasing some files leaves the others theirs; what a node's
handlers were given is still parked. `ChangeReplacesNothing`: a browser selects files with an `input` event and a `change` event; in between,
what is parked under the node is in the selection, so the second event releases nothing its handlers were given. Of the document only
`Forgotten` is used: what leaves the page in a step is forgotten in that step.

- `FilesAlwaysFollowElements`.

Only model-checked:

- Liveness (`InboxSpec`'s fairness, `DirtyRenders`, `LoadingEnds`, `Reconnected`, `FailureIsTold`), which this prover does not reach.
- `ObserversAreTold` and `OncePerUpdate` of `Computed`. The second counts calls along all paths of a graph; the first needs `ToldInv` of `Signals` for
  every signal on such a path at once, some of which have been notified and others not.
- `KeyedDiff` and `For`: the longest increasing subsequence and the diff are recursive operators over child lists.
- `Hydration`, and `LateEventsFindTheirTarget` in `Events`: ids are the outcome of a walk over the page (folds), and what is claimed
  depends on all of it.

A recursive function over data has no induction theorem here, but a least counterexample does: `SignalsProofs` reasons that way about
compaction (`LeastNat`), `ComputedProofs` about the deps. Where the recursion carries a whole document, or is an operator, we left it to TLC.

## 5. Not modelled, and the plan

Not modelled as components: the encoding of mutations, element builders, storage, logs, development checks, the fake
browser and examples: formatting or no state. Inside the modelled parts, and why:

- *Signals, Computed*: equality functions (data); compute functions that write or panic.
- *Renderer*: attributes, namespaces and context values (data that no order depends on); panics in cleanups; the order of two values of one
  binding across the render that rebinds it (`internal/dom/renderer.go:532`): `Hydration` enqueues a render's mutations at its end, but its renders bind no text anew while they write it;
  the hydrating branches after a panic.
- *Scopes and the diff composed*: `Scopes` is a tree of sites with fixed places and `KeyedDiff` has no panics and no subscriptions; together they would be
  beyond TLC. What `FrameLoop` knows of a render is what `Scopes` does to subscriptions and dirty marks.
- *Events*: `stopPropagation`, `preventDefault`, payloads; reads of a file are the environment's.
- *Router*: trailing slashes, a `?` or `#` inside a path, dot segments, what a server's history stub leaves out.
- *For*: a panic of the render of the scope around, which adopts For's scope and its rows.
- *HTTP*: marshalling; the transport of a fetch is the environment's in `Resource`.
- *VirtualList*: arithmetic on a window; what was seen in it is above.

Plan: proofs about `Hydration`, and the window of `VirtualList`.

The hazards in `PROJECT.json` without a property say why.

## 6. Running

    tlc -config SignalsCalls.cfg MCSignals         # one run: its cfg and module are in PROJECT.json
    tlapm SignalsProofs.tla                        # and the other *Proofs modules
