------------------------------- MODULE Events -------------------------------
(***************************************************************************)
(* What the user does to the page while it renders: events, which the      *)
(* runtime delivers at once or, for those that come in floods, in the next *)
(* animation frame (queueEvent, dispatchToGo of runtime/goowee.js), to the *)
(* handlers the client registered by node id                               *)
(* (internal/dom/node_registry.go), and the files of selections, pastes    *)
(* and drops, kept by handle until replaced or removed (stashFiles,        *)
(* releaseFiles; core/file.go).                                            *)
(*                                                                         *)
(* Every element has handlers, and none stops an event.  The target of an  *)
(* event is an element, so that it owns the files it carries.              *)
(***************************************************************************)
EXTENDS Hydration

CONSTANTS
  Touched,     \* the elements where events happen
  Inputs,      \* those that are file inputs
  File,        \* numbers that stand for File objects
  MaxPending,  \* bound: coalesced events waiting
  MaxHandle    \* bound: file handles

ASSUME EventsAssumption ==
  /\ Touched \subseteq {s \in Sites : Kind[s] \in {"element", "dynamic"}}
  /\ Inputs \subseteq Touched
  /\ File \subseteq Nat /\ IsFiniteSet(File)
  /\ MaxHandle \in Nat

VARIABLES
  handlers,    \* NodeRegistry.nodes: ids with handlers
  pending,     \* pendingEvents: coalesced events, <<type, target>>
  parked,      \* nodeFiles: the files parked under a node, with their handles
  fileStore,   \* handles that lead to a File
  nextHandle,  \* nextFileHandle
  picked,      \* the files of the inputs' selections (input.files)
  between,     \* the input whose change event follows its input event, or Nowhere
  given        \* history: the handles the last event on a node gave its handlers

eventVars == <<handlers, pending>>
fileVars == <<parked, fileStore, nextHandle, picked, between, given>>

Init ==
  /\ PageInit
  /\ handlers = {} /\ pending = {}
  /\ parked = {} /\ fileStore = {} /\ nextHandle = 1
  /\ picked = {} /\ between = Nowhere /\ given = {}

HasHandler(s) == Kind[s] \in {"element", "dynamic"}
Listening == {s \in Rendered : HasHandler(s)}

\* What is in the document.
InPage(kids) == Inside(kids, Root) \union Inside(kids, Target) \union Inside(kids, HeadElement)

\* The node of an element of the page: the server's until the first frame.
ElementNode(s) == IF painted THEN dom.of[id[s]] ELSE Served(NumberedOnServer(Rendered, s))

\* Where an event may happen, once the client listens.
Targets ==
  IF ~booted THEN {}
  ELSE InPage(dom.kids) \cap
         ({Splash} \union
            {ElementNode(s) : s \in {e \in Touched \cap Rendered : painted \/ (ssr /\ ~Silent(e))}})
-----------------------------------------------------------------------------
(* Rendering, and what goes with the nodes it removes *)

\* A mutant: the handlers of removed nodes stay.
UnregisteredNever(ids) == {}

\* emitRemoveTree: Registry.Remove of every id of what is removed.
Unregistered(ids) == handlers \cap ids

Handled(before, after) ==
  (handlers \ Unregistered({before[s] : s \in {t \in Sites : before[t] # after[t]}}))
    \union {after[s] : s \in {t \in Sites : HasHandler(t) /\ after[t] # 0}}

\* releaseFiles, by forget, of every node of a removed subtree.
Released(nodes) == {p \in parked : p.node \in nodes}

Handles(files) == {<<p.handle, p.file>> : p \in files}

Forgotten(before, after) ==
  LET nodes == {p.node : p \in parked \union given \union picked}
      gone == nodes \cap (InPage(before) \ InPage(after))
      released == Released(gone \ {Splash})
  IN /\ parked' = parked \ released
     /\ fileStore' = fileStore \ Handles(released)
     /\ given' = {g \in given : g.node \notin gone}
     /\ picked' = {p \in picked : p.node \notin gone}

\* A render or a frame; the document does not change while an event is dispatched.
PageStep ==
  /\ between = Nowhere
  /\ PageNext
  /\ handlers' = Handled(id, id')
  /\ Forgotten(dom.kids, dom'.kids)
  /\ UNCHANGED <<pending, nextHandle, between>>
-----------------------------------------------------------------------------
(* Events *)

\* _nodeID, which a claimed or created node keeps for good.
NodeID(n) ==
  IF n[1] = "made" \/ (n[1] = "server" /\ dom.pre[n[2]] = "") THEN n[2] ELSE 0

\* The node and the elements around it.
Upward(n) ==
  LET up[h \in Holders] == {h} \union UNION {up[g] : g \in Attached(dom.kids, h)}
  IN {n} \union UNION {up[h] : h \in Attached(dom.kids, n)}

\* dispatchToGo: the handlers of the target and, if the event bubbles, of what is around it.
Reached(type, n) ==
  {NodeID(m) : m \in (IF type = "scroll" THEN {n} ELSE Upward(n))} \cap handlers

\* queueEvent: of a kind, one event per target waits.
QueueEvent(type, n) ==
  /\ between = Nowhere
  /\ Cardinality(pending \union {<<type, n>>}) <= MaxPending
  /\ pending' = pending \union {<<type, n>>}
  /\ UNCHANGED <<handlers, pageVars, fileVars>>

\* The animation frame of the events.
Deliver ==
  /\ pending # {} /\ between = Nowhere
  /\ pending' = {}
  /\ UNCHANGED <<handlers, pageVars, fileVars>>
-----------------------------------------------------------------------------
(* Files *)

FilesOf(n) == {p \in parked : p.node = n}

\* readFile: what the handle leads to, or an error.
ReadFile(h) == {f \in File : <<h, f>> \in fileStore}

\* File.Bytes; 0 is the handle of a file that cannot be read.
Bytes(h) == IF h = 0 THEN {} ELSE ReadFile(h)

\* A mutant: a new selection releases what it keeps as well.
ReplacedAll(held, files) == held

\* The files that do not survive.
Replaced(held, files) == {p \in held : p.file \notin files}

\* stashFiles; again is the second event of one selection.
Stash(n, files, again) ==
  LET held == FilesOf(n)
      kept == {p \in held : p.file \in files}
      fresh == files \ {p.file : p \in kept}
      made == {[node |-> n, file |-> f, handle |-> nextHandle + Cardinality({g \in fresh : g < f})]
                 : f \in fresh}
  IN /\ nextHandle + Cardinality(fresh) <= MaxHandle + 1
     /\ parked' = (parked \ held) \union kept \union made
     /\ fileStore' = (fileStore \union Handles(made)) \ Handles(Replaced(held, files))
     /\ nextHandle' = nextHandle + Cardinality(fresh)
     /\ given' = (IF again THEN given ELSE {g \in given : g.node # n}) \union kept \union made

\* The user picks files: the input event, and then the change event.
Pick(n, files) ==
  /\ between = Nowhere
  /\ n \in Targets /\ n \in {ElementNode(s) : s \in Inputs \cap Rendered}
  /\ files # {p.file : p \in {q \in picked : q.node = n}}
  /\ picked' = {p \in picked : p.node # n} \union {[node |-> n, file |-> f] : f \in files}
  /\ Stash(n, files, FALSE)
  /\ between' = n
  /\ UNCHANGED <<eventVars, pageVars>>

Change ==
  /\ between # Nowhere
  /\ Stash(between, {p.file : p \in {q \in picked : q.node = between}}, TRUE)
  /\ between' = Nowhere
  /\ UNCHANGED <<eventVars, pageVars, picked>>

\* A paste, or a drop, of files or of none, whether or not an element handles it.
Paste(n, files) ==
  /\ between = Nowhere
  /\ n \in Targets
  /\ Stash(n, files, FALSE)
  /\ UNCHANGED <<eventVars, pageVars, picked, between>>

Next ==
  \/ PageStep
  \/ \E type \in {"scroll", "pointermove"}, n \in Targets : QueueEvent(type, n)
  \/ Deliver
  \/ \E n \in Targets, files \in SUBSET File : Pick(n, files) \/ Paste(n, files)
  \/ Change

EventsSpec == Init /\ [][Next]_<<pageVars, eventVars, fileVars>>
-----------------------------------------------------------------------------
(* Properties *)

(* An event that waited for its frame reaches the handlers of its target   *)
(* and of the elements around it while they are in the page, and once they *)
(* are not, nobody: ids are not reused, and Go forgets the handlers of     *)
(* what it removes (queueEvent, dispatchToGo).                             *)
Around(s) == {a \in {s} \union Ancestors[s] :
                HasHandler(a) /\ Within(s, {"portal"}) = Within(a, {"portal"})}
LateEventsFindTheirTarget ==
  Settled =>
    \A event \in pending :
      LET type == event[1]
          n == event[2]
          sites == {s \in Listening : dom.of[id[s]] = n}
      IN Reached(type, n) = {id[a] : a \in IF type = "scroll" THEN sites
                                            ELSE UNION {Around(s) : s \in sites}}

(* The files the last selection, paste or drop on an element gave its      *)
(* handlers stay readable, each by its handle, while the element is in the *)
(* page: the change event after an input event keeps the handles an        *)
(* in-flight read may use (stashFiles).                                    *)
(* No File is kept but for an element of the page (core/file.go:85-87),    *)
(* or for the splash when its files came before the first frame.           *)
FilesFollowElements ==
  /\ \A g \in given : Bytes(g.handle) = {g.file}
  /\ \A held \in fileStore :
       \E p \in parked : p.handle = held[1] /\ (p.node \in InPage(dom.kids) \/ p.node = Splash)
=============================================================================
