----------------------------- MODULE KeyedDiff -----------------------------
(***************************************************************************)
(* The child list of a scope and the DOM it is shown by.                   *)
(*                                                                         *)
(* The scope's render function returns a list of nodes, flattened; the     *)
(* renderer diffs it with the mounted one and the browser applies the      *)
(* mutations.  One re-render is one call on one goroutine and its          *)
(* mutations are one batch: one step.                                      *)
(***************************************************************************)
EXTENDS ChildNodes

CONSTANTS
  Key, Tag,    \* keys; tags of elements and names of components
  PropsTags,   \* the names of those made by ComponentWithProps
  Lists        \* what render functions return

ASSUME KeyedDiffAssumption == None \notin Key /\ PropsTags \subseteq Tag

VARIABLES
  rows,      \* ScopeNode.Prev: the mounted list
  disposed,  \* components of it whose frame is disposed, left by a render that panicked
  nextID,    \* Walker.nextID
  muts,      \* the mutations of the last re-render
  dom        \* the children of the scope's parent and of the portals' target

vars == <<rows, disposed, nextID, muts, dom>>

\* The scope's end anchor, after its content in its parent.
End == 1

-----------------------------------------------------------------------------
(* diffNode *)

Reuse(old, nw, d) == [node |-> [nw EXCEPT !.id = old.id], fresh |-> FALSE, d |-> d]

DiffElement(old, nw, parent, endRef, d) ==
  IF old = None THEN RenderFresh(nw, d)
  ELSE IF old.tag # nw.tag THEN Replace(old, nw, d)
  ELSE Reuse(old, nw, d)

ContentDiff == INSTANCE ChildDiff WITH DiffOne <- DiffElement

\* Where the content of old is: before the anchor of a scope or portal (diffPortal), in the
\* list itself for a boundary.
ContentPlace(old, parent, endRef) ==
  <<IF old.kind = "portal" THEN Portals ELSE parent,
    IF old.kind = "boundary" THEN endRef ELSE old.id>>

\* What holds content keeps it and has it diffed.
WithContent(old, nw, inner) == Reuse(old, [nw EXCEPT !.content = inner.list], inner.d)

DiffContent(old, nw, parent, endRef, d) ==
  LET place == ContentPlace(old, parent, endRef)
  IN WithContent(old, nw, ContentDiff!DiffChildren(old.content, nw.content, place[1], place[2], d))

IsSingle(n) == n.kind = "boundary" /\ Len(n.content) = 1

\* diffBoundary: several children, a fragment, are diffed as a list, one child with the other
\* whatever their keys; one and several replace each other.
DiffBoundary(old, nw, parent, endRef, d) ==
  LET one == DiffElement(old.content[1], nw.content[1], parent, endRef, d)
  IN IF ~IsSingle(old) /\ ~IsSingle(nw) THEN DiffContent(old, nw, parent, endRef, d)
     ELSE IF IsSingle(old) /\ IsSingle(nw)
       THEN [one EXCEPT !.node = [nw EXCEPT !.id = old.id, !.content = <<one.node>>]]
     ELSE [Replace(old, nw, d) EXCEPT !.node.id = old.id]

\* Adopt: a component stays as it is, but for props, which it is given: one that is disposed
\* shows nothing of them.
Adopted(old, nw) ==
  IF nw.tag \in PropsTags /\ old.id \notin disposed THEN [old EXCEPT !.item = nw.item] ELSE old

\* A component with its name and key is adopted.
SameIdentity(old, nw) ==
  /\ old.kind = nw.kind
  /\ old.kind = "component" => old.tag = nw.tag /\ old.key = nw.key

DiffNode(old, nw, parent, endRef, d) ==
  IF old = None THEN RenderFresh(nw, d)
  ELSE IF ~SameIdentity(old, nw) THEN Replace(old, nw, d)
  ELSE CASE nw.kind = "element" -> DiffElement(old, nw, parent, endRef, d)
         [] nw.kind = "component" -> Reuse(old, Adopted(old, nw), d)
         [] nw.kind = "boundary" -> DiffBoundary(old, nw, parent, endRef, d)
         [] nw.kind \in {"scope", "portal"} -> DiffContent(old, nw, parent, endRef, d)

ListDiff == INSTANCE ChildDiff WITH DiffOne <- DiffNode

-----------------------------------------------------------------------------
(* The browser (runtime/goowee.js).                                        *)

Without(children, id) == SelectSeq(children, LAMBDA c : c # id)
Detach(doc, id) == [list |-> Without(doc.list, id), target |-> Without(doc.target, id)]

\* Where the reference is, and at its place, or at the end of the parent; nowhere if the
\* parent is the unknown target of a portal.
InsertBefore(doc, m) ==
  LET out == Detach(doc, m.child)
      holding == {p \in DOMAIN doc : Contains(out[p], m.ref)}
      side == CHOOSE p \in holding : TRUE
  IN IF holding # {} THEN [out EXCEPT ![side] = InsertAt(@, SelectInSeq(@, LAMBDA c : c = m.ref), m.child)]
     ELSE IF m.parent # Portals THEN [out EXCEPT ![m.parent] = Append(@, m.child)]
     ELSE doc

Apply(doc, m) ==
  CASE m.op = "insert" -> InsertBefore(doc, m)
    [] m.op = "remove" -> Detach(doc, m.child)
    [] m.op = "portal" -> [Detach(doc, m.child) EXCEPT !.target = Append(@, m.child)]

ApplyAll(doc, batch) == FoldLeft(Apply, doc, batch)
-----------------------------------------------------------------------------
\* The scope rendered nothing at first: its anchor is all there is.
Init ==
  /\ rows = <<>>
  /\ disposed = {}
  /\ nextID = End + 1
  /\ muts = <<>>
  /\ dom = [list |-> <<End>>, target |-> <<>>]

\* updateScope, and the frame that carries its mutations.
Rendered(r) ==
  /\ rows' = r.list
  /\ disposed' = disposed \intersect ToSet(IDs(r.list))
  /\ nextID' = r.d.nextID
  /\ muts' = r.d.muts
  /\ dom' = ApplyAll(dom, muts')

Rerender(new) ==
  Rendered(ListDiff!DiffChildren(rows, new, "list", End, [nextID |-> nextID, muts |-> <<>>]))

Next == \E new \in Lists : Rerender(new)

Spec == Init /\ [][Next]_vars
-----------------------------------------------------------------------------
(* Correctness *)

\* A portal's content is right before the portal's anchor in the target, apart from that of
\* the other portals, and nothing is left of those that are gone (diff.go:131-133, docs/canonical/adr.md:453-459).
PortalsApart ==
  LET portals == {i \in DOMAIN rows : rows[i].kind = "portal"}
      block(i) == AllRoots(rows[i])
      at(i) == SelectInSeq(dom["target"], LAMBDA c : c = rows[i].id)
  IN /\ \A i \in portals : /\ at(i) >= Len(block(i))
                           /\ SubSeq(dom["target"], at(i) - Len(block(i)) + 1, at(i)) = block(i)
     /\ Len(dom["target"]) = FoldSet(LAMBDA i, sum : Len(block(i)) + sum, 0, portals)

\* The parent shows the list that was rendered, in its order and with nothing left over,
\* right before the anchor (diff.go:8-15), and the target the portals' content.
InPlace ==
  /\ dom["list"] = Append(ListRoots(rows), End)
  /\ PortalsApart

\* The first place in list that has key k, 0 if none has.
FirstWith(k, list) == SelectInSeq(list, LAMBDA n : n.key = k)

\* Where the node that is new[j] was in old, 0 if it was not.
OldPlace(old, new, j) == SelectInSeq(old, LAMBDA o : o.id = new[j].id)

\* A key that is still there keeps its node: the first of those that have it, as the others are
\* extra.  No node passes to another key or kind (h/flow.go:40-43).
IdentityKept(old, new) ==
  /\ \A j \in DOMAIN new :
       LET i == OldPlace(old, new, j)
       IN i # 0 => /\ old[i].key = new[j].key
                   /\ old[i].kind = new[j].kind
                   /\ old[i].tag = new[j].tag
  /\ \A k \in Key :
       LET i == FirstWith(k, old)
           j == FirstWith(k, new)
       IN i # 0 /\ j # 0 /\ old[i].kind = new[j].kind /\ old[i].tag = new[j].tag => OldPlace(old, new, j) = i

\* Rows and the rows inside what was kept keep their identity in every re-render; but a
\* boundary's only child is diffed with the one before it, whatever their keys.
KeysKeepNodes ==
  [][/\ IdentityKept(rows, rows')
     /\ \A j \in DOMAIN rows' :
          LET i == OldPlace(rows, rows', j)
          IN i # 0 /\ ~IsSingle(rows[i]) /\ ~IsSingle(rows'[j]) =>
               IdentityKept(rows[i].content, rows'[j].content)]_vars

\* No more of the nodes kept are moved than the new order demands: those that stay are as
\* many as can be found in their old order (diff.go:457-460).  A row rendered fresh for its old
\* key and a component that shows nothing count for the code as rows that stay, so renders with
\* one of these are exempt.
FewestMoves ==
  LET place(j) == OldPlace(rows, rows', j)
      Kept == {j \in DOMAIN rows' : place(j) # 0 /\ rows'[j].kind \notin {"boundary", "portal"}}
      CountsUnmoved(j) ==
        \/ j \in Kept /\ Roots(rows'[j]) = <<>>
        \/ place(j) = 0 /\ Keyed(rows'[j]) /\ FirstWith(rows'[j].key, rows') = j /\ FirstWith(rows'[j].key, rows) # 0
      Moved(j) == \E k \in DOMAIN muts' : muts'[k].op = "insert" /\ muts'[k].child = Last(Roots(rows'[j]))
      InOrder(S) == \A j, l \in S : j < l => place(j) < place(l)
  IN (\A j \in DOMAIN rows' : ~CountsUnmoved(j)) =>
       \A S \in SUBSET Kept : InOrder(S) => Cardinality(S) <= Cardinality({j \in Kept : ~Moved(j)})

MovesAreFewest == [][FewestMoves]_vars
=============================================================================
