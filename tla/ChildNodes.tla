----------------------------- MODULE ChildNodes -----------------------------
(***************************************************************************)
(* The nodes of a child list and the mutations that mount and remove them  *)
(* (internal/dom/renderer.go).                                             *)
(*                                                                         *)
(* A node is an element, a component, a scope, an error boundary or a      *)
(* portal.  All but elements hold a list of elements, their content; what  *)
(* is inside an element has a DOM parent of its own and is left out, as    *)
(* are attributes and text.  id is the DOM node of an element, the anchor  *)
(* of a scope or a portal, the frame of a component or a boundary; item is *)
(* what it was rendered for.                                               *)
(***************************************************************************)
EXTENDS Integers, SequencesExt

CONSTANT None   \* no key, no mounted node

Portals == "portals"   \* portalParent: Go knows a portal's target by selector only
Keyed(n) == n.key # None
IDs(list) == [i \in DOMAIN list |-> list[i].id]

\* rootIDs: the DOM nodes of n among its parent's children.
Roots(n) ==
  CASE n.kind = "element" -> <<n.id>>
    [] n.kind \in {"component", "boundary"} -> IDs(n.content)
    [] n.kind = "scope" -> Append(IDs(n.content), n.id)
    [] n.kind = "portal" -> <<>>

ListRoots(list) == FlattenSeq([i \in DOMAIN list |-> Roots(list[i])])

\* The roots of n and of the portal content in it, which is elsewhere.
AllRoots(n) == IF n.kind = "portal" THEN Append(IDs(n.content), n.id) ELSE Roots(n)

-----------------------------------------------------------------------------
(* Mutations.  A diff in progress is a record with the next id and the     *)
(* mutations emitted.                                                      *)

InsertMut(child, parent, ref) == [op |-> "insert", child |-> child, parent |-> parent, ref |-> ref]
RemoveMut(id) == [op |-> "remove", child |-> id]
PortalMut(id) == [op |-> "portal", child |-> id]

Emit(d, more) == [d EXCEPT !.muts = @ \o more]

\* place: the roots in order before ref.
Place(parent, ids, ref, d) == Emit(d, [k \in DOMAIN ids |-> InsertMut(ids[k], parent, ref)])

\* emitRemoveTree
RemoveTree(n, d) == LET ids == AllRoots(n) IN Emit(d, [k \in DOMAIN ids |-> RemoveMut(ids[k])])

\* renderFresh: nw mounted.  A portal's content is appended to the target at once, what else
\* is fresh is placed by the caller.
RenderFresh(nw, d) ==
  LET size == Len(nw.content)
      content == [k \in 1..size |-> [nw.content[k] EXCEPT !.id = d.nextID + k - 1]]
      node == [nw EXCEPT !.content = content, !.id = d.nextID + size]
      shown == IF nw.kind = "portal" THEN AllRoots(node) ELSE <<>>
      done == [d EXCEPT !.nextID = @ + size + 1]
  IN [node |-> node, fresh |-> TRUE,
      d |-> Emit(done, [k \in DOMAIN shown |-> PortalMut(shown[k])])]

Replace(old, nw, d) == RenderFresh(nw, RemoveTree(old, d))
=============================================================================
