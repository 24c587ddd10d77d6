-------------------------------- MODULE Dom --------------------------------
(***************************************************************************)
(* The document as applyMutations keeps it (runtime/goowee.js): nodes that *)
(* the server rendered or the runtime made, the children of each, and the  *)
(* tables that take a node id to its node.                                 *)
(*                                                                         *)
(* A document is a record: kids, the children of every holder in order;    *)
(* text, what a node shows; of, nodeMap; pre, the server's nodes nobody    *)
(* claimed yet (preexistingNodes), by the kind of node they are.           *)
(***************************************************************************)
EXTENDS Naturals, SequencesExt

CONSTANT
  MaxID   \* bound: node ids

Ids == 1..MaxID
Root == <<"root", 0>>
HeadElement == <<"head", 0>>
Target == <<"target", 0>>
Nowhere == <<"none", 0>>
Made(i) == <<"made", i>>
Served(i) == <<"server", i>>
Holders == {Root, HeadElement, Target} \union {Made(i) : i \in Ids} \union {Served(i) : i \in Ids}

Without(kids, n) == [h \in DOMAIN kids |-> SelectSeq(kids[h], LAMBDA c : c # n)]
Attached(kids, n) == {h \in DOMAIN kids : n \in ToSet(kids[h])}

\* insertBefore; a reference that is not there means the end.
Before(q, n, ref) ==
  LET k == SelectInSeq(q, LAMBDA c : c = ref)
  IN IF k = 0 THEN Append(q, n) ELSE InsertAt(q, k, n)

Insert(kids, h, n, ref) ==
  [Without(kids, n) EXCEPT ![h] = Before(SelectSeq(@, LAMBDA c : c # n), n, ref)]

\* The node a mutation names; 0 is the root container.
NodeOf(d, i) == IF i = 0 THEN Root ELSE d.of[i]

\* A node of the document and what is inside it.
Inside(kids, n) ==
  LET around[m \in DOMAIN kids] ==
        {m} \union UNION {IF c \in DOMAIN kids THEN around[c] ELSE {c} : c \in ToSet(kids[m])}
  IN IF n \in DOMAIN kids THEN around[n] ELSE {n}
-----------------------------------------------------------------------------
(* One mutation *)

Take(d, i) == [d EXCEPT !.of[i] = Served(i), !.pre[i] = ""]
Make(d, i) == [d EXCEPT !.of[i] = Made(i), !.pre[i] = ""]

\* A node with the id of the server's is reused, whatever it is.
Create(d, m) == IF d.pre[m.id] # "" THEN Take(d, m.id) ELSE Make(d, m.id)

\* A server node is claimed when it is of the kind the client renders; else
\* one is made, which hangs nowhere.
Hydrate(d, m) == IF d.pre[m.id] = m.kind THEN Take(d, m.id) ELSE Make(d, m.id)

SetText(d, m) == IF d.of[m.id] = Nowhere THEN d ELSE [d EXCEPT !.text[d.of[m.id]] = m.value]

AppendChild(d, m) ==
  LET parent == NodeOf(d, m.id)
      child == d.of[m.child]
  IN IF Nowhere \in {parent, child} \/ Attached(d.kids, child) # {} THEN d
     ELSE [d EXCEPT !.kids[parent] = Append(@, child)]

\* The parent of the reference wins.
InsertBefore(d, m) ==
  LET ref == IF m.ref = 0 THEN Nowhere ELSE d.of[m.ref]
      around == Attached(d.kids, ref)
      parent == IF around # {} THEN CHOOSE h \in around : TRUE ELSE NodeOf(d, m.id)
      child == d.of[m.child]
  IN IF Nowhere \in {parent, child} THEN d
     ELSE [d EXCEPT !.kids = Insert(@, parent, child, ref)]

PortalAppend(d, m) ==
  LET child == d.of[m.child]
  IN IF child = Nowhere \/ m.into \in Attached(d.kids, child) THEN d
     ELSE [d EXCEPT !.kids = Insert(@, m.into, child, Nowhere)]

\* A mutant: only the removed node itself is forgotten.
ForgetRoot(d, n) == [i \in Ids |-> IF d.of[i] = n THEN Nowhere ELSE d.of[i]]

\* forget drops the whole removed subtree.
Forget(d, n) == [i \in Ids |-> IF d.of[i] \in Inside(d.kids, n) THEN Nowhere ELSE d.of[i]]

\* What a removed node held is garbage.
Emptied(kids, gone) == [h \in DOMAIN kids |-> IF h \in gone THEN <<>> ELSE kids[h]]
Blanked(text, gone) == [h \in DOMAIN text |-> IF h \in gone THEN 0 ELSE text[h]]

RemoveNode(d, m) ==
  LET n == d.of[m.id]
  IN IF n = Nowhere THEN d
     ELSE LET gone == Inside(d.kids, n)
          IN [d EXCEPT !.kids = Emptied(Without(@, n), gone), !.of = Forget(d, n),
                       !.text = Blanked(@, gone)]

Apply(d, m) ==
  CASE m.op = "create" -> Create(d, m)
    [] m.op = "hydrate" -> Hydrate(d, m)
    [] m.op = "text" -> SetText(d, m)
    [] m.op = "append" -> AppendChild(d, m)
    [] m.op = "insert" -> InsertBefore(d, m)
    [] m.op = "portal" -> PortalAppend(d, m)
    [] m.op = "remove" -> RemoveNode(d, m)

ApplyAll(d, muts) == FoldLeft(Apply, d, muts)
=============================================================================
