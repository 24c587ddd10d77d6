---------------------------- MODULE MCKeyedDiff ----------------------------
(* Small instances of For and KeyedDiff for TLC: what is rendered. *)
EXTENDS For, TLC

CONSTANTS ka, kb, kc, kd, p, q, card, a1, a2, a3, b1, b2

Node(kind, key, tag, content) ==
  [kind |-> kind, key |-> key, tag |-> tag, content |-> content, id |-> 0, item |-> None]
Element(key, tag) == Node("element", key, tag, <<>>)

Content == {<<>>, <<Element(kb, p)>>, <<Element(ka, p), Element(kb, p)>>}
Holder(kind) == {Node(kind, None, p, c) : c \in Content}
Component == {Node("component", ka, p, <<>>), Node("component", ka, p, <<Element(None, p), Element(None, q)>>),
              Node("component", None, p, <<Element(None, p)>>)}

\* Reorders of keyed rows; rows of either tag and duplicate keys; every kind beside every other.
Reorders == {s \in BoundedSeq({Element(k, p) : k \in Key}, Cardinality(Key)) : IsInjective(s)}
Rows == BoundedSeq({Element(ka, p), Element(kb, p), Element(ka, q), Element(None, p), Element(None, q)}, 3)
Mixed == BoundedSeq({Element(ka, p), Element(None, p)} \union Component
                     \union Holder("scope") \union Holder("boundary") \union Holder("portal")
                     \union {Node("boundary", None, p, <<Element(ka, q)>>)}, 2)

AllLists == Reorders \union Rows \union Mixed

\* Items of two keys, shown by components that are plain or have props, or by an element.
Items == {a1, a2, a3, b1, b2}
ItemKey == [x \in Items |-> IF x \in {b1, b2} THEN kb ELSE ka]
ItemRow == [x \in Items |->
  [CASE x \in {a1, a2} -> Node("component", None, p, <<Element(None, p)>>)
     [] x \in {b1, b2} -> Node("component", None, card, <<Element(None, p)>>)
     [] x = a3 -> Element(None, p)
   EXCEPT !.item = x]]
SomeItems == {<<>>, <<a2, b1>>, <<b1, a2>>, <<a1, a2>>} \union {xs \in BoundedSeq({a1, a3, b2}, 2) : IsInjective(xs)}

\* The state up to ids: every node with its places in the parent and in the portals' target.
At(id) == [side \in DOMAIN dom |-> SelectInSeq(dom[side], LAMBDA c : c = id)]
Seen(n) == <<n.kind, n.key, n.tag, n.item, n.id \in forgotten, n.id \in disposed, At(n.id),
             [k \in DOMAIN n.content |-> <<n.content[k].key, n.content[k].tag, At(n.content[k].id)>>]>>
UpToIDs == <<[i \in DOMAIN rows |-> Seen(rows[i])], [side \in DOMAIN dom |-> Len(dom[side])],
             isFor, items, dirty, memory, failed>>
=============================================================================
