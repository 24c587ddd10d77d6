----------------------------- MODULE Hydration -----------------------------
(***************************************************************************)
(* A page from the server's HTML to the running client: rendering on the   *)
(* server (ssr/renderer.go), the walk both sides number nodes by           *)
(* (internal/walker/walker.go), claiming the server's nodes                *)
(* (hydrateOnce and applyMutations of runtime/goowee.js, the hydrating     *)
(* branches of internal/dom/renderer.go), and the updates that follow.     *)
(*                                                                         *)
(* The application is a fixed tree of sites in document order; a scope     *)
(* shows what it holds or nothing.  The page may also have no server       *)
(* rendering, and then starts with a splash the client removes.            *)
(***************************************************************************)
EXTENDS Dom, FiniteSetsExt

CONSTANTS
  Kind,     \* site -> "element", "dynamic", "text", "raw", "scope", "portal", "metadata", "tag", "group"
  Up,       \* site -> the enclosing site, 0 for the first
  Texts,    \* what a text may show; 0 is the empty text
  MaxQueue  \* bound: mutations of bindings waiting for a frame

Sites == DOMAIN Kind
Elements == {"element", "dynamic", "tag"}

ASSUME HydrationAssumption ==
  /\ Sites = 1..Len(Kind) /\ DOMAIN Up = Sites
  /\ \A s \in Sites : Up[s] \in 0..(s - 1)
  /\ \A s \in Sites : Kind[s] = "tag" <=> Up[s] # 0 /\ Kind[Up[s]] = "metadata"

Ancestors[s \in Sites] == IF Up[s] = 0 THEN {} ELSE {Up[s]} \union Ancestors[Up[s]]
Below(s) == {d \in Sites : s \in Ancestors[d]}
Within(s, kinds) == {a \in Ancestors[s] : Kind[a] \in kinds}

\* Fragments, components and boundaries ("group") and metadata have no node of their own.
HasId(s) == Kind[s] \notin {"group", "metadata"}

\* The site whose node, or whose container, holds the site's node.
Host(s) == Max({0} \union Within(s, Elements \union {"portal", "metadata"}))

\* The order of the walk: a site comes after what it holds when its kind is
\* one of these, and before it otherwise.
Turn(s, last) ==
  LET n == Len(Kind)
  IN IF Kind[s] \in last THEN 2 * n * Max({s} \union Below(s)) + n + 1 - s ELSE 2 * n * s

\* Ids: a scope's end anchor after its content, a portal's before it.
Numbered(s) == Turn(s, {"scope"})
\* Places: both anchors after the content.
Later(s) == Turn(s, {"scope", "portal"})
InOrder(S) ==
  [k \in 1..Cardinality(S) |-> CHOOSE s \in S : Cardinality({t \in S : Later(t) < Later(s)}) = k - 1]

\* A mutant: what the server does not write takes no ids there.
NumberedOnServerUnlessSilent(P, s) ==
  1 + Cardinality({t \in P : HasId(t) /\ Within(t, {"portal", "metadata"}) = {} /\ Numbered(t) < Numbered(s)})

\* AllocID, for a walk of P from the next id n.
Numbering(P, n, s) == n + Cardinality({t \in P : HasId(t) /\ Numbered(t) < Numbered(s)})

NumberedOnServer(P, s) == Numbering(P, 1, s)

VARIABLES
  ssr,      \* whether the page was rendered by the server
  shown,    \* the scopes that show what they hold
  value,    \* the values of the signals the texts are bound to
  booted,   \* the client has rendered
  painted,  \* its first frame was applied: hydrated, in hydrateOnce
  id,       \* the ids of the nodes of the client's tree
  nextID,   \* Walker.nextID
  first,    \* the mutations of the client's first render, until its frame
  queue,    \* mutations of bindings waiting for a frame
  dom,      \* the document
  lost,     \* ids of texts whose node the client could not claim
  stale     \* history: head tags of the server's a later render replaced

pageVars == <<ssr, shown, value, booted, painted, id, nextID, first, queue, dom, lost, stale>>

TextSites == {s \in Sites : Kind[s] = "text"}
Scopes == {s \in Sites : Kind[s] = "scope"}

\* What the client's tree holds.
Rendered == {s \in Sites : Within(s, {"scope"}) \subseteq shown}
-----------------------------------------------------------------------------
(* The server *)

\* Portals and metadata are walked for their ids and not written in the body.
Silent(s) == Within(s, {"portal", "metadata"}) # {} \/ Kind[s] = "portal"

\* An empty text leaves its marker and no node.
Written(P, texts) ==
  {s \in P : HasId(s) /\ ~Silent(s) /\ (Kind[s] = "text" => texts[s] # 0)}

ServerNode(P, s) == IF s = 0 THEN Root ELSE Served(NumberedOnServer(P, s))
Tag(s) == <<"tag", s>>
Splash == <<"tag", 0>>

NodeKind(s) ==
  CASE Kind[s] = "text" -> "#text" [] Kind[s] \in {"scope", "portal"} -> "#comment"
    [] Kind[s] = "raw" -> "div" [] OTHER -> "element"

\* The children the HTML of P gives a site's node.
ServerKids(P, texts, host) ==
  LET held == {s \in Written(P, texts) : Host(s) = host}
  IN [k \in 1..Cardinality(held) |-> ServerNode(P, InOrder(held)[k])]

\* A document, given the children of some holders, texts and the server's nodes.
Document(kids, texts, pre) ==
  [kids |-> [h \in Holders |-> IF h \in DOMAIN kids THEN kids[h] ELSE <<>>],
   text |-> [h \in Holders |-> IF h \in DOMAIN texts THEN texts[h] ELSE 0],
   of |-> [i \in Ids |-> Nowhere],
   pre |-> [i \in Ids |-> IF i \in DOMAIN pre THEN pre[i] ELSE ""]]

\* Render of ssr/renderer.go, and hydrateOnce's reading of what it wrote.
ServerDocument(P, texts) ==
  LET body == Written(P, texts)
      hosts == {0} \union {s \in body : Kind[s] \in Elements}
      siteOf(i) == CHOOSE s \in body : NumberedOnServer(P, s) = i
      ids == {NumberedOnServer(P, s) : s \in body}
      tags == InOrder({s \in P : Kind[s] = "tag"})
  IN Document([n \in {ServerNode(P, s) : s \in hosts} \union {HeadElement} |->
                 IF n = HeadElement THEN [k \in DOMAIN tags |-> Tag(tags[k])]
                 ELSE ServerKids(P, texts, IF n = Root THEN 0 ELSE siteOf(n[2]))],
              [n \in {Served(i) : i \in ids} |->
                 IF Kind[siteOf(n[2])] = "text" THEN texts[siteOf(n[2])] ELSE 0],
              [i \in ids |-> NodeKind(siteOf(i))])

\* Without a server: the splash of the page's author.
SplashDocument == Document([n \in {Root} |-> <<Splash>>], <<>>, <<>>)

\* The texts of Dynamic elements may differ between the server and the client.
ServerTexts == {t \in [TextSites -> Texts] :
                  \A s \in TextSites : Within(s, {"dynamic"}) = {} => t[s] = value[s]}

PageInit ==
  /\ ssr \in BOOLEAN
  /\ shown \in SUBSET Scopes
  /\ value \in [TextSites -> Texts]
  /\ \E texts \in ServerTexts :
       /\ dom = IF ssr THEN ServerDocument(Rendered, texts) ELSE SplashDocument
       /\ lost = IF ssr THEN {NumberedOnServer(Rendered, s) :
                                s \in {t \in Rendered \cap TextSites : texts[t] = 0 /\ ~Silent(t)}}
                  ELSE {}
  /\ booted = FALSE /\ painted = FALSE
  /\ id = [s \in Sites |-> 0] /\ nextID = 1
  /\ first = <<>> /\ queue = <<>>
  /\ stale = {}
-----------------------------------------------------------------------------
(* The mutations of a render *)

CreateMut(i, s) == [op |-> "create", id |-> i, kind |-> NodeKind(s)]
HydrateMut(i, s) == [op |-> "hydrate", id |-> i, kind |-> NodeKind(s)]
TextMut(i, v) == [op |-> "text", id |-> i, value |-> v]
RemoveMut(i) == [op |-> "remove", id |-> i]

\* Where a fresh node goes: into its container, the element that holds it, or
\* before the anchor of the scope that is rendered again.
PlaceMut(ids, s, scope) ==
  IF Kind[s] = "portal" \/ (Host(s) # 0 /\ Kind[Host(s)] = "portal")
  THEN [op |-> "portal", child |-> ids[s], into |-> Target]
  ELSE IF Kind[s] = "tag" THEN [op |-> "portal", child |-> ids[s], into |-> HeadElement]
  ELSE LET host == IF Host(s) = 0 THEN 0 ELSE ids[Host(s)]
       IN IF scope # 0 /\ Host(s) = Host(scope)
          THEN [op |-> "insert", id |-> host, child |-> ids[s], ref |-> ids[scope]]
          ELSE [op |-> "append", id |-> host, child |-> ids[s]]

\* renderFresh of S, by the order its nodes take their places.
Fresh(S, ids, scope) ==
  LET order == InOrder({s \in S : HasId(s)})
  IN FlattenSeq([k \in DOMAIN order |->
       LET s == order[k]
       IN <<CreateMut(ids[s], s)>>
          \o (IF Kind[s] = "text" THEN <<TextMut(ids[s], value[s])>> ELSE <<>>)
          \o <<PlaceMut(ids, s, scope)>>])

\* The elements of a portal hold the rest of it; S in a portal is fresh.
Claimed(s) == ~Silent(s)

\* VisitElement, VisitText and VisitScopeLeave, hydrating.
ClaimMuts(i, s) ==
  <<HydrateMut(i, s)>>
    \o (IF Kind[s] = "text" /\ Within(s, {"dynamic"}) # {} THEN <<TextMut(i, value[s])>> ELSE <<>>)

Claims(S, ids) ==
  LET order == InOrder({s \in S : HasId(s) /\ Claimed(s)})
  IN FlattenSeq([k \in DOMAIN order |-> ClaimMuts(ids[order[k]], order[k])])

\* A mutant: the head is rendered again.
HydratedFreshWithHead(S) == {s \in S : Silent(s)}

\* Portals are rendered by the client only; the mutations of metadata are discarded.
HydratedFresh(S) == {s \in S : Silent(s) /\ Within(s, {"metadata"}) = {}}

\* bridge.Run: the first render of the client.
Boot ==
  /\ ~booted
  /\ booted' = TRUE
  /\ LET ids == [s \in Sites |-> IF s \in Rendered /\ HasId(s) THEN Numbering(Rendered, 1, s) ELSE 0]
     IN /\ id' = ids
        /\ first' = IF ssr THEN Claims(Rendered, ids) \o Fresh(HydratedFresh(Rendered), ids, 0)
                    ELSE Fresh(Rendered, ids, 0)
  /\ nextID' = 1 + Cardinality({s \in Rendered : HasId(s)})
  /\ UNCHANGED <<ssr, shown, value, painted, queue, dom, lost, stale>>

\* A text is bound to a signal, whether or not it is in the page.
Write(t, v) ==
  /\ booted
  /\ value[t] # v
  /\ value' = [value EXCEPT ![t] = v]
  /\ IF t \in Rendered
     THEN /\ Len(queue) < MaxQueue
          /\ queue' = Append(queue, TextMut(id[t], v))
     ELSE UNCHANGED queue
  /\ UNCHANGED <<ssr, shown, booted, painted, id, nextID, first, dom, lost, stale>>
-----------------------------------------------------------------------------
(* Frames *)

\* hydrateOnce: a page without the server's nodes belongs to the client.
SplashRemoved(d) == [d EXCEPT !.kids[Root] = <<>>]

HydrateOnce == IF painted \/ ssr THEN dom ELSE SplashRemoved(dom)

\* The frame's own mutations, after those of the bindings.
Paint(muts) ==
  /\ dom' = ApplyAll(HydrateOnce, first \o queue \o muts)
  /\ painted' = TRUE
  /\ first' = <<>> /\ queue' = <<>>

Frame ==
  /\ booted /\ (queue # <<>> \/ ~painted)
  /\ Paint(<<>>)
  /\ UNCHANGED <<ssr, shown, value, booted, id, nextID, lost, stale>>

Held(scope) == Below(scope) \cap Rendered

\* Nodes whose removal takes the rest along, and those in other containers: the
\* content of portals and metadata, and the anchors of portals, wherever they are in S.
RootsOf(S) ==
  {s \in S : /\ HasId(s)
             /\ Kind[s] = "portal" \/ Host(s) \notin S \/ Kind[Host(s)] \in {"portal", "metadata"}}

Removals(S) ==
  LET order == InOrder(RootsOf(S)) IN [k \in DOMAIN order |-> RemoveMut(id[order[k]])]

\* Tags of the server's that no id leads to.
Unclaimed(S) == {s \in S : Kind[s] = "tag" /\ dom.of[id[s]] = Nowhere}

NewIds(S) == [s \in Sites |-> IF s \notin S THEN id[s]
                              ELSE IF HasId(s) THEN Numbering(S, nextID, s) ELSE 0]
Used(S) == Cardinality({s \in S : HasId(s)})

\* A scope of the page renders again: its content goes, comes, or stays, and
\* then the metadata in it is rendered anew (diff.go:100-110).
ReRender(scope) ==
  /\ painted
  /\ scope \in Rendered
  /\ LET old == Held(scope)
         tags == {s \in old : Kind[s] = "tag"}
         fresh == {s \in Below(scope) : Within(s, {"scope"}) \subseteq shown \union {scope}}
     IN \/ /\ scope \in shown
           /\ shown' = shown \ {scope}
           /\ Paint(Removals(old))
           /\ id' = [s \in Sites |-> IF s \in old THEN 0 ELSE id[s]]
           /\ stale' = stale \union Unclaimed(old)
           /\ UNCHANGED <<nextID, lost>>
        \/ /\ scope \in shown /\ tags # {}
           /\ nextID + Cardinality(tags) <= MaxID + 1
           /\ id' = NewIds(tags)
           /\ nextID' = nextID + Cardinality(tags)
           /\ Paint(Removals(tags) \o Fresh(tags, id', scope))
           /\ stale' = stale \union Unclaimed(tags)
           /\ UNCHANGED <<shown, lost>>
        \/ /\ scope \notin shown
           /\ nextID + Used(fresh) <= MaxID + 1
           /\ shown' = shown \union {scope}
           /\ id' = NewIds(fresh)
           /\ nextID' = nextID + Used(fresh)
           /\ Paint(Fresh(fresh, id', scope))
           /\ UNCHANGED <<lost, stale>>
  /\ UNCHANGED <<ssr, value, booted>>

PageNext ==
  \/ Boot \/ Frame
  \/ \E t \in TextSites, v \in Texts : Write(t, v)
  \/ \E s \in Scopes : ReRender(s)

-----------------------------------------------------------------------------
(* Properties *)

Settled == painted /\ queue = <<>>

Shows(s) == HasId(s) /\ Kind[s] # "tag" /\ id[s] \notin lost
Container(s) ==
  CASE s = 0 -> Root [] s # 0 /\ Kind[s] = "portal" -> Target [] OTHER -> dom.of[id[s]]

\* The page's content under a site, by the client's tree.  A portal's anchor is in its target.
Placed(s) == IF Kind[s] = "portal" THEN s ELSE Host(s)
ContentOf(host) ==
  LET held == InOrder({s \in Rendered : Shows(s) /\ Placed(s) = host})
  IN [k \in DOMAIN held |-> dom.of[id[held[k]]]]

(* Once the mutations are applied the document is the client's tree: in    *)
(* every element, in the root and in the portal's target the nodes of what *)
(* is rendered there and nothing else, in order, each text showing its     *)
(* signal, however the page was first rendered (hydration claims every     *)
(* node; what the server wrote and nobody claims would stay).  Texts that  *)
(* could not be claimed are apart.                                         *)
PageIsRendered ==
  Settled =>
    /\ \A s \in {0} \union {p \in Rendered : Kind[p] \in (Elements \ {"tag"}) \union {"portal"}} :
         dom.kids[Container(s)] = ContentOf(s)
    /\ \A t \in Rendered \cap TextSites : id[t] \notin lost => dom.text[dom.of[id[t]]] = value[t]

(* The head holds the tags of the page's metadata once, before and after   *)
(* hydration (VisitMetadata), until a render replaces what the server      *)
(* wrote.                                                                  *)
HeadNode(s) == IF dom.of[id[s]] = Nowhere THEN Tag(s) ELSE dom.of[id[s]]
HeadOnce ==
  Settled /\ stale = {} =>
    LET tags == {s \in Rendered : Kind[s] = "tag"}
    IN /\ ToSet(dom.kids[HeadElement]) = {HeadNode(s) : s \in tags}
       /\ Len(dom.kids[HeadElement]) = Cardinality(tags)

(* The runtime tracks the nodes of the page and no other: everything a     *)
(* render removed is forgotten (forget, nodeCount), but for nodes that     *)
(* never were in the page, of texts that could not be claimed.             *)
TracksThePage ==
  Settled => {i \in Ids : dom.of[i] # Nowhere} \ lost =
               {id[s] : s \in {t \in Rendered : HasId(t)} \ Unclaimed(Rendered)} \ lost

(* Hydration claims every text node of the page (adr.md:220-221).          *)
TextsAreClaimed == painted => \A t \in Rendered \cap TextSites : id[t] \notin lost
=============================================================================
