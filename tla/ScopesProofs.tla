---------------------------- MODULE ScopesProofs ----------------------------
(***************************************************************************)
(* Proofs about what the renderer holds for the page, for any tree of      *)
(* scopes, components, elements and boundaries, whatever each render       *)
(* returns, wherever it panics and whenever signals are written.           *)
(*                                                                         *)
(* The argument follows the walk.  Sites fall into those it has built,     *)
(* those it has yet to come to (Ahead) and the rest, and every object is   *)
(* held where its site says: one of the page at a site of the page that    *)
(* the walk has not mounted anew, one of the walk at a site it has built.  *)
(* A step is described once by its effect on the objects (Does), and one   *)
(* lemma shows that an effect with the right side conditions keeps the     *)
(* invariant; the lemma of each action names its effect.  Panics and the   *)
(* end of a walk, which discard or settle whole sets, are shown one by     *)
(* one.                                                                    *)
(***************************************************************************)
EXTENDS Scopes, FiniteSetTheorems, SequenceTheorems, TLAPS
-----------------------------------------------------------------------------
(* The tree of sites *)

\* Sites are numbers, and so are their parents.
LEMMA SiteTypes ==
  /\ Len(Kind) \in Nat /\ Len(Kind) > 0 /\ 1 \in Sites /\ Sites \in SUBSET Nat
  /\ \A s \in Sites : Up[s] \in Nat /\ Kind[s] \in {"scope", "component", "element", "boundary"}
  /\ 0 \notin Sites
  BY ScopesAssumption DEF Sites

\* What it takes to be above a site.
LEMMA AncestorsDef ==
  ASSUME NEW d \in Sites, NEW a
  PROVE  a \in Ancestors[d] <=> a \in Sites /\ a < d /\ \A k \in Sites : a < k /\ k <= d => Up[k] >= a
  BY SiteTypes DEF Ancestors, Sites

\* What is above what is above a site is above the site.
LEMMA Transitive ==
  ASSUME NEW d \in Sites, NEW b \in Ancestors[d], NEW a \in Ancestors[b]
  PROVE  a \in Ancestors[d]
  <1>1. b \in Sites /\ b < d /\ \A k \in Sites : b < k /\ k <= d => Up[k] >= b
    BY AncestorsDef
  <1>2. a \in Sites /\ a < b /\ \A k \in Sites : a < k /\ k <= b => Up[k] >= a
    BY <1>1, AncestorsDef
  <1>3. \A k \in Sites : a < k /\ k <= d => Up[k] >= a
    <2> TAKE k \in Sites
    <2>1. k \in Nat /\ Up[k] \in Nat /\ a \in Nat /\ b \in Nat
      BY <1>1, <1>2, SiteTypes
    <2>2. k <= b \/ b < k
      BY <2>1
    <2>3. QED
      BY <1>1, <1>2, <2>1, <2>2
  <1>4. a < d
    BY <1>1, <1>2, SiteTypes
  <1>5. QED
    BY <1>2, <1>3, <1>4, AncestorsDef

\* Of two sites above a third, the lesser is above the other.
LEMMA Comparable ==
  ASSUME NEW d \in Sites, NEW a \in Ancestors[d], NEW b \in Ancestors[d] \union {d}, a < b
  PROVE  a \in Ancestors[b]
  <1>1. a \in Sites /\ b \in Sites /\ b <= d
    <2>1. a \in Sites
      BY AncestorsDef
    <2>2. CASE b = d
      BY <2>1, <2>2, SiteTypes
    <2>3. CASE b \in Ancestors[d]
      <3>1. b \in Sites /\ b < d
        BY <2>3, AncestorsDef
      <3>2. QED
        BY <2>1, <3>1, SiteTypes
    <2>4. QED
      BY <2>2, <2>3
  <1>2. \A k \in Sites : a < k /\ k <= b => Up[k] >= a
    <2> TAKE k \in Sites
    <2>1. k <= b => k <= d
      BY <1>1, SiteTypes
    <2>2. QED
      BY <2>1, AncestorsDef
  <1>3. QED
    BY <1>1, <1>2, AncestorsDef

\* The sites at and below a site.
LEMMA WholeDef ==
  ASSUME NEW s \in Sites, NEW d
  PROVE  /\ d \in Whole(s) <=> d \in Sites /\ (d = s \/ s \in Ancestors[d])
         /\ d \in Below(s) <=> d \in Sites /\ s \in Ancestors[d]
  BY DEF Whole, Below

\* A site and what is below it.
LEMMA WholeFacts ==
  ASSUME NEW s \in Sites
  PROVE  /\ Whole(s) \in SUBSET Sites /\ Below(s) \in SUBSET Sites
         /\ s \in Whole(s) /\ s \notin Below(s)
         /\ Below(s) \subseteq Whole(s)
         /\ \A d \in Whole(s) : d = s \/ d \in Below(s)
         /\ \A d \in Below(s) : s < d
  <1>1. \A d \in Below(s) : s < d
    BY WholeDef, AncestorsDef
  <1>2. s \notin Below(s)
    BY <1>1, SiteTypes
  <1>3. QED
    BY <1>1, <1>2, WholeDef DEF Whole

\* What is below a site is there with all that is below it.
LEMMA WholeIn ==
  ASSUME NEW s \in Sites, NEW c \in Below(s)
  PROVE  Whole(c) \subseteq Below(s)
  <1>1. c \in Sites /\ s \in Ancestors[c]
    BY WholeDef
  <1>2. \A d \in Whole(c) : d \in Sites /\ s \in Ancestors[d]
    BY <1>1, WholeDef, Transitive
  <1>3. QED
    BY <1>2, WholeDef

\* The parts of a site are within it.
LEMMA BelowIn ==
  ASSUME NEW s \in Sites, NEW c \in Whole(s)
  PROVE  Whole(c) \subseteq Whole(s) /\ Below(c) \subseteq Below(s)
  <1>1. CASE c = s
    BY <1>1
  <1>2. CASE c \in Below(s)
    BY <1>2, WholeIn, WholeFacts
  <1>3. QED
    BY <1>1, <1>2, WholeFacts

\* A child is below its parent, and above it is the parent and what is above the parent.
LEMMA KidFacts ==
  ASSUME NEW s \in Sites, NEW c \in Kids(s)
  PROVE  /\ c \in Sites /\ Up[c] = s /\ s < c /\ c # s
         /\ s \in Ancestors[c] /\ c \in Below(s)
         /\ Whole(c) \subseteq Below(s) /\ s \notin Whole(c)
         /\ \A a \in Ancestors[c] : a = s \/ a \in Ancestors[s]
  <1>1. c \in Sites /\ Up[c] = s
    BY DEF Kids
  <1>2. c # 1
    BY <1>1, ScopesAssumption, SiteTypes
  <1>3. s \in Ancestors[c]
    BY <1>1, <1>2, ScopesAssumption
  <1>4. s < c /\ c # s
    BY <1>1, <1>3, AncestorsDef, SiteTypes
  <1>5. c \in Below(s)
    BY <1>1, <1>3, WholeDef
  <1>6. Whole(c) \subseteq Below(s) /\ s \notin Whole(c)
    BY <1>5, WholeIn, WholeFacts
  <1>7. ASSUME NEW a \in Ancestors[c] PROVE a = s \/ a \in Ancestors[s]
    <2>1. a \in Sites /\ a < c
      BY <1>1, AncestorsDef
    <2>2. Up[c] >= a
      BY <1>1, <2>1, AncestorsDef, SiteTypes
    <2>3. a = s \/ a < s
      BY <1>1, <2>1, <2>2, SiteTypes
    <2>4. QED
      BY <1>1, <1>3, <2>3, Comparable
  <1>8. QED
    BY <1>1, <1>3, <1>4, <1>5, <1>6, <1>7

\* Parts of the page below different places of a walk have nothing in common.
LEMMA Apart ==
  ASSUME NEW s \in Sites, NEW t \in Sites, NEW c \in Kids(s), NEW e \in Kids(t),
         \/ s = t /\ c # e
         \/ s \in Ancestors[t] /\ t \notin Whole(c)
  PROVE  Whole(c) \cap Whole(e) = {}
  <1> SUFFICES ASSUME NEW d \in Whole(c), d \in Whole(e) PROVE FALSE
    OBVIOUS
  <1>1. c \in Sites /\ e \in Sites /\ Up[c] = s /\ Up[e] = t /\ s < c /\ t < e
    BY KidFacts
  <1>2. d \in Sites /\ c \in Ancestors[d] \union {d} /\ e \in Ancestors[d] \union {d}
    BY <1>1, WholeDef
  <1>3. s <= t
    BY AncestorsDef, SiteTypes
  <1>4. c # e
    BY <1>1, AncestorsDef, SiteTypes
  <1>5. c < e \/ e < c
    BY <1>1, <1>4, SiteTypes
  <1>6. CASE c < e
    <2>1. c \in Ancestors[d]
      BY <1>1, <1>2, <1>6, AncestorsDef, SiteTypes
    <2>2. c \in Ancestors[e]
      BY <1>2, <1>6, <2>1, Comparable
    <2>3. c = t \/ c \in Ancestors[t]
      BY <2>2, KidFacts
    <2>4. t \in Whole(c)
      BY <1>1, <2>3, WholeDef
    <2>5. CASE s = t
      BY <1>1, <2>3, <2>5, AncestorsDef, SiteTypes
    <2>6. QED
      BY <2>4, <2>5
  <1>7. CASE e < c
    <2>1. e \in Ancestors[d]
      BY <1>1, <1>2, <1>7, AncestorsDef, SiteTypes
    <2>2. e \in Ancestors[c]
      BY <1>2, <1>7, <2>1, Comparable
    <2>3. e = s \/ e \in Ancestors[s]
      BY <2>2, KidFacts
    <2>4. e <= s
      BY <1>1, <2>3, AncestorsDef, SiteTypes
    <2>5. QED
      BY <1>1, <1>3, <2>4, SiteTypes
  <1>8. QED
    BY <1>5, <1>6, <1>7

\* A set of numbers has a least element, and a greatest if it has a bound.
LEMMA LeastNat ==
  ASSUME NEW T \in SUBSET Nat, T # {}
  PROVE  \E n \in T : \A m \in T : n <= m
  <1>1. PICK R : R = OpToRel(<, Nat)
    OBVIOUS
  <1>2. IsWellFoundedOn(R, Nat)
    BY <1>1, NatLessThanWellFounded
  <1>3. \A m, n \in Nat : m < n => <<m, n>> \in R
    BY <1>1 DEF OpToRel
  <1>4. PICK n \in T : \A m \in T : ~(<<m, n>> \in R)
    BY <1>2, WFMin
  <1>5. \A m \in T : m \in Nat /\ n \in Nat /\ ~(m < n)
    BY <1>3, <1>4
  <1>6. \A m, k \in Nat : ~(m < k) => k <= m
    OBVIOUS
  <1>7. QED
    BY <1>5, <1>6

\* A bounded set of numbers has a greatest.
LEMMA GreatestNat ==
  ASSUME NEW T \in SUBSET Nat, T # {}, NEW b \in Nat, \A t \in T : t <= b
  PROVE  \E n \in T : \A m \in T : m <= n
  <1> DEFINE Gap == {b - t : t \in T}
  <1>1. Gap \in SUBSET Nat /\ Gap # {}
    <2>1. \A t \in T : t \in Nat /\ t <= b
      OBVIOUS
    <2>2. \A t \in T : b - t \in Nat
      BY <2>1
    <2>3. QED
      BY <2>2
  <1>2. PICK k \in Gap : \A m \in Gap : k <= m
    <2> HIDE DEF Gap
    <2>1. QED
      BY <1>1, LeastNat
  <1>3. PICK t \in T : k = b - t
    BY <1>2
  <1>4. \A m \in T : b - t <= b - m /\ m \in Nat /\ t \in Nat
    BY <1>2, <1>3
  <1>5. QED
    BY <1>4

\* The child a mount takes next is one of those left.
LEMMA MinFacts ==
  ASSUME NEW T \in SUBSET Nat, T # {}
  PROVE  Min(T) \in T
  BY LeastNat DEF Min

\* The child a diff takes next is one of those left, and the catcher is a frame.
LEMMA MaxFacts ==
  ASSUME NEW T \in SUBSET Nat, T # {}, NEW b \in Nat, \A t \in T : t <= b
  PROVE  Max(T) \in T /\ \A t \in T : t <= Max(T)
  <1>1. PICK n \in T : \A m \in T : m <= n
    BY GreatestNat
  <1>2. \A m \in T : n >= m
    BY <1>1
  <1>3. Max(T) \in T /\ \A t \in T : Max(T) >= t
    BY <1>2 DEF Max
  <1>4. QED
    BY <1>3

\* The way down to a site passes a child.
LEMMA KidOnTheWay ==
  ASSUME NEW s \in Sites, NEW d \in Below(s)
  PROVE  \E c \in Kids(s) : d \in Whole(c)
  <1> DEFINE T == {c \in Sites : Up[c] = s /\ c <= d}
  <1>1. d \in Sites /\ s \in Nat /\ d \in Nat /\ s < d /\ \A k \in Sites : s < k /\ k <= d => Up[k] >= s
    BY WholeDef, AncestorsDef, SiteTypes
  <1>2. s + 1 \in T
    <2>1. s + 1 \in Sites /\ s + 1 <= d /\ s + 1 # 1
      BY <1>1, SiteTypes DEF Sites
    <2>2. Up[s + 1] >= s
      BY <1>1, <2>1
    <2>3. Up[s + 1] < s + 1
      BY <2>1, ScopesAssumption, AncestorsDef
    <2>4. Up[s + 1] \in Nat
      BY <2>1, SiteTypes
    <2>5. Up[s + 1] = s
      BY <1>1, <2>2, <2>3, <2>4
    <2>6. QED
      BY <2>1, <2>5
  <1>3. T \in SUBSET Nat /\ T # {} /\ \A t \in T : t <= d
    BY <1>2, SiteTypes
  <1>4. PICK c \in T : \A m \in T : m <= c
    <2> HIDE DEF T
    <2>1. QED
      BY <1>1, <1>3, GreatestNat
  <1>5. c \in Kids(s) /\ c \in Sites /\ c <= d /\ Up[c] = s
    BY <1>4 DEF Kids
  <1>6. ASSUME NEW k \in Sites, c < k, k <= d PROVE Up[k] >= c
    <2>1. k \in Nat /\ c \in Nat /\ Up[k] \in Nat
      BY <1>5, SiteTypes
    <2>2. s < c
      BY <1>5, KidFacts
    <2>3. Up[k] >= s
      BY <1>1, <1>6, <2>1, <2>2
    <2>4. Up[k] # s
      BY <1>4, <1>6, <2>1
    <2>5. k # 1
      BY <1>1, <1>6, <2>1, <2>2
    <2>6. CASE s < Up[k] /\ Up[k] < c
      <3>1. Up[k] \in Ancestors[k]
        BY <2>5, ScopesAssumption
      <3>2. Up[c] >= Up[k]
        BY <3>1, <1>5, <1>6, <2>1, <2>6, AncestorsDef
      <3>3. QED
        BY <1>1, <1>5, <2>1, <2>6, <3>2
    <2>7. QED
      BY <1>1, <2>1, <2>3, <2>4, <2>6
  <1>7. c = d \/ c \in Ancestors[d]
    BY <1>1, <1>5, <1>6, AncestorsDef, SiteTypes
  <1>8. QED
    BY <1>1, <1>5, <1>7, WholeDef

-----------------------------------------------------------------------------
(* The stack of frames *)

FrameOf == [op : {"mount", "diff", "update"}, site : Sites, drop : SUBSET Sites,
            todo : SUBSET Sites, user : BOOLEAN, detached : BOOLEAN]
Object == Sites \X Who

Types ==
  /\ walk \in Seq(FrameOf)
  /\ tree \in SUBSET Sites /\ built \in SUBSET Sites
  /\ adopted \in SUBSET Sites /\ removed \in SUBSET Sites /\ recovery \in SUBSET Sites
  /\ fresh \in SUBSET Sites /\ missed \in SUBSET Sites /\ harmed \in SUBSET Sites
  /\ live \in SUBSET Object /\ subscribed \in SUBSET Object
  /\ dirty \in SUBSET Object /\ queued \in SUBSET Object
  /\ careless \in BOOLEAN

\* The children a frame has yet to come to.
Pending(f) == f.drop \union f.todo

\* What a walk has done is apart from what it has yet to do; a node it mounts may stand where it removed one.
Fits(f) ==
  /\ Pending(f) \subseteq Kids(f.site)
  /\ f.drop \cap f.todo = {}
  /\ Mounting(f) => f.drop = {}
  /\ f.op = "update" => Kind[f.site] = "scope"
  /\ f.site \in built
  /\ \A c \in Pending(f) : Whole(c) \cap built = {}
  /\ Diffing(f) => \A c \in Pending(f) : Whole(c) \cap (adopted \union removed) = {}

\* A frame is below the one it was pushed on, and below a mount is nothing but mounts.
Above(f, g) == f.site \in Ancestors[g.site] /\ (Mounting(f) => Mounting(g))

StackFits ==
  /\ \A i \in DOMAIN walk : Fits(walk[i])
  /\ \A i, j \in DOMAIN walk : i < j => Above(walk[i], walk[j])
  /\ ~Idle => walk[1].op = "update"
  /\ \A i \in DOMAIN walk : i > 1 /\ walk[i].op = "update" => walk[i].site \in adopted

Root == walk[1].site

\* What a diff has yet to reach.
Ahead(d) == \E i \in DOMAIN walk : Diffing(walk[i]) /\ \E c \in Pending(walk[i]) : d \in Whole(c)
\* Where a mount is under way.
InMount(d) == \E i \in DOMAIN walk : Mounting(walk[i]) /\ d \in Whole(walk[i].site)
\* The nodes being mounted, and the scopes being adopted.
Entered(s) == \E i \in DOMAIN walk : Mounting(walk[i]) /\ walk[i].site = s
Updating(s) == \E i \in DOMAIN walk : i > 1 /\ walk[i].op = "update" /\ walk[i].site = s

\* Any frame of the walk is a frame.
LEMMA FrameFacts ==
  ASSUME NEW f \in FrameOf
  PROVE  /\ f.op \in {"mount", "diff", "update"} /\ f.site \in Sites
         /\ f.drop \in SUBSET Sites /\ f.todo \in SUBSET Sites
         /\ Pending(f) \in SUBSET Sites
         /\ Mounting(f) <=> f.op = "mount"
         /\ Diffing(f) <=> f.op # "mount"
  BY DEF FrameOf, Pending, Mounting, Diffing

\* The stack of a walk under way.
LEMMA TopFacts ==
  ASSUME walk \in Seq(FrameOf), ~Idle
  PROVE  /\ Len(walk) \in Nat /\ Len(walk) > 0 /\ Len(walk) \in DOMAIN walk /\ 1 \in DOMAIN walk
         /\ Top = walk[Len(walk)] /\ Top \in FrameOf /\ walk[1] \in FrameOf
         /\ \A i \in DOMAIN walk : i \in Nat /\ i >= 1 /\ i <= Len(walk) /\ walk[i] \in FrameOf
         /\ DOMAIN walk = 1..Len(walk)
  BY DEF Idle, Top

\* A new frame.
LEMMA FrameMade ==
  ASSUME NEW op \in {"mount", "diff", "update"}, NEW s \in Sites, NEW drop \in SUBSET Sites,
         NEW todo \in SUBSET Sites, NEW det \in BOOLEAN
  PROVE  /\ Frame(op, s, drop, todo, det) \in FrameOf
         /\ Frame(op, s, drop, todo, det).op = op
         /\ Frame(op, s, drop, todo, det).site = s
         /\ Frame(op, s, drop, todo, det).drop = drop
         /\ Frame(op, s, drop, todo, det).todo = todo
  BY DEF Frame, FrameOf

\* The frame on top goes on to a child: nothing else changes.
LEMMA Advanced ==
  ASSUME walk \in Seq(FrameOf), ~Idle, NEW c, NEW w,
         \/ w = Advance(c) /\ Top.drop = {}
         \/ w = AdvanceDrop(c) /\ c \notin Top.todo
  PROVE  /\ w \in Seq(FrameOf) /\ Len(w) = Len(walk) /\ DOMAIN w = DOMAIN walk /\ w # <<>>
         /\ \A i \in DOMAIN walk :
              /\ w[i].op = walk[i].op /\ w[i].site = walk[i].site
              /\ w[i].drop \subseteq walk[i].drop /\ w[i].todo \subseteq walk[i].todo
              /\ i # Len(walk) => Pending(w[i]) = Pending(walk[i])
              /\ i = Len(walk) => Pending(w[i]) = Pending(walk[i]) \ {c}
  <1> DEFINE n == Len(walk)
  <1>1. n \in DOMAIN walk /\ Top = walk[n] /\ Top \in FrameOf /\ DOMAIN walk = 1..n /\ n \in Nat
        /\ \A i \in DOMAIN walk : walk[i] \in FrameOf
    BY TopFacts
  <1>2. CASE w = Advance(c) /\ Top.drop = {}
    <2>1. PICK g : g = [Top EXCEPT !.user = FALSE, !.todo = @ \ {c}]
      OBVIOUS
    <2>2. /\ g \in FrameOf /\ g.op = Top.op /\ g.site = Top.site /\ g.drop = Top.drop
          /\ g.todo = Top.todo \ {c}
      BY <1>1, <2>1 DEF FrameOf
    <2>3. w = [walk EXCEPT ![n] = g]
      BY <1>1, <1>2, <2>1 DEF Advance, Top, FrameOf
    <2>4. w \in Seq(FrameOf) /\ Len(w) = n /\ DOMAIN w = DOMAIN walk
      BY <1>1, <2>2, <2>3
    <2>5. w[n] = g /\ \A i \in DOMAIN walk : i # n => w[i] = walk[i]
      BY <1>1, <2>3
    <2>6. Pending(g) = Pending(Top) \ {c}
      BY <1>2, <2>2 DEF Pending
    <2>7. ASSUME NEW i \in DOMAIN walk
          PROVE  /\ w[i].op = walk[i].op /\ w[i].site = walk[i].site
                 /\ w[i].drop \subseteq walk[i].drop /\ w[i].todo \subseteq walk[i].todo
                 /\ i # n => Pending(w[i]) = Pending(walk[i])
                 /\ i = n => Pending(w[i]) = Pending(walk[i]) \ {c}
      BY <1>1, <2>2, <2>5, <2>6
    <2>8. QED
      BY <1>1, <2>4, <2>7
  <1>3. CASE w = AdvanceDrop(c) /\ c \notin Top.todo
    <2>1. PICK g : g = [Top EXCEPT !.user = FALSE, !.drop = @ \ {c}]
      OBVIOUS
    <2>2. /\ g \in FrameOf /\ g.op = Top.op /\ g.site = Top.site /\ g.todo = Top.todo
          /\ g.drop = Top.drop \ {c}
      BY <1>1, <2>1 DEF FrameOf
    <2>3. w = [walk EXCEPT ![n] = g]
      BY <1>1, <1>3, <2>1 DEF AdvanceDrop, Top, FrameOf
    <2>4. w \in Seq(FrameOf) /\ Len(w) = n /\ DOMAIN w = DOMAIN walk
      BY <1>1, <2>2, <2>3
    <2>5. w[n] = g /\ \A i \in DOMAIN walk : i # n => w[i] = walk[i]
      BY <1>1, <2>3
    <2>6. Pending(g) = Pending(Top) \ {c}
      BY <1>3, <2>2 DEF Pending
    <2>7. ASSUME NEW i \in DOMAIN walk
          PROVE  /\ w[i].op = walk[i].op /\ w[i].site = walk[i].site
                 /\ w[i].drop \subseteq walk[i].drop /\ w[i].todo \subseteq walk[i].todo
                 /\ i # n => Pending(w[i]) = Pending(walk[i])
                 /\ i = n => Pending(w[i]) = Pending(walk[i]) \ {c}
      BY <1>1, <2>2, <2>5, <2>6
    <2>8. QED
      BY <1>1, <2>4, <2>7
  <1>4. QED
    BY <1>2, <1>3

\* A frame still fits when the walk does something apart from its children.
LEMMA StillFits ==
  ASSUME NEW f \in FrameOf, NEW g \in FrameOf, Fits(f),
         g.op = f.op, g.site = f.site, g.drop \subseteq f.drop, g.todo \subseteq f.todo,
         g.site \in built',
         NEW D, built' \subseteq built \union D,
         Diffing(g) => adopted' \union removed' \subseteq adopted \union removed \union D,
         \A c \in Pending(g) : Whole(c) \cap D = {}
  PROVE  Fits(g)'
  <1>1. Pending(g) \subseteq Pending(f)
    BY DEF Pending
  <1>2. Pending(g) \subseteq Kids(g.site) /\ g.drop \cap g.todo = {}
    BY <1>1 DEF Fits
  <1>3. (Mounting(g) => g.drop = {}) /\ (g.op = "update" => Kind[g.site] = "scope")
    BY DEF Fits, Mounting
  <1>4. \A c \in Pending(g) : Whole(c) \cap built' = {}
    BY <1>1 DEF Fits
  <1>5. Diffing(g) => \A c \in Pending(g) : Whole(c) \cap (adopted' \union removed') = {}
    BY <1>1 DEF Fits, Diffing, Mounting
  <1>6. QED
    BY <1>2, <1>3, <1>4, <1>5 DEF Fits, Pending, Mounting, Diffing

-----------------------------------------------------------------------------
(* What a walk has left to do *)

\* The child a walk is about to enter is apart from all else it has to do.
LEMMA PendingApart ==
  ASSUME Types, StackFits, ~Idle, NEW c \in Pending(Top)
  PROVE  /\ c \in Sites /\ c \in Kids(Top.site) /\ Top.site \in Sites /\ Root \in Sites
         /\ Whole(c) \cap built = {}
         /\ Diffing(Top) => Whole(c) \cap (adopted \union removed) = {}
         /\ c \in Below(Root) /\ Whole(c) \subseteq Below(Root)
         /\ \A i \in DOMAIN walk : walk[i].site \in Ancestors[c]
         /\ \A i \in DOMAIN walk : walk[i].site \notin Whole(c)
         /\ \A i \in DOMAIN walk : \A e \in Pending(walk[i]) :
              (i # Len(walk) \/ e # c) => Whole(e) \cap Whole(c) = {}
  <1> DEFINE n == Len(walk)
  <1>0. walk \in Seq(FrameOf)
    BY DEF Types
  <1>1. /\ n \in DOMAIN walk /\ Top = walk[n] /\ Top \in FrameOf /\ 1 \in DOMAIN walk /\ n \in Nat
        /\ \A i \in DOMAIN walk : walk[i] \in FrameOf /\ i \in Nat /\ i <= n /\ i >= 1
    BY <1>0, TopFacts
  <1>2. Top.site \in Sites /\ Root \in Sites
    BY <1>1, FrameFacts DEF Root
  <1>3. Fits(Top)
    BY <1>1 DEF StackFits
  <1>4. /\ c \in Kids(Top.site) /\ Whole(c) \cap built = {}
        /\ Diffing(Top) => Whole(c) \cap (adopted \union removed) = {}
    BY <1>3 DEF Fits
  <1>5. c \in Sites /\ Top.site \in Ancestors[c] /\ Whole(c) \subseteq Below(Top.site)
    BY <1>2, <1>4, KidFacts
  <1>6. \A i \in DOMAIN walk : walk[i].site \in Sites /\ walk[i].site \in built
    BY <1>1, FrameFacts DEF StackFits, Fits
  <1>7. \A i \in DOMAIN walk : i # n => walk[i].site \in Ancestors[Top.site]
    BY <1>1 DEF StackFits, Above
  <1>8. \A i \in DOMAIN walk : walk[i].site \in Ancestors[c]
    <2> TAKE i \in DOMAIN walk
    <2>1. CASE i = n
      BY <1>1, <1>5, <2>1
    <2>2. CASE i # n
      <3>1. walk[i].site \in Ancestors[Top.site]
        BY <1>7, <2>2
      <3>2. QED
        BY <1>5, <3>1, Transitive
    <2>3. QED
      BY <2>1, <2>2
  <1>9. \A i \in DOMAIN walk : walk[i].site \notin Whole(c)
    BY <1>4, <1>6
  <1>10. c \in Below(Root) /\ Whole(c) \subseteq Below(Root)
    <2>1. Root \in Ancestors[c]
      BY <1>1, <1>8 DEF Root
    <2>2. c \in Below(Root)
      BY <1>2, <1>5, <2>1, WholeDef
    <2>3. QED
      BY <1>2, <2>2, WholeIn
  <1>11. ASSUME NEW i \in DOMAIN walk, NEW e \in Pending(walk[i]), i # n \/ e # c
         PROVE  Whole(e) \cap Whole(c) = {}
    <2>1. Fits(walk[i]) /\ walk[i].site \in Sites
      BY <1>6 DEF StackFits
    <2>2. e \in Kids(walk[i].site) /\ Whole(e) \cap built = {}
      BY <2>1 DEF Fits
    <2>3. CASE i = n
      <3>1. e \in Kids(Top.site) /\ e # c
        BY <1>1, <1>11, <2>2, <2>3
      <3>2. QED
        BY <1>2, <1>4, <3>1, Apart
    <2>4. CASE i # n
      <3>1. walk[i].site \in Ancestors[Top.site] /\ Top.site \notin Whole(e)
        BY <1>1, <1>6, <1>7, <2>2, <2>4
      <3>2. QED
        BY <1>2, <1>4, <2>1, <2>2, <3>1, Apart
    <2>5. QED
      BY <2>3, <2>4
  <1>12. QED
    BY <1>2, <1>4, <1>5, <1>8, <1>9, <1>10, <1>11

Advances(w, c) ==
  \/ w = Advance(c) /\ Top.drop = {}
  \/ w = AdvanceDrop(c) /\ c \notin Top.todo

\* What going on to a child changes.
LEMMA AdvancesFacts ==
  ASSUME Types, ~Idle, NEW c, NEW w, Advances(w, c)
  PROVE  /\ w \in Seq(FrameOf) /\ Len(w) = Len(walk) /\ DOMAIN w = DOMAIN walk /\ w # <<>>
         /\ \A i \in DOMAIN walk :
              /\ w[i].op = walk[i].op /\ w[i].site = walk[i].site
              /\ w[i].drop \subseteq walk[i].drop /\ w[i].todo \subseteq walk[i].todo
              /\ i # Len(walk) => Pending(w[i]) = Pending(walk[i])
              /\ i = Len(walk) => Pending(w[i]) = Pending(walk[i]) \ {c}
  <1>1. walk \in Seq(FrameOf)
    BY DEF Types
  <1>2. QED
    BY <1>1, Advanced DEF Advances

\* What a step at child c may add: nothing but the child and what is below it.
DoneAt(c) ==
  /\ built \subseteq built' /\ built' \subseteq built \union Whole(c)
  /\ adopted \subseteq adopted'
  /\ Diffing(Top) => adopted' \union removed' \subseteq adopted \union removed \union Whole(c)
  /\ Mounting(Top) => adopted' = adopted /\ removed' = removed

\* The frames under the one on top, and it too once it has gone on to child c.
LEMMA AdvancedFits ==
  ASSUME Types, StackFits, ~Idle, NEW c \in Pending(Top), NEW w, Advances(w, c), DoneAt(c)
  PROVE  /\ \A i \in DOMAIN walk : Fits(w[i])'
         /\ \A i, j \in DOMAIN walk : i < j => Above(w[i], w[j])
         /\ w[1].op = "update" /\ w[1].site = Root
         /\ \A i \in DOMAIN walk : i > 1 /\ w[i].op = "update" => w[i].site \in adopted'
  <1> DEFINE n == Len(walk)
  <1>0. walk \in Seq(FrameOf)
    BY DEF Types
  <1>1. /\ n \in DOMAIN walk /\ Top = walk[n] /\ 1 \in DOMAIN walk
        /\ \A i \in DOMAIN walk : walk[i] \in FrameOf /\ i \in Nat /\ i <= n
    BY <1>0, TopFacts
  <1>2. /\ w \in Seq(FrameOf) /\ DOMAIN w = DOMAIN walk
        /\ \A i \in DOMAIN walk :
              /\ w[i].op = walk[i].op /\ w[i].site = walk[i].site
              /\ w[i].drop \subseteq walk[i].drop /\ w[i].todo \subseteq walk[i].todo
              /\ i # n => Pending(w[i]) = Pending(walk[i])
              /\ i = n => Pending(w[i]) = Pending(walk[i]) \ {c}
    BY AdvancesFacts
  <1>3. \A i \in DOMAIN walk : Mounting(w[i]) <=> Mounting(walk[i])
    BY <1>2 DEF Mounting
  <1>4. ASSUME NEW i \in DOMAIN walk PROVE Fits(w[i])'
    <2>1. walk[i] \in FrameOf /\ w[i] \in FrameOf /\ Fits(walk[i]) /\ walk[i].site \in built
      BY <1>1, <1>2 DEF StackFits, Fits
    <2>2. \A e \in Pending(w[i]) : Whole(e) \cap Whole(c) = {}
      BY <1>2, PendingApart
    <2>3. Diffing(w[i]) => adopted' \union removed' \subseteq adopted \union removed \union Whole(c)
      BY <1>1, <1>3 DEF DoneAt, Diffing
    <2>4. w[i].site \in built' /\ built' \subseteq built \union Whole(c)
      BY <1>2, <2>1 DEF DoneAt
    <2>5. PICK f \in FrameOf, g \in FrameOf : f = walk[i] /\ g = w[i]
      BY <2>1
    <2>6. Fits(g)'
      BY <1>2, <2>1, <2>2, <2>3, <2>4, <2>5, StillFits
    <2>7. QED
      BY <2>5, <2>6
  <1>5. \A i, j \in DOMAIN walk : i < j => Above(w[i], w[j])
    BY <1>2, <1>3 DEF StackFits, Above
  <1>6. w[1].op = "update" /\ w[1].site = Root
    BY <1>1, <1>2 DEF StackFits, Root
  <1>7. \A i \in DOMAIN walk : i > 1 /\ w[i].op = "update" => w[i].site \in adopted'
    BY <1>2 DEF StackFits, DoneAt
  <1>8. QED
    BY <1>4, <1>5, <1>6, <1>7

\* A walk goes on to a child it drops, or adopts as it is.
LEMMA StackAdvances ==
  ASSUME Types, StackFits, ~Idle, NEW c \in Pending(Top), NEW w, Advances(w, c), DoneAt(c), walk' = w
  PROVE  /\ w \in Seq(FrameOf) /\ ~Idle' /\ Root' = Root
         /\ StackFits'
         /\ \A d : Ahead(d) /\ d \notin Whole(c) => Ahead(d)'
         /\ \A d : InMount(d)' => InMount(d)
         /\ \A s : Entered(s)' <=> Entered(s)
         /\ \A s : Updating(s)' <=> Updating(s)
  <1> DEFINE n == Len(walk)
  <1>0. walk \in Seq(FrameOf)
    BY DEF Types
  <1>1. /\ n \in DOMAIN walk /\ Top = walk[n] /\ 1 \in DOMAIN walk
        /\ \A i \in DOMAIN walk : walk[i] \in FrameOf /\ i \in Nat /\ i <= n
    BY <1>0, TopFacts
  <1>2. /\ w \in Seq(FrameOf) /\ DOMAIN w = DOMAIN walk /\ w # <<>>
        /\ \A i \in DOMAIN walk :
              /\ w[i].op = walk[i].op /\ w[i].site = walk[i].site
              /\ i # n => Pending(w[i]) = Pending(walk[i])
              /\ i = n => Pending(w[i]) = Pending(walk[i]) \ {c}
    BY AdvancesFacts
  <1>3. /\ \A i \in DOMAIN walk : Fits(w[i])'
        /\ \A i, j \in DOMAIN walk : i < j => Above(w[i], w[j])
        /\ w[1].op = "update" /\ w[1].site = Root
        /\ \A i \in DOMAIN walk : i > 1 /\ w[i].op = "update" => w[i].site \in adopted'
    BY AdvancedFits
  <1>4. ~Idle' /\ Root' = Root
    BY <1>2, <1>3 DEF Idle, Root
  <1>5. StackFits'
    <2>1. \A i \in DOMAIN w : Fits(walk[i])'
      <3> TAKE i \in DOMAIN w
      <3>1. PICK g : g = w[i]
        OBVIOUS
      <3>2. Fits(g)'
        BY <1>2, <1>3, <3>1
      <3>3. QED
        BY <3>1, <3>2 DEF Fits, Pending, Mounting, Diffing
    <2>2. \A i, j \in DOMAIN w : i < j => Above(walk[i], walk[j])'
      BY <1>2, <1>3 DEF Above, Mounting
    <2>3. QED
      BY <1>2, <1>3, <2>1, <2>2 DEF StackFits
  <1>6. ASSUME NEW d, Ahead(d), d \notin Whole(c) PROVE Ahead(d)'
    <2>1. PICK i \in DOMAIN walk : Diffing(walk[i]) /\ \E e \in Pending(walk[i]) : d \in Whole(e)
      BY <1>6 DEF Ahead
    <2>2. PICK e \in Pending(walk[i]) : d \in Whole(e)
      BY <2>1
    <2>3. e \in Pending(w[i]) /\ Diffing(w[i])
      BY <1>2, <1>6, <2>1, <2>2 DEF Diffing, Mounting
    <2>4. QED
      BY <1>2, <2>2, <2>3 DEF Ahead, Pending, Diffing, Mounting
  <1>7. \A d : InMount(d)' => InMount(d)
    BY <1>2 DEF InMount, Mounting
  <1>8. \A s : Entered(s)' <=> Entered(s)
    BY <1>2 DEF Entered, Mounting
  <1>9. \A s : Updating(s)' <=> Updating(s)
    BY <1>2 DEF Updating
  <1>10. QED
    BY <1>2, <1>4, <1>5, <1>6, <1>7, <1>8, <1>9

\* A walk enters a child.
LEMMA StackPushes ==
  ASSUME Types, StackFits, ~Idle, NEW c \in Pending(Top), NEW w, Advances(w, c), DoneAt(c),
         NEW f \in FrameOf, walk' = Append(w, f),
         f.site = c, Fits(f)', Mounting(Top) => Mounting(f),
         f.op = "update" => c \in adopted'
  PROVE  /\ walk' \in Seq(FrameOf) /\ ~Idle' /\ Root' = Root
         /\ StackFits'
         /\ \A d : Ahead(d) /\ d \notin Whole(c) => Ahead(d)'
         /\ \A d : Diffing(f) /\ (\E e \in Pending(f) : d \in Whole(e)) => Ahead(d)'
         /\ \A d : InMount(d)' => InMount(d) \/ (Mounting(f) /\ d \in Whole(c))
         /\ \A s : Entered(s)' <=> Entered(s) \/ (Mounting(f) /\ s = c)
         /\ \A s : Updating(s)' <=> Updating(s) \/ (f.op = "update" /\ s = c)
  <1> DEFINE n == Len(walk)
  <1>0. walk \in Seq(FrameOf)
    BY DEF Types
  <1>1. /\ n \in DOMAIN walk /\ Top = walk[n] /\ 1 \in DOMAIN walk /\ n \in Nat /\ n > 0 /\ DOMAIN walk = 1..n
        /\ \A i \in DOMAIN walk : walk[i] \in FrameOf /\ i \in Nat /\ i <= n
    BY <1>0, TopFacts
  <1>2. /\ w \in Seq(FrameOf) /\ DOMAIN w = DOMAIN walk /\ Len(w) = n
        /\ \A i \in DOMAIN walk :
              /\ w[i].op = walk[i].op /\ w[i].site = walk[i].site
              /\ i # n => Pending(w[i]) = Pending(walk[i])
              /\ i = n => Pending(w[i]) = Pending(walk[i]) \ {c}
    BY AdvancesFacts
  <1>3. /\ \A i \in DOMAIN walk : Fits(w[i])'
        /\ \A i, j \in DOMAIN walk : i < j => Above(w[i], w[j])
        /\ w[1].op = "update" /\ w[1].site = Root
        /\ \A i \in DOMAIN walk : i > 1 /\ w[i].op = "update" => w[i].site \in adopted'
    BY AdvancedFits
  <1>4. PICK v : v = Append(w, f)
    OBVIOUS
  <1>5. /\ v \in Seq(FrameOf) /\ v # <<>> /\ DOMAIN v = 1..(n + 1) /\ v[n + 1] = f
        /\ \A i \in DOMAIN walk : v[i] = w[i] /\ i \in DOMAIN v
    BY <1>1, <1>2, <1>4
  <1>6. \A i \in DOMAIN v : i \in DOMAIN walk \/ i = n + 1
    BY <1>1, <1>5
  <1>7. n + 1 \in DOMAIN v /\ n + 1 # 1 /\ n + 1 > 1 /\ n + 1 \notin DOMAIN walk
        /\ \A i \in DOMAIN walk : ~(n + 1 < i)
    BY <1>1, <1>5
  <1>8. ~Idle' /\ Root' = Root
    BY <1>1, <1>3, <1>4, <1>5 DEF Idle, Root
  <1>9. \A i \in DOMAIN walk : Above(w[i], f)
    <2> TAKE i \in DOMAIN walk
    <2>1. walk[i].site \in Ancestors[c]
      BY PendingApart
    <2>2. Mounting(walk[i]) => Mounting(Top)
      BY <1>1 DEF StackFits, Above
    <2>3. QED
      BY <1>2, <2>1, <2>2 DEF Above, Mounting
  <1>10. StackFits'
    <2>1. \A i \in DOMAIN v : Fits(v[i])'
      <3> TAKE i \in DOMAIN v
      <3>1. CASE i \in DOMAIN walk
        <4>1. Fits(w[i])' /\ v[i] = w[i]
          BY <1>3, <1>5, <3>1
        <4>2. QED
          BY <4>1 DEF Fits, Pending, Mounting, Diffing
      <3>2. CASE i = n + 1
        BY <1>5, <3>2 DEF Fits, Pending, Mounting, Diffing
      <3>3. QED
        BY <1>6, <3>1, <3>2
    <2>2. ASSUME NEW i \in DOMAIN v, NEW j \in DOMAIN v, i < j PROVE Above(v[i], v[j])
      <3>1. CASE j \in DOMAIN walk
        <4>1. i \in DOMAIN walk
          BY <1>6, <1>7, <2>2, <3>1
        <4>2. QED
          BY <1>3, <1>5, <2>2, <3>1, <4>1
      <3>2. CASE j = n + 1
        <4>1. i \in DOMAIN walk
          BY <1>1, <1>6, <2>2, <3>2
        <4>2. QED
          BY <1>5, <1>9, <3>2, <4>1
      <3>3. QED
        BY <1>6, <3>1, <3>2
    <2>3. v[1].op = "update"
      BY <1>1, <1>3, <1>5
    <2>4. \A i \in DOMAIN v : i > 1 /\ v[i].op = "update" => v[i].site \in adopted'
      BY <1>3, <1>5, <1>6
    <2>5. walk' = v
      BY <1>4
    <2>6. \A i \in DOMAIN v : Fits(walk[i])'
      BY <2>1, <2>5 DEF Fits, Pending, Mounting, Diffing
    <2>7. \A i, j \in DOMAIN v : i < j => Above(walk[i], walk[j])'
      BY <2>2, <2>5 DEF Above, Mounting
    <2>8. QED
      BY <2>3, <2>4, <2>5, <2>6, <2>7 DEF StackFits
  <1>11. walk' = v
    BY <1>4
  <1>12. ASSUME NEW d, Ahead(d), d \notin Whole(c) PROVE Ahead(d)'
    <2>1. PICK i \in DOMAIN walk : Diffing(walk[i]) /\ \E e \in Pending(walk[i]) : d \in Whole(e)
      BY <1>12 DEF Ahead
    <2>2. PICK e \in Pending(walk[i]) : d \in Whole(e)
      BY <2>1
    <2>3. e \in Pending(v[i]) /\ Diffing(v[i])
      BY <1>2, <1>5, <1>12, <2>1, <2>2 DEF Diffing, Mounting
    <2>4. QED
      BY <1>5, <1>11, <2>2, <2>3 DEF Ahead, Pending, Diffing, Mounting
  <1>13. \A d : Diffing(f) /\ (\E e \in Pending(f) : d \in Whole(e)) => Ahead(d)'
    BY <1>5, <1>7, <1>11 DEF Ahead, Pending, Diffing, Mounting
  <1>14. \A i \in DOMAIN walk : v[i].op = walk[i].op /\ v[i].site = walk[i].site
    BY <1>2, <1>5
  <1>15. \A d : InMount(d)' => InMount(d) \/ (Mounting(f) /\ d \in Whole(c))
    BY <1>5, <1>6, <1>11, <1>14 DEF InMount, Mounting
  <1>16. \A s : Entered(s)' <=> Entered(s) \/ (Mounting(f) /\ s = c)
    BY <1>5, <1>6, <1>7, <1>11, <1>14 DEF Entered, Mounting
  <1>17. \A s : Updating(s)' <=> Updating(s) \/ (f.op = "update" /\ s = c)
    BY <1>5, <1>6, <1>7, <1>11, <1>14 DEF Updating
  <1>18. walk' \in Seq(FrameOf)
    BY <1>5, <1>11
  <1>19. QED
    BY <1>8, <1>10, <1>12, <1>13, <1>15, <1>16, <1>17, <1>18

\* What the cut stack has are its first frames.
StackCutTo(k) ==
  /\ walk' \in Seq(FrameOf) /\ walk' # <<>> /\ DOMAIN walk' = 1..k
  /\ \A i \in 1..k : walk'[i] = walk[i]

\* A walk leaves the frames above the first k, and forgets what it did below site b, which the others are apart from.
LEMMA StackCuts ==
  ASSUME Types, StackFits, ~Idle, NEW k \in 1..Len(walk), StackCutTo(k),
         NEW D, built' \subseteq built, adopted' = adopted,
         removed' \subseteq removed \union D,
         \A i \in 1..k : walk[i].site \in built' /\ \A c \in Pending(walk[i]) : Whole(c) \cap D = {}
  PROVE  /\ ~Idle' /\ Root' = Root /\ StackFits'
         /\ \A d : Ahead(d) => Ahead(d)' \/ \E i \in DOMAIN walk : i > k /\ \E c \in Pending(walk[i]) : d \in Whole(c)
         /\ \A d : InMount(d)' => InMount(d)
         /\ \A s : Entered(s)' => Entered(s)
         /\ \A s : Entered(s) => Entered(s)' \/ \E i \in DOMAIN walk : i > k /\ walk[i].site = s /\ Mounting(walk[i])
         /\ \A s : Updating(s)' => Updating(s)
         /\ \A s : Updating(s) => Updating(s)' \/ \E i \in DOMAIN walk : i > k /\ walk[i].site = s /\ walk[i].op = "update"
  <1>0. walk \in Seq(FrameOf)
    BY DEF Types
  <1>1. /\ DOMAIN walk = 1..Len(walk) /\ Len(walk) \in Nat /\ k \in Nat /\ k <= Len(walk) /\ k >= 1
        /\ \A i \in DOMAIN walk : walk[i] \in FrameOf /\ i \in Nat
    BY <1>0, TopFacts
  <1>2. /\ \A i \in 1..k : i \in DOMAIN walk
        /\ \A i \in DOMAIN walk : i \in 1..k \/ i > k
    BY <1>1
  <1>3. PICK v : v = walk'
    OBVIOUS
  <1>4. v # <<>> /\ DOMAIN v = 1..k /\ \A i \in 1..k : v[i] = walk[i]
    BY <1>3 DEF StackCutTo
  <1>5. 1 \in 1..k
    BY <1>1
  <1>6. ~Idle' /\ Root' = Root
    BY <1>3, <1>4, <1>5 DEF Idle, Root
  <1>7. StackFits'
    <2>1. ASSUME NEW i \in 1..k PROVE Fits(walk[i])'
      <3>1. PICK f \in FrameOf : f = walk[i]
        BY <1>1, <1>2
      <3>2. Fits(f) /\ f.site \in built' /\ \A c \in Pending(f) : Whole(c) \cap D = {}
        BY <1>2, <3>1 DEF StackFits
      <3>3. Diffing(f) => adopted' \union removed' \subseteq adopted \union removed \union D
        OBVIOUS
      <3>4. built' \subseteq built \union D
        OBVIOUS
      <3>5. Fits(f)'
        BY <3>2, <3>3, <3>4, StillFits
      <3>6. walk'[i] = f
        BY <1>3, <1>4, <3>1
      <3>7. QED
        BY <3>5, <3>6 DEF Fits, Pending, Mounting, Diffing
    <2>2. \A i, j \in 1..k : i < j => Above(walk[i], walk[j])'
      BY <1>2, <1>3, <1>4 DEF StackFits, Above, Mounting
    <2>3. walk'[1].op = "update"
      BY <1>3, <1>4, <1>5 DEF StackFits
    <2>4. \A i \in 1..k : i > 1 /\ walk'[i].op = "update" => walk'[i].site \in adopted'
      BY <1>2, <1>3, <1>4 DEF StackFits
    <2>5. QED
      BY <1>3, <1>4, <2>1, <2>2, <2>3, <2>4 DEF StackFits
  <1>8. \A d : Ahead(d) => Ahead(d)' \/ \E i \in DOMAIN walk : i > k /\ \E c \in Pending(walk[i]) : d \in Whole(c)
    <2> SUFFICES ASSUME NEW d, Ahead(d) PROVE Ahead(d)' \/ \E i \in DOMAIN walk : i > k /\ \E c \in Pending(walk[i]) : d \in Whole(c)
      OBVIOUS
    <2>1. PICK i \in DOMAIN walk : Diffing(walk[i]) /\ \E e \in Pending(walk[i]) : d \in Whole(e)
      BY DEF Ahead
    <2>2. CASE i \in 1..k
      BY <1>3, <1>4, <2>1, <2>2 DEF Ahead, Pending, Diffing, Mounting
    <2>3. CASE i > k
      BY <2>1, <2>3
    <2>4. QED
      BY <1>2, <2>2, <2>3
  <1>9. \A d : InMount(d)' => InMount(d)
    BY <1>2, <1>3, <1>4 DEF InMount, Mounting
  <1>10. \A s : Entered(s)' => Entered(s)
    BY <1>2, <1>3, <1>4 DEF Entered, Mounting
  <1>11. \A s : Entered(s) => Entered(s)' \/ \E i \in DOMAIN walk : i > k /\ walk[i].site = s /\ Mounting(walk[i])
    BY <1>2, <1>3, <1>4 DEF Entered, Mounting
  <1>12. \A s : Updating(s) => Updating(s)' \/ \E i \in DOMAIN walk : i > k /\ walk[i].site = s /\ walk[i].op = "update"
    BY <1>2, <1>3, <1>4 DEF Updating
  <1>13. \A s : Updating(s)' => Updating(s)
    BY <1>2, <1>3, <1>4 DEF Updating
  <1>14. QED
    BY <1>6, <1>7, <1>8, <1>9, <1>10, <1>11, <1>12, <1>13

-----------------------------------------------------------------------------
(* Walks begin and end *)

\* A walk begins.
LEMMA StackStarts ==
  ASSUME Idle, NEW f \in FrameOf, walk' = Append(<<>>, f), f.op = "update", Fits(f)'
  PROVE  /\ walk' \in Seq(FrameOf) /\ ~Idle' /\ Root' = f.site /\ StackFits'
         /\ \A d : (\E e \in Pending(f) : d \in Whole(e)) => Ahead(d)'
         /\ \A d : ~InMount(d)' /\ ~Entered(d)' /\ ~Updating(d)'
  <1>1. PICK v : v = Append(<<>>, f)
    OBVIOUS
  <1>2. v \in Seq(FrameOf) /\ v # <<>> /\ DOMAIN v = {1} /\ v[1] = f
    BY <1>1
  <1>3. walk' = v
    BY <1>1
  <1>4. Diffing(f) /\ ~Mounting(f)
    BY DEF Diffing, Mounting
  <1>5. StackFits'
    <2>1. \A i \in DOMAIN v : Fits(walk[i])'
      BY <1>2, <1>3 DEF Fits, Pending, Mounting, Diffing
    <2>2. \A i, j \in DOMAIN v : ~(i < j)
      BY <1>2
    <2>3. \A i \in DOMAIN v : ~(i > 1)
      BY <1>2
    <2>4. QED
      BY <1>2, <1>3, <2>1, <2>2, <2>3 DEF StackFits
  <1>6. \A d : (\E e \in Pending(f) : d \in Whole(e)) => Ahead(d)'
    BY <1>2, <1>3, <1>4 DEF Ahead, Pending, Diffing, Mounting
  <1>7. \A d : ~InMount(d)' /\ ~Entered(d)' /\ ~Updating(d)'
    BY <1>2, <1>3, <1>4 DEF InMount, Entered, Updating, Mounting
  <1>8. QED
    BY <1>2, <1>3, <1>5, <1>6, <1>7 DEF Idle, Root

\* No walk, no frame.
LEMMA StackEmpty ==
  ASSUME walk = <<>>
  PROVE  /\ walk \in Seq(FrameOf) /\ Idle /\ StackFits
         /\ \A d : ~Ahead(d) /\ ~InMount(d) /\ ~Entered(d) /\ ~Updating(d)
  BY DEF Idle, StackFits, Ahead, InMount, Entered, Updating
-----------------------------------------------------------------------------
(* The inductive invariant *)

\* What is above a node of the page or of the walk is there too, and a walk stays within its root.
SitesFit ==
  /\ \A s \in tree : Ancestors[s] \subseteq tree
  /\ Idle => built = {} /\ adopted = {} /\ removed = {} /\ recovery = {}
  /\ ~Idle => /\ Root \in tree /\ built \subseteq Whole(Root)
              /\ \A s \in built : Ancestors[s] \cap Whole(Root) \subseteq built
              /\ adopted \union removed \union recovery \subseteq Below(Root)
  /\ \A s \in adopted : Kind[s] = "scope"

\* What each kind of node can hold.
KindsFit ==
  /\ \A r \in live : Kind[r[1]] # "boundary"
  /\ \A r \in subscribed : Kind[r[1]] = "scope"
  /\ \A r \in queued : Kind[r[1]] = "component"

\* What is registered, bound or waiting at a site.
Holds(s, who) == <<s, who>> \in live \union queued

\* Objects of the page are in the page, and the walk has come by them or will; those it made
\* are where it has been; one it will not find again when it panics takes an adoption.
ObjectsFit ==
  /\ dirty \subseteq subscribed /\ subscribed \subseteq live
  /\ \A s \in Sites : Holds(s, "old") =>
       s \in tree /\ ~InMount(s) /\ (~Idle /\ s \in Whole(Root) => s \in built \/ Ahead(s))
  /\ \A s \in Sites : Holds(s, "new") => s \in built
  /\ \A s \in Sites : <<s, "new">> \in subscribed => s \in recovery
  /\ \A s \in Sites : <<s, "new">> \in live /\ Kind[s] = "scope" =>
       <<s, "new">> \in subscribed \/ Updating(s)
  /\ \A s \in Sites : Updating(s) => <<s, "new">> \in live
  /\ \A s \in Sites : <<s, "orphan">> \notin subscribed
  /\ \A s \in Sites : Holds(s, "orphan") => careless

\* What is in the page works, or the walk has taken it over; what the walk made works, or is being made.
AliveFit ==
  /\ \A s \in tree \ harmed : Kind[s] # "boundary" =>
       <<s, "old">> \in live \/ s \in adopted \union removed
  /\ \A s \in built : Kind[s] # "boundary" =>
       \/ <<s, "old">> \in live \/ <<s, "new">> \in live
       \/ Kind[s] = "scope" /\ Entered(s)
       \/ s \in harmed
  /\ \A s \in Sites : <<s, "old">> \in live /\ Kind[s] = "scope" => <<s, "old">> \in subscribed

\* A scope shows its dependencies as they are, or is marked, or changed before it subscribed.
LatestFit ==
  /\ \A s \in tree \ harmed : Kind[s] = "scope" =>
       s \in fresh \union missed \/ <<s, "old">> \in dirty \/ s \in adopted \union removed
  /\ \A s \in built : Kind[s] = "scope" =>
       \/ s \in fresh \union missed \/ <<s, "old">> \in dirty \/ <<s, "new">> \in dirty
       \/ s \in harmed /\ <<s, "new">> \notin live /\ ~Entered(s)

ScopesInv ==
  Types /\ StackFits /\ SitesFit /\ KindsFit /\ ObjectsFit /\ AliveFit /\ LatestFit
-----------------------------------------------------------------------------
(* What a step of a walk does to the objects *)

\* The sites whose objects of the page go; that are built; that get an object of the walk, a
\* subscribed one, one whose effects wait; that are bound again; adopted; removed; rendered.
Effect == [gone : SUBSET Sites, done : SUBSET Sites, made : SUBSET Sites, heard : SUBSET Sites,
           waits : SUBSET Sites, bound : SUBSET Sites, taken : SUBSET Sites, cut : SUBSET Sites,
           shown : SUBSET Sites]

Does(e) ==
  /\ live' = (live \ Old(e.gone)) \union New(e.made) \union Old(e.bound)
  /\ subscribed' = (subscribed \ Old(e.gone)) \union New(e.heard)
  /\ dirty' = dirty \ Old(e.gone)
  /\ queued' = (queued \ Old(e.gone)) \union New(e.waits)
  /\ built' = built \union e.done
  /\ adopted' = adopted \union e.taken /\ removed' = removed \union e.cut
  /\ recovery' = recovery \union e.heard
  /\ fresh' = fresh \union e.shown
  /\ missed' \subseteq missed /\ \A s \in missed \ missed' : Kind[s] = "scope" => s \in e.shown
  /\ tree' = tree /\ careless' = careless /\ harmed' = harmed

\* The walk goes on, within the part of the page it renders.
InRoot(e) ==
  /\ ~Idle /\ ~Idle' /\ Root' = Root
  /\ e.done \subseteq Whole(Root)
  /\ \A s \in e.done : Ancestors[s] \cap Whole(Root) \subseteq built \union e.done
  /\ e.taken \union e.cut \union e.heard \subseteq Below(Root)

OfKind(e) ==
  /\ \A s \in e.taken \union e.heard : Kind[s] = "scope"
  /\ \A s \in e.made : Kind[s] # "boundary"
  /\ \A s \in e.waits : Kind[s] = "component"
  /\ \A s \in e.bound : Kind[s] = "element"

\* No object is lost from sight, and none is made where the walk has not been.
Tracked(e) ==
  /\ e.gone \cap built = {} /\ e.gone \cap tree \subseteq e.taken \union e.cut
  /\ e.made \union e.waits \subseteq built \union e.done /\ e.heard \subseteq e.made
  /\ \A s \in e.bound : s \in tree /\ s \in built \union e.done /\ ~InMount(s)'
  /\ \A s \in tree : Ahead(s) /\ s \notin e.gone => s \in built \union e.done \/ Ahead(s)'
  /\ \A s \in tree : InMount(s)' => InMount(s) \/ s \in e.gone
  /\ \A s \in e.made : Kind[s] = "scope" => s \in e.heard \/ Updating(s)'
  /\ \A s \in Sites : Updating(s) => Updating(s)' \/ s \in e.heard
  /\ \A s \in Sites : Updating(s)' => Updating(s) \/ s \in e.made

\* A site that is built has an object, or gets one when it is left, or keeps that of the page.
Kept(e, s) == s \in tree /\ s \notin built \union e.made \union adopted' \union removed' /\ ~Entered(s)'
Completed(e) ==
  /\ \A s \in Sites : Kind[s] = "scope" /\ Entered(s) => Entered(s)' \/ s \in e.made
  /\ \A s \in Sites : Kind[s] = "scope" /\ Entered(s)' => Entered(s) \/ s \in e.shown
  /\ \A s \in e.done : Kind[s] # "boundary" =>
       s \in e.made \union e.bound \/ (Kind[s] = "scope" /\ Entered(s)') \/ Kept(e, s)
  /\ \A s \in e.done : Kind[s] = "scope" => s \in e.shown \/ Kept(e, s)
  /\ \A s \in e.made : Kind[s] = "scope" => s \in e.shown \/ Entered(s) \/ <<s, "new">> \in live

\* Who holds what after a step, site by site.
LEMMA DoesObjects ==
  ASSUME Types, NEW e \in Effect, Does(e)
  PROVE  \A s :
    /\ <<s, "old">> \in live' <=> (<<s, "old">> \in live /\ s \notin e.gone) \/ s \in e.bound
    /\ <<s, "new">> \in live' <=> <<s, "new">> \in live \/ s \in e.made
    /\ <<s, "orphan">> \in live' <=> <<s, "orphan">> \in live
    /\ <<s, "old">> \in subscribed' <=> <<s, "old">> \in subscribed /\ s \notin e.gone
    /\ <<s, "new">> \in subscribed' <=> <<s, "new">> \in subscribed \/ s \in e.heard
    /\ <<s, "orphan">> \in subscribed' <=> <<s, "orphan">> \in subscribed
    /\ <<s, "old">> \in dirty' <=> <<s, "old">> \in dirty /\ s \notin e.gone
    /\ <<s, "new">> \in dirty' <=> <<s, "new">> \in dirty
    /\ <<s, "orphan">> \in dirty' <=> <<s, "orphan">> \in dirty
    /\ <<s, "old">> \in queued' <=> <<s, "old">> \in queued /\ s \notin e.gone
    /\ <<s, "new">> \in queued' <=> <<s, "new">> \in queued \/ s \in e.waits
    /\ <<s, "orphan">> \in queued' <=> <<s, "orphan">> \in queued
  BY DEF Old, New, Does

\* All values have their types.
LEMMA DoesTypes ==
  ASSUME Types, walk' \in Seq(FrameOf), NEW e \in Effect, Does(e)
  PROVE  Types'
  <1>1. \A S \in SUBSET Sites : Old(S) \subseteq Object /\ New(S) \subseteq Object
    BY DEF Old, New, Object, Who
  <1>2. /\ e.gone \in SUBSET Sites /\ e.done \in SUBSET Sites /\ e.made \in SUBSET Sites
        /\ e.heard \in SUBSET Sites /\ e.waits \in SUBSET Sites /\ e.bound \in SUBSET Sites
        /\ e.taken \in SUBSET Sites /\ e.cut \in SUBSET Sites /\ e.shown \in SUBSET Sites
    BY DEF Effect
  <1>3. live' \subseteq Object /\ subscribed' \subseteq Object /\ dirty' \subseteq Object /\ queued' \subseteq Object
    BY <1>1, <1>2 DEF Does, Types
  <1>4. QED
    BY <1>2, <1>3 DEF Does, Types

\* What is above a node of the walk is still there: the step adds nodes below what was built.
LEMMA DoesSites ==
  ASSUME SitesFit, NEW e \in Effect, Does(e), InRoot(e), OfKind(e)
  PROVE  SitesFit'
  <1>1. ~Idle /\ ~Idle' /\ Root' = Root
    BY DEF InRoot
  <1>2. Whole(Root)' = Whole(Root) /\ Below(Root)' = Below(Root)
    BY <1>1 DEF Whole, Below
  <1>3. \A s \in built' : Ancestors[s] \cap Whole(Root) \subseteq built'
    BY <1>1 DEF SitesFit, Does, InRoot
  <1>4. built' \subseteq Whole(Root) /\ adopted' \union removed' \union recovery' \subseteq Below(Root)
    BY <1>1 DEF SitesFit, Does, InRoot
  <1>5. \A s \in adopted' : Kind[s] = "scope"
    BY DEF SitesFit, Does, OfKind
  <1>6. tree' = tree /\ Root \in tree /\ \A s \in tree : Ancestors[s] \subseteq tree
    BY <1>1 DEF SitesFit, Does
  <1>7. QED
    BY <1>1, <1>2, <1>3, <1>4, <1>5, <1>6 DEF SitesFit

\* Scopes subscribe, components wait for their effects, boundaries hold nothing.
LEMMA DoesKinds ==
  ASSUME KindsFit, NEW e \in Effect, Does(e), OfKind(e)
  PROVE  KindsFit'
  <1>1. \A S : \A r \in New(S) : r[1] \in S
    BY DEF New
  <1>2. \A S : \A r \in Old(S) : r[1] \in S
    BY DEF Old
  <1>3. \A r \in live' : Kind[r[1]] # "boundary"
    BY <1>1, <1>2 DEF KindsFit, Does, OfKind
  <1>4. \A r \in subscribed' : Kind[r[1]] = "scope"
    BY <1>1 DEF KindsFit, Does, OfKind
  <1>5. \A r \in queued' : Kind[r[1]] = "component"
    BY <1>1 DEF KindsFit, Does, OfKind
  <1>6. QED
    BY <1>3, <1>4, <1>5 DEF KindsFit

\* No object is lost from sight.
LEMMA DoesObjectsFit ==
  ASSUME Types, ObjectsFit, NEW e \in Effect, Does(e), InRoot(e), Tracked(e), OfKind(e)
  PROVE  ObjectsFit'
  <1>1. ~Idle /\ ~Idle' /\ Root' = Root /\ Whole(Root)' = Whole(Root)
    BY DEF InRoot, Whole, Below
  <1>2. dirty' \subseteq subscribed' /\ subscribed' \subseteq live'
    <2>1. New(e.heard) \subseteq New(e.made)
      BY DEF Tracked, New
    <2>2. QED
      BY <2>1 DEF ObjectsFit, Does
  <1>3. tree' = tree /\ careless' = careless /\ built' = built \union e.done /\ recovery' = recovery \union e.heard
    BY DEF Does
  <1>4. ASSUME NEW s \in Sites, Holds(s, "old")'
        PROVE  s \in tree' /\ ~InMount(s)' /\ (~Idle' /\ s \in Whole(Root)' => s \in built' \/ Ahead(s)')
    <2>1. s \in e.bound \/ (Holds(s, "old") /\ s \notin e.gone)
      BY <1>4, DoesObjects DEF Holds
    <2>2. CASE s \in e.bound
      BY <1>3, <2>2 DEF Tracked
    <2>3. CASE Holds(s, "old") /\ s \notin e.gone
      <3>1. s \in tree /\ ~InMount(s) /\ (s \in Whole(Root) => s \in built \/ Ahead(s))
        BY <1>1, <2>3 DEF ObjectsFit
      <3>2. ~InMount(s)'
        BY <2>3, <3>1 DEF Tracked
      <3>3. s \in Whole(Root) => s \in built' \/ Ahead(s)'
        BY <1>3, <2>3, <3>1 DEF Tracked
      <3>4. QED
        BY <1>1, <1>3, <3>1, <3>2, <3>3
    <2>4. QED
      BY <2>1, <2>2, <2>3
  <1>5. ASSUME NEW s \in Sites, Holds(s, "new")' PROVE s \in built'
    <2>1. Holds(s, "new") \/ s \in e.made \union e.waits
      BY <1>5, DoesObjects DEF Holds
    <2>2. QED
      BY <1>3, <2>1 DEF ObjectsFit, Tracked
  <1>6. \A s \in Sites : <<s, "new">> \in subscribed' => s \in recovery'
    BY <1>3, DoesObjects DEF ObjectsFit
  <1>7. ASSUME NEW s \in Sites, <<s, "new">> \in live', Kind[s] = "scope"
        PROVE  <<s, "new">> \in subscribed' \/ Updating(s)'
    <2>1. s \in e.made \/ <<s, "new">> \in subscribed \/ Updating(s)
      BY <1>7, DoesObjects DEF ObjectsFit
    <2>2. s \in e.heard \/ <<s, "new">> \in subscribed \/ Updating(s)'
      BY <1>7, <2>1 DEF Tracked
    <2>3. QED
      BY <2>2, DoesObjects
  <1>8. \A s \in Sites : Updating(s)' => <<s, "new">> \in live'
    BY DoesObjects DEF ObjectsFit, Tracked
  <1>9. \A s \in Sites : <<s, "orphan">> \notin subscribed'
    BY DoesObjects DEF ObjectsFit
  <1>10. \A s \in Sites : Holds(s, "orphan")' => careless'
    BY <1>3, DoesObjects DEF ObjectsFit, Holds
  <1>11. QED
    BY <1>2, <1>4, <1>5, <1>6, <1>7, <1>8, <1>9, <1>10 DEF ObjectsFit

\* What the page shows works, and what the walk made works or is being made.
LEMMA DoesAlive ==
  ASSUME Types, ObjectsFit, AliveFit, NEW e \in Effect, Does(e), Tracked(e), Completed(e), OfKind(e)
  PROVE  AliveFit'
  <1>1. tree' = tree /\ harmed' = harmed /\ built' = built \union e.done
        /\ adopted' = adopted \union e.taken /\ removed' = removed \union e.cut
        /\ tree \subseteq Sites /\ built' \subseteq Sites
    BY DEF Does, Types, Effect
  <1>2. ASSUME NEW s \in tree \ harmed, Kind[s] # "boundary"
        PROVE  <<s, "old">> \in live' \/ s \in adopted' \union removed'
    <2>1. <<s, "old">> \in live \/ s \in adopted \union removed
      BY <1>2 DEF AliveFit
    <2>2. CASE s \in adopted \union removed
      BY <1>1, <2>2
    <2>3. CASE <<s, "old">> \in live
      <3>1. s \in e.gone => s \in e.taken \union e.cut
        BY DEF Tracked
      <3>2. QED
        BY <1>1, <2>3, <3>1, DoesObjects
    <2>4. QED
      BY <2>1, <2>2, <2>3
  <1>3. ASSUME NEW s \in built', Kind[s] # "boundary"
        PROVE  \/ <<s, "old">> \in live' \/ <<s, "new">> \in live'
               \/ Kind[s] = "scope" /\ Entered(s)'
               \/ s \in harmed
    <2>1. CASE s \in built
      <3>1. s \notin e.gone /\ s \in Sites
        BY <1>1, <2>1 DEF Tracked
      <3>2. \/ <<s, "old">> \in live \/ <<s, "new">> \in live
            \/ Kind[s] = "scope" /\ Entered(s)
            \/ s \in harmed
        BY <1>3, <2>1 DEF AliveFit
      <3>3. CASE Kind[s] = "scope" /\ Entered(s)
        BY <3>1, <3>3, DoesObjects DEF Completed
      <3>4. QED
        BY <3>1, <3>2, <3>3, DoesObjects
    <2>2. CASE s \in e.done
      <3>1. s \in e.made \union e.bound \/ (Kind[s] = "scope" /\ Entered(s)') \/ Kept(e, s)
        BY <1>3, <2>2 DEF Completed
      <3>2. CASE s \in e.made \union e.bound
        BY <3>2, DoesObjects
      <3>3. CASE Kept(e, s)
        <4>1. s \in harmed \/ <<s, "old">> \in live'
          BY <1>1, <1>2, <1>3, <3>3 DEF Kept
        <4>2. QED
          BY <4>1
      <3>4. QED
        BY <3>1, <3>2, <3>3
    <2>3. QED
      BY <1>1, <2>1, <2>2
  <1>4. ASSUME NEW s \in Sites, <<s, "old">> \in live', Kind[s] = "scope" PROVE <<s, "old">> \in subscribed'
    <2>1. s \notin e.bound
      BY <1>4 DEF OfKind
    <2>2. QED
      BY <1>4, <2>1, DoesObjects DEF AliveFit
  <1>5. QED
    BY <1>1, <1>2, <1>3, <1>4 DEF AliveFit

\* A scope is rendered, marked or taken over.
LEMMA DoesLatest ==
  ASSUME Types, ObjectsFit, LatestFit, NEW e \in Effect, Does(e), Tracked(e), Completed(e)
  PROVE  LatestFit'
  <1>1. tree' = tree /\ harmed' = harmed /\ built' = built \union e.done
        /\ adopted' = adopted \union e.taken /\ removed' = removed \union e.cut
        /\ tree \subseteq Sites /\ built \subseteq Sites /\ built' \subseteq Sites
    BY DEF Does, Types, Effect
  <1>2. \A s : Kind[s] = "scope" /\ s \in fresh \union missed => s \in fresh' \union missed'
    BY DEF Does
  <1>3. ASSUME NEW s \in tree \ harmed, Kind[s] = "scope"
        PROVE  s \in fresh' \union missed' \/ <<s, "old">> \in dirty' \/ s \in adopted' \union removed'
    <2>1. s \in fresh \union missed \/ <<s, "old">> \in dirty \/ s \in adopted \union removed
      BY <1>3 DEF LatestFit
    <2>2. s \in e.gone => s \in e.taken \union e.cut
      BY DEF Tracked
    <2>3. QED
      BY <1>1, <1>2, <1>3, <2>1, <2>2, DoesObjects
  <1>4. ASSUME NEW s \in built', Kind[s] = "scope"
        PROVE  \/ s \in fresh' \union missed' \/ <<s, "old">> \in dirty' \/ <<s, "new">> \in dirty'
               \/ s \in harmed /\ <<s, "new">> \notin live' /\ ~Entered(s)'
    <2>0. s \in Sites
      BY <1>1
    <2>1. CASE s \in e.shown
      BY <2>1 DEF Does
    <2>2. CASE s \in built /\ s \notin e.shown
      <3>1. s \notin e.gone
        BY <2>2 DEF Tracked
      <3>2. \/ s \in fresh \union missed \/ <<s, "old">> \in dirty \/ <<s, "new">> \in dirty
            \/ s \in harmed /\ <<s, "new">> \notin live /\ ~Entered(s)
        BY <1>4, <2>2 DEF LatestFit
      <3>3. CASE s \in fresh \union missed \/ <<s, "old">> \in dirty \/ <<s, "new">> \in dirty
        BY <1>2, <1>4, <3>1, <3>3, DoesObjects
      <3>4. CASE s \in harmed /\ <<s, "new">> \notin live /\ ~Entered(s)
        <4>1. s \notin e.made
          BY <1>4, <2>2, <3>4 DEF Completed
        <4>2. ~Entered(s)'
          BY <1>4, <2>0, <2>2, <3>4 DEF Completed
        <4>3. <<s, "new">> \notin live'
          BY <3>4, <4>1, DoesObjects
        <4>4. QED
          BY <3>4, <4>2, <4>3
      <3>5. QED
        BY <3>2, <3>3, <3>4
    <2>3. CASE s \in e.done /\ s \notin e.shown
      <3>1. Kept(e, s)
        BY <1>4, <2>3 DEF Completed
      <3>2. s \in tree /\ s \notin built /\ s \notin e.made /\ s \notin adopted' \union removed' /\ ~Entered(s)'
        BY <3>1 DEF Kept
      <3>3. CASE s \in harmed
        <4>1. <<s, "new">> \notin live
          BY <2>0, <3>2 DEF ObjectsFit, Holds
        <4>2. <<s, "new">> \notin live'
          BY <3>2, <4>1, DoesObjects
        <4>3. QED
          BY <3>2, <3>3, <4>2
      <3>4. CASE s \notin harmed
        BY <1>3, <1>4, <3>2, <3>4
      <3>5. QED
        BY <3>3, <3>4
    <2>4. QED
      BY <1>1, <2>1, <2>2, <2>3
  <1>5. QED
    BY <1>1, <1>3, <1>4 DEF LatestFit

\* Such a step keeps the invariant.
LEMMA DoesInv ==
  ASSUME ScopesInv, walk' \in Seq(FrameOf), StackFits', NEW e \in Effect, Does(e),
         InRoot(e), OfKind(e), Tracked(e), Completed(e)
  PROVE  ScopesInv'
  <1>1. Types'
    BY DoesTypes DEF ScopesInv
  <1>2. SitesFit'
    BY DoesSites DEF ScopesInv
  <1>3. KindsFit'
    BY DoesKinds DEF ScopesInv
  <1>4. ObjectsFit'
    BY DoesObjectsFit DEF ScopesInv
  <1>5. AliveFit'
    BY DoesAlive DEF ScopesInv
  <1>6. LatestFit'
    BY DoesLatest DEF ScopesInv
  <1>7. QED
    BY <1>1, <1>2, <1>3, <1>4, <1>5, <1>6 DEF ScopesInv

-----------------------------------------------------------------------------
(* The steps of a walk *)

\* The next child is one of those to do.
LEMMA NextFacts ==
  ASSUME Types, ~Idle, Top.todo # {}
  PROVE  /\ Min(Top.todo) \in Top.todo /\ NextDiffed \in Top.todo
         /\ Top.todo \subseteq Pending(Top)
  <1>1. walk \in Seq(FrameOf)
    BY DEF Types
  <1>2. Top \in FrameOf
    BY <1>1, TopFacts
  <1>3. Top.todo \in SUBSET Nat /\ Top.todo \in SUBSET Sites
    BY <1>2, FrameFacts, SiteTypes
  <1>4. \A s \in Sites : s <= Len(Kind) /\ Len(Kind) \in Nat
    BY SiteTypes DEF Sites
  <1>5. Min(Top.todo) \in Top.todo
    BY <1>3, MinFacts
  <1>6. \A s \in Top.todo : s <= Len(Kind)
    BY <1>3, <1>4
  <1>7. Max(Top.todo) \in Top.todo
    BY <1>3, <1>6, MaxFacts, SiteTypes
  <1>8. QED
    BY <1>5, <1>7 DEF NextDiffed, Pending

\* The sites above a child that the walk renders are built, and the child is not.
LEMMA ChildFacts ==
  ASSUME ScopesInv, ~Idle, NEW c \in Pending(Top)
  PROVE  /\ c \in Sites /\ c \in Kids(Top.site) /\ Top.site \in Sites /\ Top \in FrameOf
         /\ c \notin built /\ Top.site \in built
         /\ c \in Below(Root) /\ c \in Whole(Root) /\ Whole(c) \subseteq Below(Root)
         /\ Below(Root) \subseteq Whole(Root)
         /\ Ancestors[c] \cap Whole(Root) \subseteq built
         /\ ~Entered(c) /\ ~Updating(c)
         /\ Diffing(Top) => c \notin adopted \union removed
         /\ <<c, "new">> \notin live
  <1>0. Types /\ StackFits /\ SitesFit /\ ObjectsFit
    BY DEF ScopesInv
  <1>1. /\ c \in Sites /\ c \in Kids(Top.site) /\ Top.site \in Sites /\ Root \in Sites
        /\ Whole(c) \cap built = {}
        /\ Diffing(Top) => Whole(c) \cap (adopted \union removed) = {}
        /\ c \in Below(Root) /\ Whole(c) \subseteq Below(Root)
        /\ \A i \in DOMAIN walk : walk[i].site \notin Whole(c)
    BY <1>0, PendingApart
  <1>2. c \in Whole(c) /\ Below(Root) \subseteq Whole(Root)
    BY <1>1, WholeFacts
  <1>3. Top \in FrameOf /\ Top.site \in built
    BY <1>0, TopFacts DEF Types, StackFits, Fits
  <1>4. Ancestors[c] \cap Whole(Root) \subseteq built
    <2>1. \A a \in Ancestors[c] : a = Top.site \/ a \in Ancestors[Top.site]
      BY <1>1, KidFacts
    <2>2. Ancestors[Top.site] \cap Whole(Root) \subseteq built
      BY <1>0, <1>3 DEF SitesFit
    <2>3. QED
      BY <1>3, <2>1, <2>2
  <1>5. ~Entered(c) /\ ~Updating(c)
    BY <1>1, <1>2 DEF Entered, Updating
  <1>6. c \notin built
    BY <1>1, <1>2
  <1>7. <<c, "new">> \notin live
    BY <1>0, <1>1, <1>6 DEF ObjectsFit, Holds
  <1>8. QED
    BY <1>1, <1>2, <1>3, <1>4, <1>5, <1>6, <1>7

\* The frame that a walk pushes at a child fits.
LEMMA PushedFits ==
  ASSUME ScopesInv, ~Idle, NEW c \in Pending(Top), NEW f \in FrameOf, f.site = c,
         f.drop \subseteq Kids(c), f.todo \subseteq Kids(c), f.drop \cap f.todo = {},
         Mounting(f) => f.drop = {}, f.op = "update" => Kind[c] = "scope",
         built' = built \union {c},
         Diffing(f) => Diffing(Top) /\ adopted' \union removed' \subseteq adopted \union removed \union {c}
  PROVE  Fits(f)'
  <1>0. Types /\ StackFits
    BY DEF ScopesInv
  <1>1. /\ c \in Sites
        /\ Whole(c) \cap built = {}
        /\ Diffing(Top) => Whole(c) \cap (adopted \union removed) = {}
    BY <1>0, PendingApart
  <1>2. \A k \in Kids(c) : Whole(k) \subseteq Whole(c) /\ c \notin Whole(k)
    BY <1>1, KidFacts, WholeFacts
  <1>3. Pending(f) \subseteq Kids(c)
    BY DEF Pending
  <1>4. \A k \in Pending(f) : Whole(k) \cap built' = {}
    BY <1>1, <1>2, <1>3
  <1>5. Diffing(f) => \A k \in Pending(f) : Whole(k) \cap (adopted' \union removed') = {}
    BY <1>1, <1>2, <1>3
  <1>6. QED
    BY <1>3, <1>4, <1>5 DEF Fits, Pending, Mounting, Diffing

\* The sites an effect is about.
EffectOf(gone, done, made, heard, waits, bound, taken, cut, shown) ==
  [gone |-> gone, done |-> done, made |-> made, heard |-> heard, waits |-> waits,
   bound |-> bound, taken |-> taken, cut |-> cut, shown |-> shown]

\* No sites, no objects.
LEMMA NoObjects == Old({}) = {} /\ New({}) = {}
  BY DEF Old, New

\* The walk enters a fresh node (Walk, VisitElement, VisitScopeEnter).
LEMMA EnterKeepsInv ==
  ASSUME ScopesInv, ~Idle, Top.drop = {}, NEW c \in Pending(Top), NEW det \in BOOLEAN,
         Enter(c, Advance(c), det), Mounting(Top) \/ c \notin tree,
         UNCHANGED <<tree, subscribed, dirty, adopted, removed, recovery, misplaced, historyVars>>
  PROVE  ScopesInv'
  <1>0. Types /\ StackFits /\ SitesFit /\ ObjectsFit
    BY DEF ScopesInv
  <1>1. /\ c \in Sites /\ c \in Kids(Top.site) /\ Top.site \in Sites /\ Top \in FrameOf
        /\ c \notin built /\ c \in Whole(Root) /\ Ancestors[c] \cap Whole(Root) \subseteq built
        /\ ~Entered(c) /\ ~Updating(c)
    BY ChildFacts
  <1>2. PICK new \in Contents(c) : walk' = Append(Advance(c), Frame("mount", c, {}, new, det))
    BY DEF Enter
  <1>3. new \in SUBSET Kids(c) /\ new \in SUBSET Sites
    BY <1>2 DEF Contents, Kids
  <1>4. PICK f \in FrameOf : f = Frame("mount", c, {}, new, det) /\ f.op = "mount" /\ f.site = c
                             /\ f.drop = {} /\ f.todo = new
    BY <1>1, <1>3, FrameMade
  <1>5. Mounting(f) /\ ~Diffing(f)
    BY <1>4 DEF Mounting, Diffing
  <1>6. built' = built \union {c} /\ adopted' = adopted /\ removed' = removed
    BY DEF Enter
  <1>7. Fits(f)'
    BY <1>1, <1>3, <1>4, <1>5, <1>6, PushedFits
  <1>8. PICK w : w = Advance(c)
    OBVIOUS
  <1>9. Advances(w, c) /\ walk' = Append(w, f)
    BY <1>2, <1>4, <1>8 DEF Advances
  <1>10. DoneAt(c)
    BY <1>1, <1>6, WholeFacts DEF DoneAt
  <1>11. /\ walk' \in Seq(FrameOf) /\ ~Idle' /\ Root' = Root
         /\ StackFits'
         /\ \A d : Ahead(d) /\ d \notin Whole(c) => Ahead(d)'
         /\ \A d : InMount(d)' => InMount(d) \/ (Mounting(f) /\ d \in Whole(c))
         /\ \A s : Entered(s)' <=> Entered(s) \/ (Mounting(f) /\ s = c)
         /\ \A s : Updating(s)' <=> Updating(s) \/ (f.op = "update" /\ s = c)
    BY <1>0, <1>4, <1>5, <1>7, <1>9, <1>10, StackPushes
  <1>12. PICK e \in Effect :
           /\ e.gone = {} /\ e.done = {c}
           /\ e.made = {s \in {c} : Kind[s] \in {"element", "component"}}
           /\ e.heard = {} /\ e.waits = {s \in {c} : Kind[s] = "component"}
           /\ e.bound = {} /\ e.taken = {} /\ e.cut = {}
           /\ e.shown = {s \in {c} : Kind[s] = "scope"}
    <2>1. PICK M, W, S : /\ M = {s \in {c} : Kind[s] \in {"element", "component"}}
                         /\ W = {s \in {c} : Kind[s] = "component"}
                         /\ S = {s \in {c} : Kind[s] = "scope"}
      OBVIOUS
    <2>2. /\ M \in SUBSET Sites /\ W \in SUBSET Sites /\ S \in SUBSET Sites
          /\ {} \in SUBSET Sites /\ {c} \in SUBSET Sites
      BY <1>1, <2>1
    <2>3. PICK e : e = EffectOf({}, {c}, M, {}, W, {}, {}, {}, S)
      OBVIOUS
    <2>4. e \in Effect
      BY <2>2, <2>3 DEF EffectOf, Effect
    <2>5. QED
      BY <2>1, <2>3, <2>4 DEF EffectOf
  <1>13. Does(e)
    <2>1. live' = live \union New(e.made) /\ queued' = queued \union New(e.waits)
          /\ fresh' = fresh \union e.shown /\ missed' = missed \ {c}
      <3>1. CASE Kind[c] = "scope"
        BY <1>12, <3>1, NoObjects DEF Enter
      <3>2. CASE Kind[c] = "component"
        BY <1>12, <3>2, NoObjects DEF Enter
      <3>3. CASE Kind[c] = "element"
        BY <1>12, <3>3, NoObjects DEF Enter
      <3>4. CASE Kind[c] = "boundary"
        BY <1>12, <3>4, NoObjects DEF Enter
      <3>5. QED
        BY <1>1, <3>1, <3>2, <3>3, <3>4, SiteTypes
    <2>2. QED
      BY <1>6, <1>12, <2>1, NoObjects DEF Does, historyVars
  <1>14. InRoot(e)
    BY <1>1, <1>11, <1>12 DEF InRoot
  <1>15. OfKind(e)
    BY <1>12 DEF OfKind
  <1>16. \A s \in tree \cap Whole(c) : Mounting(Top) /\ InMount(s) /\ ~Ahead(s)
    <2> TAKE s \in tree \cap Whole(c)
    <2>1. Mounting(Top)
      <3>1. c = s \/ c \in Ancestors[s]
        BY <1>1, WholeDef
      <3>2. c \in tree
        BY <1>0, <3>1 DEF SitesFit
      <3>3. QED
        BY <3>2
    <2>2. InMount(s)
      <3>1. s \in Whole(Top.site)
        BY <1>1, KidFacts, WholeFacts
      <3>2. Len(walk) \in DOMAIN walk /\ walk[Len(walk)] = Top
        BY <1>0, TopFacts DEF Types
      <3>3. QED
        BY <2>1, <3>1, <3>2 DEF InMount
    <2>3. ~Ahead(s)
      <3> SUFFICES ASSUME NEW i \in DOMAIN walk, Diffing(walk[i]), NEW k \in Pending(walk[i]), s \in Whole(k) PROVE FALSE
        BY DEF Ahead
      <3>1. i # Len(walk)
        BY <2>1 DEF Top, Diffing
      <3>2. Whole(k) \cap Whole(c) = {}
        BY <1>0, <3>1, PendingApart
      <3>3. QED
        BY <3>2
    <2>4. QED
      BY <2>1, <2>2, <2>3
  <1>17. Tracked(e)
    BY <1>4, <1>5, <1>11, <1>12, <1>16 DEF Tracked
  <1>18. Completed(e)
    <2>1. Kind[c] \in {"scope", "component", "element", "boundary"}
      BY <1>1, SiteTypes
    <2>2. QED
      BY <1>5, <1>11, <1>12, <2>1 DEF Completed
  <1>19. QED
    BY <1>11, <1>13, <1>14, <1>15, <1>17, <1>18, DoesInv

\* A fresh child of a fresh node.
LEMMA MountChildKeepsInv ==
  ASSUME ScopesInv, MountChild
  PROVE  ScopesInv'
  <1>1. ~Idle /\ Top.drop = {} /\ Mounting(Top) /\ Top.todo # {}
    BY DEF MountChild
  <1>2. PICK c : c = Min(Top.todo)
    OBVIOUS
  <1>3. c \in Pending(Top)
    BY <1>1, <1>2, NextFacts DEF ScopesInv
  <1>4. PICK det \in BOOLEAN : det = Detached(Top, c)
    BY DEF Detached
  <1>5. Enter(c, Advance(c), det)
    BY <1>2, <1>4 DEF MountChild
  <1>6. UNCHANGED <<tree, subscribed, dirty, adopted, removed, recovery, misplaced, historyVars>>
    BY DEF MountChild
  <1>7. QED
    BY <1>1, <1>3, <1>5, <1>6, EnterKeepsInv

\* A child the page does not have.
LEMMA DiffFreshKeepsInv ==
  ASSUME ScopesInv, DiffFresh
  PROVE  ScopesInv'
  <1>1. ~Idle /\ Top.drop = {} /\ Top.todo # {} /\ NextDiffed \notin tree
    BY DEF DiffFresh, ReadyToDiff
  <1>2. PICK c : c = NextDiffed
    OBVIOUS
  <1>3. c \in Pending(Top)
    BY <1>1, <1>2, NextFacts DEF ScopesInv
  <1>4. PICK det \in BOOLEAN : det = Detached(Top, c)
    BY DEF Detached
  <1>5. Enter(c, Advance(c), det)
    BY <1>2, <1>4 DEF DiffFresh
  <1>6. UNCHANGED <<tree, subscribed, dirty, adopted, removed, recovery, misplaced, historyVars>>
    BY DEF DiffFresh
  <1>7. QED
    BY <1>1, <1>2, <1>3, <1>5, <1>6, EnterKeepsInv

\* Below a diff nothing is being mounted.
LEMMA DiffFacts ==
  ASSUME Types, StackFits, ~Idle, Diffing(Top)
  PROVE  \A d : ~InMount(d) /\ ~Entered(d)
  <1>1. Len(walk) \in DOMAIN walk /\ Top = walk[Len(walk)] /\ \A i \in DOMAIN walk : i = Len(walk) \/ i < Len(walk)
    BY TopFacts DEF Types
  <1>2. \A i \in DOMAIN walk : ~Mounting(walk[i])
    BY <1>1 DEF StackFits, Above, Diffing
  <1>3. QED
    BY <1>2 DEF InMount, Entered

\* A surplus child is removed.
LEMMA DropChildKeepsInv ==
  ASSUME ScopesInv, DropChild
  PROVE  ScopesInv'
  <1>0. Types /\ StackFits /\ SitesFit /\ ~Idle
    BY DEF ScopesInv, DropChild
  <1>1. PICK c \in Top.drop :
          /\ walk' = AdvanceDrop(c)
          /\ EmitRemoveTree(Whole(c))
          /\ removed' = removed \union (Whole(c) \cap tree)
    BY DEF DropChild
  <1>2. c \in Pending(Top)
    BY DEF Pending
  <1>3. Fits(Top)
    BY <1>0, TopFacts DEF Types, StackFits
  <1>4. c \notin Top.todo /\ Diffing(Top)
    BY <1>3 DEF Fits, Diffing
  <1>5. /\ c \in Sites /\ Whole(c) \cap built = {} /\ Whole(c) \subseteq Below(Root)
    BY <1>0, <1>2, PendingApart
  <1>6. Whole(c) \in SUBSET Sites
    BY <1>5, WholeFacts
  <1>7. PICK w : w = walk'
    OBVIOUS
  <1>8. Advances(w, c)
    BY <1>1, <1>4, <1>7 DEF Advances
  <1>9. DoneAt(c)
    BY <1>1, <1>4 DEF DropChild, DoneAt, Diffing
  <1>10. /\ w \in Seq(FrameOf) /\ ~Idle' /\ Root' = Root
         /\ StackFits'
         /\ \A d : Ahead(d) /\ d \notin Whole(c) => Ahead(d)'
         /\ \A d : InMount(d)' => InMount(d)
         /\ \A s : Entered(s)' <=> Entered(s)
         /\ \A s : Updating(s)' <=> Updating(s)
    BY <1>0, <1>2, <1>7, <1>8, <1>9, StackAdvances
  <1>11. PICK G, C : G = Whole(c) /\ C = Whole(c) \cap tree
    OBVIOUS
  <1>12. PICK e : e = EffectOf(G, {}, {}, {}, {}, {}, {}, C, {})
    OBVIOUS
  <1>13. /\ e \in Effect
         /\ e.gone = G /\ e.done = {} /\ e.made = {} /\ e.heard = {} /\ e.waits = {}
         /\ e.bound = {} /\ e.taken = {} /\ e.cut = C /\ e.shown = {}
    BY <1>6, <1>11, <1>12 DEF Effect, EffectOf
  <1>14. Does(e)
    BY <1>1, <1>11, <1>13, NoObjects DEF Does, DropChild, EmitRemoveTree, Disposed, historyVars
  <1>15. InRoot(e) /\ OfKind(e)
    BY <1>0, <1>5, <1>10, <1>11, <1>13 DEF InRoot, OfKind
  <1>16. Tracked(e)
    BY <1>5, <1>10, <1>11, <1>13 DEF Tracked
  <1>17. Completed(e)
    BY <1>10, <1>13 DEF Completed
  <1>18. QED
    BY <1>7, <1>10, <1>13, <1>14, <1>15, <1>16, <1>17, DoesInv

\* The frame on top is left.
LEMMA StackPops ==
  ASSUME Types, StackFits, Len(walk) > 1, Pending(Top) = {}, walk' = Front(walk),
         UNCHANGED <<built, adopted, removed>>
  PROVE  /\ walk' \in Seq(FrameOf) /\ ~Idle /\ ~Idle' /\ Root' = Root /\ StackFits'
         /\ \A d : Ahead(d) => Ahead(d)'
         /\ \A d : InMount(d)' => InMount(d)
         /\ \A s : Entered(s)' => Entered(s)
         /\ \A s : Entered(s) => Entered(s)' \/ (s = Top.site /\ Mounting(Top))
         /\ \A s : Updating(s)' => Updating(s)
         /\ \A s : Updating(s) => Updating(s)' \/ (s = Top.site /\ Top.op = "update")
  <1> DEFINE n == Len(walk)
  <1>1. walk \in Seq(FrameOf) /\ ~Idle /\ n \in Nat /\ n - 1 \in 1..n /\ n - 1 \in Nat
    BY DEF Types, Idle
  <1>2. /\ n \in DOMAIN walk /\ Top = walk[n] /\ DOMAIN walk = 1..n
        /\ \A i \in DOMAIN walk : i \in Nat /\ i <= n
    BY <1>1, TopFacts
  <1>3. PICK v : v = Front(walk)
    OBVIOUS
  <1>4. v = SubSeq(walk, 1, n - 1)
    BY <1>3 DEF Front
  <1>5. v \in Seq(FrameOf) /\ Len(v) = n - 1 /\ \A i \in 1..(n - 1) : v[i] = walk[i]
    BY <1>1, <1>4
  <1>6. StackCutTo(n - 1)
    BY <1>1, <1>3, <1>5 DEF StackCutTo
  <1>7. \A i \in DOMAIN walk : i > n - 1 => i = n
    BY <1>1, <1>2
  <1>8. /\ built' \subseteq built /\ adopted' = adopted /\ removed' \subseteq removed \union {}
        /\ \A i \in 1..(n - 1) : walk[i].site \in built' /\ \A c \in Pending(walk[i]) : Whole(c) \cap {} = {}
    BY <1>1, <1>2 DEF StackFits, Fits
  <1>9. PICK k \in 1..n : k = n - 1
    BY <1>1
  <1>10. /\ ~Idle' /\ Root' = Root /\ StackFits'
         /\ \A d : Ahead(d) => Ahead(d)' \/ \E i \in DOMAIN walk : i > k /\ \E c \in Pending(walk[i]) : d \in Whole(c)
         /\ \A d : InMount(d)' => InMount(d)
         /\ \A s : Entered(s)' => Entered(s)
         /\ \A s : Entered(s) => Entered(s)' \/ \E i \in DOMAIN walk : i > k /\ walk[i].site = s /\ Mounting(walk[i])
         /\ \A s : Updating(s)' => Updating(s)
         /\ \A s : Updating(s) => Updating(s)' \/ \E i \in DOMAIN walk : i > k /\ walk[i].site = s /\ walk[i].op = "update"
    BY <1>1, <1>6, <1>8, <1>9, StackCuts
  <1>11. \A i \in DOMAIN walk : i > k => walk[i] = Top
    BY <1>2, <1>7, <1>9
  <1>12. /\ \A d : Ahead(d) => Ahead(d)'
         /\ \A s : Entered(s) => Entered(s)' \/ (s = Top.site /\ Mounting(Top))
         /\ \A s : Updating(s) => Updating(s)' \/ (s = Top.site /\ Top.op = "update")
    BY <1>10, <1>11
  <1>13. walk' \in Seq(FrameOf)
    BY <1>3, <1>5
  <1>14. QED
    BY <1>1, <1>10, <1>12, <1>13

\* The first frame of a walk is that of the scope that renders again.
LEMMA TopAboveRoot ==
  ASSUME Types, StackFits, ~Idle, Top.op # "update" \/ Len(walk) > 1
  PROVE  /\ Len(walk) > 1 /\ Fits(Top) /\ Top \in FrameOf /\ Top.site \in Sites /\ Top.site \in built
         /\ Mounting(Top) => Entered(Top.site)
         /\ Top.op = "update" => Updating(Top.site)
         /\ Top.site \in Below(Root)
  <1>1. /\ Len(walk) \in Nat /\ Len(walk) > 0 /\ Len(walk) \in DOMAIN walk /\ Top = walk[Len(walk)] /\ Top \in FrameOf
    BY TopFacts DEF Types
  <1>2. walk[1].op = "update"
    BY DEF StackFits
  <1>3. Len(walk) > 1
    BY <1>1, <1>2
  <1>4. Fits(Top) /\ Top.site \in Sites
    BY <1>1, FrameFacts DEF StackFits
  <1>5. Top.site \in Below(Root)
    <2>1. 1 \in DOMAIN walk /\ walk[1] \in FrameOf
      BY TopFacts DEF Types
    <2>2. Root \in Ancestors[Top.site] /\ Root \in Sites
      BY <1>1, <1>3, <2>1, FrameFacts DEF StackFits, Above, Root
    <2>3. QED
      BY <1>4, <2>2, WholeDef
  <1>6. QED
    BY <1>1, <1>3, <1>4, <1>5 DEF Fits, Entered, Updating

\* A scope is registered and subscribed when its content is there: the end of a mount or an adoption.
LEMMA SubscribeKeepsInv ==
  ASSUME ScopesInv, ~Idle, Len(walk) > 1, Pending(Top) = {}, walk' = Front(walk),
         Kind[Top.site] = "scope", Top.op # "diff", Subscribed(Top.site),
         UNCHANGED <<tree, dirty, queued, built, adopted, removed, fresh, missed, historyVars>>
  PROVE  ScopesInv'
  <1>0. Types /\ StackFits /\ SitesFit /\ ObjectsFit
    BY DEF ScopesInv
  <1>1. /\ Top \in FrameOf /\ Top.site \in Sites /\ Top.site \in built
        /\ Mounting(Top) => Entered(Top.site)
        /\ Top.op = "update" => Updating(Top.site)
        /\ Mounting(Top) \/ Top.op = "update"
        /\ Top.site \in Below(Root)
    BY <1>0, TopAboveRoot, FrameFacts
  <1>2. /\ walk' \in Seq(FrameOf) /\ ~Idle' /\ Root' = Root /\ StackFits'
        /\ \A d : Ahead(d) => Ahead(d)'
        /\ \A d : InMount(d)' => InMount(d)
        /\ \A s : Entered(s)' => Entered(s)
        /\ \A s : Entered(s) => Entered(s)' \/ (s = Top.site /\ Mounting(Top))
        /\ \A s : Updating(s)' => Updating(s)
        /\ \A s : Updating(s) => Updating(s)' \/ (s = Top.site /\ Top.op = "update")
    BY <1>0, StackPops
  <1>3. PICK t : t = Top.site
    OBVIOUS
  <1>4. PICK e : e = EffectOf({}, {}, {t}, {t}, {}, {}, {}, {}, {})
    OBVIOUS
  <1>5. /\ e \in Effect
        /\ e.gone = {} /\ e.done = {} /\ e.made = {t} /\ e.heard = {t} /\ e.waits = {}
        /\ e.bound = {} /\ e.taken = {} /\ e.cut = {} /\ e.shown = {}
    BY <1>1, <1>3, <1>4 DEF Effect, EffectOf
  <1>6. Does(e)
    BY <1>3, <1>5, NoObjects DEF Does, Subscribed, historyVars
  <1>7. InRoot(e) /\ OfKind(e)
    BY <1>1, <1>2, <1>3, <1>5 DEF InRoot, OfKind
  <1>8. Tracked(e)
    BY <1>1, <1>2, <1>3, <1>5 DEF Tracked
  <1>9. Completed(e)
    BY <1>0, <1>1, <1>2, <1>3, <1>5 DEF Completed, ObjectsFit
  <1>10. QED
    BY <1>2, <1>5, <1>6, <1>7, <1>8, <1>9, DoesInv

\* VisitScopeLeave: the scope is registered, attached and subscribed.
LEMMA LeaveScopeKeepsInv ==
  ASSUME ScopesInv, LeaveScope
  PROVE  ScopesInv'
  <1>1. ~Idle /\ Mounting(Top) /\ Kind[Top.site] = "scope" /\ Top.drop = {} /\ Top.todo = {}
    BY DEF LeaveScope
  <1>2. Pending(Top) = {} /\ Top.op = "mount"
    BY <1>1 DEF Pending, Mounting
  <1>3. Len(walk) > 1
    BY <1>1, <1>2, TopAboveRoot DEF ScopesInv
  <1>4. QED
    BY <1>1, <1>2, <1>3, SubscribeKeepsInv DEF LeaveScope

\* adoptScope, once the scope has rendered: it is subscribed again.
LEMMA AdoptEndKeepsInv ==
  ASSUME ScopesInv, AdoptEnd
  PROVE  ScopesInv'
  <1>1. Len(walk) > 1 /\ Top.op = "update" /\ Top.drop = {} /\ Top.todo = {}
    BY DEF AdoptEnd
  <1>2. Pending(Top) = {} /\ ~Idle
    BY <1>1 DEF Pending, Idle
  <1>3. Kind[Top.site] = "scope"
    BY <1>1, <1>2, TopAboveRoot DEF ScopesInv, Fits
  <1>4. QED
    BY <1>1, <1>2, <1>3, SubscribeKeepsInv DEF AdoptEnd

\* Any other node needs nothing when its content is there.
LEMMA LeaveNodeKeepsInv ==
  ASSUME ScopesInv, LeaveNode
  PROVE  ScopesInv'
  <1>0. Types /\ StackFits /\ SitesFit /\ ObjectsFit
    BY DEF ScopesInv
  <1>1. ~Idle /\ Top.drop = {} /\ Top.todo = {} /\ Kind[Top.site] # "scope" /\ walk' = Front(walk)
    BY DEF LeaveNode
  <1>2. Pending(Top) = {}
    BY <1>1 DEF Pending
  <1>3. Top.op # "update"
    <2>1. Fits(Top)
      BY <1>0, <1>1, TopFacts DEF Types, StackFits
    <2>2. QED
      BY <1>1, <2>1 DEF Fits
  <1>4. Len(walk) > 1 /\ Top.site \in Sites
    BY <1>0, <1>1, <1>3, TopAboveRoot
  <1>5. UNCHANGED <<built, adopted, removed>>
    BY DEF LeaveNode
  <1>6. /\ walk' \in Seq(FrameOf) /\ ~Idle' /\ Root' = Root /\ StackFits'
        /\ \A d : Ahead(d) => Ahead(d)'
        /\ \A d : InMount(d)' => InMount(d)
        /\ \A s : Entered(s)' => Entered(s)
        /\ \A s : Entered(s) => Entered(s)' \/ (s = Top.site /\ Mounting(Top))
        /\ \A s : Updating(s)' => Updating(s)
        /\ \A s : Updating(s) => Updating(s)' \/ (s = Top.site /\ Top.op = "update")
    BY <1>0, <1>1, <1>2, <1>4, <1>5, StackPops
  <1>7. PICK e : e = EffectOf({}, {}, {}, {}, {}, {}, {}, {}, {})
    OBVIOUS
  <1>8. /\ e \in Effect
        /\ e.gone = {} /\ e.done = {} /\ e.made = {} /\ e.heard = {} /\ e.waits = {}
        /\ e.bound = {} /\ e.taken = {} /\ e.cut = {} /\ e.shown = {}
    BY <1>7 DEF Effect, EffectOf
  <1>9. Does(e)
    BY <1>8, NoObjects DEF Does, LeaveNode, resourceVars, historyVars
  <1>10. InRoot(e) /\ OfKind(e)
    BY <1>1, <1>6, <1>8 DEF InRoot, OfKind
  <1>11. Tracked(e)
    BY <1>3, <1>6, <1>8 DEF Tracked
  <1>12. Completed(e)
    BY <1>1, <1>6, <1>8 DEF Completed
  <1>13. QED
    BY <1>6, <1>8, <1>9, <1>10, <1>11, <1>12, DoesInv

\* The diff goes down into a node that the page has too: what it shows of it is ahead.
LEMMA DescendFacts ==
  ASSUME ScopesInv, ~Idle, Top.drop = {}, NEW c \in Pending(Top), c \in tree, Diffing(Top),
         NEW op \in {"diff", "update"}, op = "update" => Kind[c] = "scope" /\ c \in adopted',
         NEW new \in SUBSET Kids(c), walk' = Append(Advance(c), DiffFrame(op, c, new)),
         built' = built \union {c}, adopted \subseteq adopted', adopted' \subseteq adopted \union {c},
         removed' = removed
  PROVE  /\ walk' \in Seq(FrameOf) /\ ~Idle' /\ Root' = Root
         /\ StackFits'
         /\ \A d \in tree : Ahead(d) => d = c \/ Ahead(d)'
         /\ \A d : ~InMount(d)' /\ ~Entered(d)'
         /\ \A s : Updating(s)' <=> Updating(s) \/ (op = "update" /\ s = c)
  <1>0. Types /\ StackFits /\ SitesFit
    BY DEF ScopesInv
  <1>1. c \in Sites /\ tree \in SUBSET Sites
    BY <1>0, PendingApart DEF Types
  <1>2. new \in SUBSET Sites /\ (Kids(c) \cap tree) \ new \in SUBSET Sites
    BY DEF Kids
  <1>3. PICK f \in FrameOf : /\ f = DiffFrame(op, c, new) /\ f.op = op /\ f.site = c
                             /\ f.drop = (Kids(c) \cap tree) \ new /\ f.todo = new
    <2>1. PICK D \in SUBSET Sites : D = (Kids(c) \cap tree) \ new
      BY <1>2
    <2>2. PICK det \in BOOLEAN : det = FALSE
      OBVIOUS
    <2>5. PICK o \in {"mount", "diff", "update"} : o = op
      OBVIOUS
    <2>6. PICK n \in SUBSET Sites : n = new
      BY <1>2
    <2>3. PICK g \in FrameOf : /\ g = Frame(op, c, D, new, FALSE)
                              /\ g.op = op /\ g.site = c /\ g.drop = D /\ g.todo = new
      <3>1. /\ Frame(o, c, D, n, det) \in FrameOf
            /\ Frame(o, c, D, n, det).op = o
            /\ Frame(o, c, D, n, det).site = c
            /\ Frame(o, c, D, n, det).drop = D
            /\ Frame(o, c, D, n, det).todo = n
        BY <1>1, FrameMade
      <3>2. QED
        BY <2>2, <2>5, <2>6, <3>1
    <2>4. QED
      BY <2>1, <2>3 DEF DiffFrame
  <1>4. ~Mounting(f) /\ Diffing(f)
    BY <1>3 DEF Mounting, Diffing
  <1>5. Fits(f)'
    <2>1. adopted' \union removed' \subseteq adopted \union removed \union {c}
      OBVIOUS
    <2>2. QED
      BY <1>3, <1>4, <2>1, PushedFits
  <1>6. PICK w : w = Advance(c)
    OBVIOUS
  <1>7. Advances(w, c) /\ walk' = Append(w, f)
    BY <1>3, <1>6 DEF Advances
  <1>8. DoneAt(c)
    BY <1>1, WholeFacts DEF DoneAt, Diffing
  <1>9. Mounting(Top) => Mounting(f)
    BY DEF Diffing
  <1>10. /\ walk' \in Seq(FrameOf) /\ ~Idle' /\ Root' = Root
         /\ StackFits'
         /\ \A d : Ahead(d) /\ d \notin Whole(c) => Ahead(d)'
         /\ \A d : Diffing(f) /\ (\E e \in Pending(f) : d \in Whole(e)) => Ahead(d)'
         /\ \A d : InMount(d)' => InMount(d) \/ (Mounting(f) /\ d \in Whole(c))
         /\ \A s : Entered(s)' <=> Entered(s) \/ (Mounting(f) /\ s = c)
         /\ \A s : Updating(s)' <=> Updating(s) \/ (f.op = "update" /\ s = c)
    BY <1>0, <1>3, <1>5, <1>7, <1>8, <1>9, StackPushes
  <1>11. \A d : ~InMount(d)' /\ ~Entered(d)'
    BY <1>0, <1>4, <1>10, DiffFacts
  <1>12. ASSUME NEW d \in tree, Ahead(d) PROVE d = c \/ Ahead(d)'
    <2>1. CASE d \notin Whole(c)
      BY <1>10, <1>12, <2>1
    <2>2. CASE d \in Below(c)
      <3>1. PICK k \in Kids(c) : d \in Whole(k)
        BY <1>1, <2>2, KidOnTheWay
      <3>2. k \in Sites
        BY DEF Kids
      <3>3. k \in tree
        BY <1>0, <3>1, <3>2, WholeDef DEF SitesFit
      <3>4. k \in Pending(f)
        BY <1>3, <3>3 DEF Pending
      <3>5. QED
        BY <1>4, <1>10, <3>1, <3>4
    <2>3. QED
      BY <1>1, <2>1, <2>2, WholeFacts
  <1>13. QED
    BY <1>3, <1>10, <1>11, <1>12

\* diffElement: the element keeps its place and is bound again.
LEMMA DiffElementKeepsInv ==
  ASSUME ScopesInv, DiffElement
  PROVE  ScopesInv'
  <1>1. ~Idle /\ Top.drop = {} /\ Top.todo # {} /\ Diffing(Top)
    BY DEF DiffElement, ReadyToDiff
  <1>2. PICK c : c = NextDiffed
    OBVIOUS
  <1>3. c \in Pending(Top)
    BY <1>1, <1>2, NextFacts DEF ScopesInv
  <1>4. c \in tree /\ Kind[c] = "element" /\ Rebound(c) /\ built' = built \union {c}
    BY <1>2 DEF DiffElement
  <1>5. PICK new \in Contents(c) : walk' = Append(Advance(c), DiffFrame("diff", c, new))
    BY <1>2 DEF DiffElement
  <1>6. new \in SUBSET Kids(c)
    BY <1>4, <1>5 DEF Contents
  <1>7. adopted' = adopted /\ removed' = removed
    BY DEF DiffElement
  <1>8. /\ walk' \in Seq(FrameOf) /\ ~Idle' /\ Root' = Root
        /\ StackFits'
        /\ \A d \in tree : Ahead(d) => d = c \/ Ahead(d)'
        /\ \A d : ~InMount(d)' /\ ~Entered(d)'
        /\ \A s : Updating(s)' <=> Updating(s)
    BY <1>1, <1>3, <1>4, <1>5, <1>6, <1>7, DescendFacts
  <1>9. /\ c \in Sites /\ c \in Whole(Root) /\ Ancestors[c] \cap Whole(Root) \subseteq built
    BY <1>1, <1>3, ChildFacts
  <1>10. \A d : ~Entered(d)
    BY <1>1, DiffFacts DEF ScopesInv
  <1>11. PICK e : e = EffectOf({}, {c}, {}, {}, {}, {c}, {}, {}, {})
    OBVIOUS
  <1>12. /\ e \in Effect
        /\ e.gone = {} /\ e.done = {c} /\ e.made = {} /\ e.heard = {} /\ e.waits = {}
        /\ e.bound = {c} /\ e.taken = {} /\ e.cut = {} /\ e.shown = {}
    BY <1>9, <1>11 DEF Effect, EffectOf
  <1>13. Does(e)
    BY <1>4, <1>7, <1>12, NoObjects DEF Does, DiffElement, Rebound, historyVars
  <1>14. InRoot(e) /\ OfKind(e)
    BY <1>1, <1>4, <1>8, <1>9, <1>12 DEF InRoot, OfKind
  <1>15. Tracked(e)
    BY <1>4, <1>8, <1>12 DEF Tracked
  <1>16. Completed(e)
    BY <1>4, <1>8, <1>10, <1>12 DEF Completed
  <1>17. QED
    BY <1>8, <1>12, <1>13, <1>14, <1>15, <1>16, DoesInv

\* diffBoundary: its child is diffed under recover.
LEMMA DiffBoundaryKeepsInv ==
  ASSUME ScopesInv, DiffBoundary
  PROVE  ScopesInv'
  <1>1. ~Idle /\ Top.drop = {} /\ Top.todo # {} /\ Diffing(Top)
    BY DEF DiffBoundary, ReadyToDiff
  <1>2. PICK c : c = NextDiffed
    OBVIOUS
  <1>3. c \in Pending(Top)
    BY <1>1, <1>2, NextFacts DEF ScopesInv
  <1>4. c \in tree /\ Kind[c] = "boundary" /\ built' = built \union {c}
        /\ walk' = Append(Advance(c), DiffFrame("diff", c, Kids(c)))
    BY <1>2 DEF DiffBoundary
  <1>5. PICK new \in SUBSET Kids(c) : new = Kids(c)
    OBVIOUS
  <1>6. walk' = Append(Advance(c), DiffFrame("diff", c, new))
    BY <1>4, <1>5
  <1>7. adopted' = adopted /\ removed' = removed
    BY DEF DiffBoundary
  <1>8. /\ walk' \in Seq(FrameOf) /\ ~Idle' /\ Root' = Root
        /\ StackFits'
        /\ \A d \in tree : Ahead(d) => d = c \/ Ahead(d)'
        /\ \A d : ~InMount(d)' /\ ~Entered(d)'
        /\ \A s : Updating(s)' <=> Updating(s)
    BY <1>1, <1>3, <1>4, <1>6, <1>7, DescendFacts
  <1>9. /\ c \in Sites /\ c \in Whole(Root) /\ Ancestors[c] \cap Whole(Root) \subseteq built
    BY <1>1, <1>3, ChildFacts
  <1>10. \A d : ~Entered(d)
    BY <1>1, DiffFacts DEF ScopesInv
  <1>11. PICK e : e = EffectOf({}, {c}, {}, {}, {}, {}, {}, {}, {})
    OBVIOUS
  <1>12. /\ e \in Effect
        /\ e.gone = {} /\ e.done = {c} /\ e.made = {} /\ e.heard = {} /\ e.waits = {}
        /\ e.bound = {} /\ e.taken = {} /\ e.cut = {} /\ e.shown = {}
    BY <1>9, <1>11 DEF Effect, EffectOf
  <1>13. Does(e)
    BY <1>4, <1>7, <1>12, NoObjects DEF Does, DiffBoundary, resourceVars, historyVars
  <1>14. InRoot(e) /\ OfKind(e)
    BY <1>1, <1>4, <1>8, <1>9, <1>12 DEF InRoot, OfKind
  <1>15. Tracked(e)
    BY <1>4, <1>8, <1>12 DEF Tracked
  <1>16. Completed(e)
    BY <1>4, <1>8, <1>10, <1>12 DEF Completed
  <1>17. QED
    BY <1>8, <1>12, <1>13, <1>14, <1>15, <1>16, DoesInv

\* adoptScope: what the old scope held goes, and the walk renders it.
LEMMA AdoptScopeKeepsInv ==
  ASSUME ScopesInv, AdoptScope
  PROVE  ScopesInv'
  <1>1. ~Idle /\ Top.drop = {} /\ Top.todo # {} /\ Diffing(Top)
    BY DEF AdoptScope, ReadyToDiff
  <1>2. PICK c : c = NextDiffed
    OBVIOUS
  <1>3. c \in Pending(Top)
    BY <1>1, <1>2, NextFacts DEF ScopesInv
  <1>4. /\ c \in tree /\ Kind[c] = "scope" /\ TakenOver(c) /\ built' = built \union {c}
        /\ adopted' = adopted \union {c} /\ removed' = removed
        /\ fresh' = fresh \union {c} /\ missed' = missed \ {c}
    BY <1>2 DEF AdoptScope
  <1>5. PICK new \in Contents(c) : walk' = Append(Advance(c), DiffFrame("update", c, new))
    BY <1>2 DEF AdoptScope, UpdateFrame
  <1>6. new \in SUBSET Kids(c)
    BY <1>4, <1>5 DEF Contents
  <1>8. /\ walk' \in Seq(FrameOf) /\ ~Idle' /\ Root' = Root
        /\ StackFits'
        /\ \A d \in tree : Ahead(d) => d = c \/ Ahead(d)'
        /\ \A d : ~InMount(d)' /\ ~Entered(d)'
        /\ \A s : Updating(s)' <=> Updating(s) \/ s = c
    BY <1>1, <1>3, <1>4, <1>5, <1>6, DescendFacts
  <1>9. /\ c \in Sites /\ c \in Whole(Root) /\ Ancestors[c] \cap Whole(Root) \subseteq built
        /\ c \in Below(Root) /\ c \notin built
    BY <1>1, <1>3, ChildFacts
  <1>10. \A d : ~Entered(d)
    BY <1>1, DiffFacts DEF ScopesInv
  <1>11. PICK e : e = EffectOf({c}, {c}, {c}, {}, {}, {}, {c}, {}, {c})
    OBVIOUS
  <1>12. /\ e \in Effect
        /\ e.gone = {c} /\ e.done = {c} /\ e.made = {c} /\ e.heard = {} /\ e.waits = {}
        /\ e.bound = {} /\ e.taken = {c} /\ e.cut = {} /\ e.shown = {c}
    BY <1>9, <1>11 DEF Effect, EffectOf
  <1>13. Does(e)
    <2>1. queued \cap Old({c}) = {}
      BY <1>4 DEF ScopesInv, KindsFit, Old
    <2>2. queued' = queued \ Old({c})
      BY <2>1 DEF AdoptScope
    <2>3. QED
      BY <1>4, <1>12, <2>2, NoObjects DEF Does, AdoptScope, TakenOver, historyVars
  <1>14. InRoot(e) /\ OfKind(e)
    BY <1>1, <1>4, <1>8, <1>9, <1>12 DEF InRoot, OfKind
  <1>15. Tracked(e)
    BY <1>4, <1>8, <1>9, <1>12 DEF Tracked
  <1>16. Completed(e)
    BY <1>4, <1>8, <1>10, <1>12 DEF Completed
  <1>17. QED
    BY <1>8, <1>12, <1>13, <1>14, <1>15, <1>16, DoesInv

\* A component is kept with all that is below it.
LEMMA DiffComponentKeepsInv ==
  ASSUME ScopesInv, DiffComponent
  PROVE  ScopesInv'
  <1>0. Types /\ StackFits /\ SitesFit
    BY DEF ScopesInv
  <1>1. ~Idle /\ Top.drop = {} /\ Top.todo # {} /\ Diffing(Top)
    BY DEF DiffComponent, ReadyToDiff
  <1>2. PICK c : c = NextDiffed
    OBVIOUS
  <1>3. c \in Pending(Top)
    BY <1>1, <1>2, NextFacts, <1>0
  <1>4. PICK B : B = Whole(c) \cap tree
    OBVIOUS
  <1>5. /\ c \in tree /\ built' = built \union B
        /\ walk' = Advance(c) /\ adopted' = adopted /\ removed' = removed
    BY <1>2, <1>4 DEF DiffComponent
  <1>6. PICK w : w = walk'
    OBVIOUS
  <1>7. Advances(w, c) /\ DoneAt(c)
    BY <1>1, <1>4, <1>5, <1>6 DEF Advances, DoneAt
  <1>8. /\ w \in Seq(FrameOf) /\ ~Idle' /\ Root' = Root
        /\ StackFits'
        /\ \A d : Ahead(d) /\ d \notin Whole(c) => Ahead(d)'
        /\ \A d : InMount(d)' => InMount(d)
        /\ \A s : Entered(s)' <=> Entered(s)
        /\ \A s : Updating(s)' <=> Updating(s)
    BY <1>0, <1>1, <1>3, <1>6, <1>7, StackAdvances
  <1>9. \A d : ~Entered(d)
    BY <1>0, <1>1, DiffFacts
  <1>10. /\ c \in Sites /\ Ancestors[c] \cap Whole(Root) \subseteq built
         /\ Whole(c) \subseteq Whole(Root)
    BY <1>1, <1>3, ChildFacts
  <1>11. Whole(c) \cap built = {} /\ Whole(c) \cap (adopted \union removed) = {}
    BY <1>0, <1>1, <1>3, PendingApart
  <1>12. B \in SUBSET Sites
    BY <1>4, <1>10, WholeFacts
  <1>13. PICK e : e = EffectOf({}, B, {}, {}, {}, {}, {}, {}, {})
    OBVIOUS
  <1>14. /\ e \in Effect
        /\ e.gone = {} /\ e.done = B /\ e.made = {} /\ e.heard = {} /\ e.waits = {}
        /\ e.bound = {} /\ e.taken = {} /\ e.cut = {} /\ e.shown = {}
    BY <1>12, <1>13 DEF Effect, EffectOf
  <1>15. Does(e)
    BY <1>5, <1>14, NoObjects DEF Does, DiffComponent, resourceVars, historyVars
  <1>16. ASSUME NEW s \in B, NEW a \in Ancestors[s], a \in Whole(Root) PROVE a \in built \union B
    <2>1. s \in Sites /\ (s = c \/ c \in Ancestors[s]) /\ s \in tree
      BY <1>4, <1>10, WholeDef
    <2>2. CASE s = c
      BY <1>10, <1>16, <2>2
    <2>3. CASE c \in Ancestors[s]
      <3>1. a \in tree /\ a \in Sites
        BY <1>0, <1>16, <2>1, AncestorsDef DEF SitesFit
      <3>2. CASE a < c
        <4>1. a \in Ancestors[c]
          BY <2>1, <2>3, <3>2, Comparable
        <4>2. QED
          BY <1>10, <1>16, <4>1
      <3>3. CASE c < a
        <4>1. c \in Ancestors[a]
          BY <2>1, <2>3, <3>3, Comparable
        <4>2. a \in Whole(c)
          BY <1>10, <3>1, <4>1, WholeDef
        <4>3. QED
          BY <1>4, <3>1, <4>2
      <3>4. CASE a = c
        BY <1>4, <1>5, <1>10, <3>4, WholeFacts
      <3>5. a < c \/ c < a \/ a = c
        <4>1. a \in Nat /\ c \in Nat
          BY <1>10, <3>1, SiteTypes
        <4>2. QED
          BY <4>1
      <3>6. QED
        BY <3>2, <3>3, <3>4, <3>5
    <2>4. QED
      BY <2>1, <2>2, <2>3
  <1>17. InRoot(e) /\ OfKind(e)
    BY <1>1, <1>4, <1>8, <1>10, <1>14, <1>16 DEF InRoot, OfKind
  <1>18. Tracked(e)
    BY <1>4, <1>8, <1>14 DEF Tracked
  <1>19. Completed(e)
    BY <1>4, <1>5, <1>8, <1>9, <1>11, <1>14 DEF Completed, Kept
  <1>20. QED
    BY <1>6, <1>8, <1>14, <1>15, <1>17, <1>18, <1>19, DoesInv

\* A scope of the page that is dead is removed, and another one mounted.
LEMMA ReplaceScopeKeepsInv ==
  ASSUME ScopesInv, ReplaceScope
  PROVE  ScopesInv'
  <1>0. Types /\ StackFits /\ SitesFit
    BY DEF ScopesInv
  <1>1. ~Idle /\ Top.drop = {} /\ Top.todo # {} /\ Diffing(Top)
    BY DEF ReplaceScope, ReadyToDiff
  <1>2. PICK c : c = NextDiffed
    OBVIOUS
  <1>3. c \in Pending(Top)
    BY <1>1, <1>2, NextFacts, <1>0
  <1>4. PICK G, C : G = Whole(c) /\ C = Whole(c) \cap tree
    OBVIOUS
  <1>5. /\ c \in tree /\ Kind[c] = "scope" /\ EmitRemoveTree(G) /\ built' = built \union {c}
        /\ adopted' = adopted /\ removed' = removed \union C
        /\ fresh' = fresh \union {c} /\ missed' = missed \ {c}
    BY <1>2, <1>4 DEF ReplaceScope
  <1>6. PICK new \in Contents(c), det \in BOOLEAN :
          walk' = Append(Advance(c), Frame("mount", c, {}, new, det))
    BY <1>2 DEF ReplaceScope
  <1>7. new \in SUBSET Kids(c) /\ new \in SUBSET Sites
    BY <1>5, <1>6 DEF Contents, Kids
  <1>8. /\ c \in Sites /\ c \in Whole(Root) /\ Ancestors[c] \cap Whole(Root) \subseteq built
        /\ Whole(c) \subseteq Below(Root) /\ c \notin built
    BY <1>1, <1>3, ChildFacts
  <1>9. Whole(c) \in SUBSET Sites /\ Whole(c) \cap built = {} /\ c \in Whole(c)
    BY <1>0, <1>1, <1>3, <1>8, PendingApart, WholeFacts
  <1>10. PICK f \in FrameOf : f = Frame("mount", c, {}, new, det) /\ f.op = "mount" /\ f.site = c
                             /\ f.drop = {} /\ f.todo = new
    BY <1>6, <1>7, <1>8, FrameMade
  <1>11. Mounting(f) /\ ~Diffing(f)
    BY <1>10 DEF Mounting, Diffing
  <1>12. Fits(f)'
    BY <1>1, <1>3, <1>5, <1>7, <1>10, <1>11, PushedFits
  <1>13. PICK w : w = Advance(c)
    OBVIOUS
  <1>14. Advances(w, c) /\ walk' = Append(w, f)
    BY <1>1, <1>6, <1>10, <1>13 DEF Advances
  <1>15. DoneAt(c)
    BY <1>1, <1>4, <1>5, <1>9 DEF DoneAt, Diffing
  <1>16. /\ walk' \in Seq(FrameOf) /\ ~Idle' /\ Root' = Root
         /\ StackFits'
         /\ \A d : Ahead(d) /\ d \notin Whole(c) => Ahead(d)'
         /\ \A d : InMount(d)' => InMount(d) \/ (Mounting(f) /\ d \in Whole(c))
         /\ \A s : Entered(s)' <=> Entered(s) \/ (Mounting(f) /\ s = c)
         /\ \A s : Updating(s)' <=> Updating(s) \/ (f.op = "update" /\ s = c)
    BY <1>0, <1>1, <1>3, <1>10, <1>11, <1>12, <1>14, <1>15, StackPushes
  <1>17. PICK e : e = EffectOf(G, {c}, {}, {}, {}, {}, {}, C, {c})
    OBVIOUS
  <1>18. /\ e \in Effect
        /\ e.gone = G /\ e.done = {c} /\ e.made = {} /\ e.heard = {} /\ e.waits = {}
        /\ e.bound = {} /\ e.taken = {} /\ e.cut = C /\ e.shown = {c}
    BY <1>4, <1>8, <1>9, <1>17 DEF Effect, EffectOf
  <1>19. Does(e)
    BY <1>5, <1>18, NoObjects DEF Does, ReplaceScope, EmitRemoveTree, Disposed, historyVars
  <1>20. InRoot(e) /\ OfKind(e)
    BY <1>1, <1>4, <1>8, <1>16, <1>18 DEF InRoot, OfKind
  <1>21. Tracked(e)
    BY <1>4, <1>9, <1>10, <1>16, <1>18 DEF Tracked
  <1>22. Completed(e)
    BY <1>5, <1>11, <1>16, <1>18 DEF Completed
  <1>23. QED
    BY <1>16, <1>18, <1>19, <1>20, <1>21, <1>22, DoesInv

-----------------------------------------------------------------------------
(* Re-renders *)

\* Between walks there is no object of a walk.
LEMMA IdleFacts ==
  ASSUME ScopesInv, Idle
  PROVE  /\ built = {} /\ adopted = {} /\ removed = {} /\ recovery = {}
         /\ \A s \in Sites : ~Holds(s, "new")
         /\ \A s \in Sites : <<s, "new">> \notin live \union subscribed \union queued \union dirty
  <1>1. built = {} /\ adopted = {} /\ removed = {} /\ recovery = {}
    BY DEF ScopesInv, SitesFit
  <1>2. \A s \in Sites : ~Holds(s, "new")
    BY <1>1 DEF ScopesInv, ObjectsFit
  <1>3. dirty \subseteq subscribed /\ subscribed \subseteq live
    BY DEF ScopesInv, ObjectsFit
  <1>4. QED
    BY <1>1, <1>2, <1>3 DEF Holds

\* reRenderScope begins: the scope is registered, as every dirty scope is.
LEMMA ReRenderKeepsInv ==
  ASSUME ScopesInv, NEW s \in Sites, ReRender(s)
  PROVE  ScopesInv'
  <1>0. Types /\ SitesFit /\ KindsFit /\ ObjectsFit /\ AliveFit /\ LatestFit /\ Idle
    BY DEF ScopesInv, ReRender
  <1>1. /\ <<s, "old">> \in dirty /\ <<s, "old">> \in subscribed /\ <<s, "old">> \in live
        /\ Kind[s] = "scope" /\ s \in tree
    <2>1. <<s, "old">> \in dirty /\ <<s, "old">> \in subscribed /\ <<s, "old">> \in live
      BY <1>0 DEF ReRender, ObjectsFit
    <2>2. Holds(s, "old")
      BY <2>1 DEF Holds
    <2>3. \A r \in subscribed : Kind[r[1]] = "scope"
      BY <1>0 DEF KindsFit
    <2>4. QED
      BY <1>0, <2>1, <2>2, <2>3 DEF ObjectsFit
  <1>2. /\ UpdateFrame(s, <<>>) /\ built' = {s} /\ fresh' = fresh \union {s} /\ missed' = missed \ {s}
        /\ dirty' = dirty \ Old({s})
        /\ tree' = tree /\ live' = live /\ subscribed' = subscribed /\ queued' = queued
        /\ adopted' = adopted /\ removed' = removed /\ recovery' = recovery
        /\ careless' = careless /\ harmed' = harmed
    BY <1>1 DEF ReRender, historyVars
  <1>3. /\ built = {} /\ adopted = {} /\ removed = {} /\ recovery = {}
        /\ \A t \in Sites : ~Holds(t, "new")
        /\ \A t \in Sites : <<t, "new">> \notin live \union subscribed \union queued \union dirty
    BY <1>0, IdleFacts
  <1>4. PICK new \in Contents(s) : walk' = Append(<<>>, DiffFrame("update", s, new))
    BY <1>2 DEF UpdateFrame
  <1>5. new \in SUBSET Kids(s) /\ Kids(s) \in SUBSET Sites
    BY DEF Contents, Kids
  <1>6. PICK f \in FrameOf : /\ f = DiffFrame("update", s, new) /\ f.op = "update" /\ f.site = s
                             /\ f.drop = (Kids(s) \cap tree) \ new /\ f.todo = new
    <2>1. PICK D \in SUBSET Sites : D = (Kids(s) \cap tree) \ new
      BY <1>5
    <2>2. PICK det \in BOOLEAN : det = FALSE
      OBVIOUS
    <2>3. PICK o \in {"mount", "diff", "update"} : o = "update"
      OBVIOUS
    <2>4. PICK n \in SUBSET Sites : n = new
      BY <1>5
    <2>5. /\ Frame(o, s, D, n, det) \in FrameOf
          /\ Frame(o, s, D, n, det).op = o
          /\ Frame(o, s, D, n, det).site = s
          /\ Frame(o, s, D, n, det).drop = D
          /\ Frame(o, s, D, n, det).todo = n
      BY FrameMade
    <2>6. QED
      BY <2>1, <2>2, <2>3, <2>4, <2>5 DEF DiffFrame
  <1>7. walk' = Append(<<>>, f) /\ ~Mounting(f) /\ Diffing(f) /\ Pending(f) = (Kids(s) \cap tree) \union new
    BY <1>4, <1>6 DEF Mounting, Diffing, Pending
  <1>8. Fits(f)'
    <2>1. \A c \in Pending(f) : Whole(c) \cap {s} = {}
      BY <1>5, <1>7, KidFacts
    <2>2. Pending(f) \subseteq Kids(f.site) /\ f.drop \cap f.todo = {}
      BY <1>5, <1>6, <1>7
    <2>3. Pending(f)' = Pending(f) /\ Mounting(f)' = Mounting(f) /\ Diffing(f)' = Diffing(f)
      BY DEF Pending, Mounting, Diffing
    <2>4. \A c \in Pending(f) : Whole(c) \cap built' = {} /\ Whole(c) \cap (adopted' \union removed') = {}
      BY <1>2, <1>3, <2>1
    <2>5. f.site \in built' /\ (f.op = "update" => Kind[f.site] = "scope")
      BY <1>1, <1>2, <1>6
    <2>6. QED
      BY <1>7, <2>2, <2>3, <2>4, <2>5 DEF Fits
  <1>9. /\ walk' \in Seq(FrameOf) /\ ~Idle' /\ Root' = s /\ StackFits'
        /\ \A d : (\E e \in Pending(f) : d \in Whole(e)) => Ahead(d)'
        /\ \A d : ~InMount(d)' /\ ~Entered(d)' /\ ~Updating(d)'
    BY <1>0, <1>6, <1>7, <1>8, StackStarts
  <1>10. \A d \in tree : d \in Whole(s) => d \in built' \/ Ahead(d)'
    <2> SUFFICES ASSUME NEW d \in tree, d \in Whole(s), d # s
                 PROVE  Ahead(d)'
      BY <1>2
    <2>1. d \in Below(s)
      BY WholeFacts
    <2>2. PICK c \in Kids(s) : d \in Whole(c)
      BY <2>1, KidOnTheWay
    <2>3. c \in Sites /\ (d = c \/ c \in Ancestors[d])
      BY <1>5, <2>2, WholeDef
    <2>4. c \in tree
      BY <1>0, <2>3 DEF SitesFit
    <2>5. QED
      BY <1>7, <1>9, <2>2, <2>4
  <1>11. Types'
    <2>1. dirty' \in SUBSET Object /\ built' \in SUBSET Sites /\ fresh' \in SUBSET Sites /\ missed' \in SUBSET Sites
      BY <1>0, <1>2 DEF Types
    <2>2. QED
      BY <1>0, <1>2, <1>9, <2>1 DEF Types
  <1>12. SitesFit'
    <2>1. Ancestors[s] \cap Whole(s) = {}
      <3> SUFFICES ASSUME NEW a \in Ancestors[s], a \in Whole(s) PROVE FALSE
        OBVIOUS
      <3>1. a \in Sites /\ a < s
        BY AncestorsDef
      <3>2. a = s \/ s < a
        BY WholeFacts
      <3>3. a \in Nat /\ s \in Nat
        BY <3>1, SiteTypes
      <3>4. QED
        BY <3>1, <3>2, <3>3
    <2>2. Whole(Root)' = Whole(s) /\ Below(Root)' = Below(s)
      BY <1>9 DEF Whole, Below
    <2>3. s \in Whole(s)
      BY WholeFacts
    <2>4. adopted' = {} /\ removed' = {} /\ recovery' = {}
      BY <1>2, <1>3
    <2>5. \A t \in built' : Ancestors[t] \cap Whole(Root)' \subseteq built'
      BY <1>2, <2>1, <2>2
    <2>6. QED
      BY <1>0, <1>1, <1>2, <1>9, <2>2, <2>3, <2>4, <2>5 DEF SitesFit
  <1>13. KindsFit'
    BY <1>0, <1>2 DEF KindsFit
  <1>14. \A t, who : Holds(t, who)' <=> Holds(t, who)
    BY <1>2 DEF Holds
  <1>15. ObjectsFit'
    <2>1. dirty' \subseteq subscribed' /\ subscribed' \subseteq live'
      BY <1>0, <1>2 DEF ObjectsFit
    <2>2. \A t \in Sites : Holds(t, "old") => t \in tree
      BY <1>0 DEF ObjectsFit
    <2>3. Whole(Root)' = Whole(s)
      BY <1>9 DEF Whole, Below
    <2>4. \A t \in Sites : Holds(t, "old")' =>
            t \in tree' /\ ~InMount(t)' /\ (~Idle' /\ t \in Whole(Root)' => t \in built' \/ Ahead(t)')
      BY <1>2, <1>9, <1>10, <1>14, <2>2, <2>3
    <2>5. \A t \in Sites : ~Holds(t, "new")' /\ <<t, "new">> \notin live' \union subscribed'
      BY <1>2, <1>3, <1>14
    <2>6. \A t \in Sites : <<t, "orphan">> \notin subscribed' /\ (Holds(t, "orphan")' => careless')
      BY <1>0, <1>2, <1>14 DEF ObjectsFit
    <2>7. QED
      BY <1>9, <2>1, <2>4, <2>5, <2>6 DEF ObjectsFit
  <1>16. AliveFit'
    BY <1>0, <1>1, <1>2 DEF AliveFit
  <1>17. LatestFit'
    <2>1. \A t : t # s /\ <<t, "old">> \in dirty => <<t, "old">> \in dirty'
      BY <1>2 DEF Old
    <2>2. \A t \in tree \ harmed : Kind[t] = "scope" => t = s \/ t \in fresh \union missed
                                     \/ <<t, "old">> \in dirty \/ t \in adopted \union removed
      BY <1>0 DEF LatestFit
    <2>3. \A t \in tree' \ harmed' : Kind[t] = "scope" => t \in fresh' \union missed'
                                     \/ <<t, "old">> \in dirty' \/ t \in adopted' \union removed'
      BY <1>2, <2>1, <2>2
    <2>4. \A t \in built' : t \in fresh'
      BY <1>2
    <2>5. QED
      BY <2>3, <2>4 DEF LatestFit
  <1>18. QED
    BY <1>9, <1>11, <1>12, <1>13, <1>15, <1>16, <1>17 DEF ScopesInv

Settling(R) == Settle({r \in R : r[2] = "new"}) \union {r \in R : r[2] # "new"}

\* When a walk ends the objects it made are those of the page.
LEMMA Settled ==
  ASSUME NEW R \in SUBSET Object, NEW T, T = Settling(R)
  PROVE  /\ T \in SUBSET Object
         /\ \A s : /\ <<s, "old">> \in T <=> <<s, "old">> \in R \/ <<s, "new">> \in R
                   /\ <<s, "new">> \notin T
                   /\ <<s, "orphan">> \in T <=> <<s, "orphan">> \in R
         /\ \A r \in T : \E q \in R : r[1] = q[1]
  <1>1. \A r \in R : r = <<r[1], r[2]>> /\ r[1] \in Sites /\ r[2] \in Who
    BY DEF Object
  <1>2. \A s, who : <<s, who>> \in T <=>
          (who = "old" /\ \E r \in R : r[2] = "new" /\ s = r[1]) \/ (<<s, who>> \in R /\ who # "new")
    BY DEF Settle, Settling
  <1>3. \A s : (\E r \in R : r[2] = "new" /\ s = r[1]) <=> <<s, "new">> \in R
    BY <1>1
  <1>4. T \in SUBSET Object
    BY <1>1 DEF Settle, Settling, Object, Who
  <1>5. \A s : /\ <<s, "old">> \in T <=> <<s, "old">> \in R \/ <<s, "new">> \in R
               /\ <<s, "new">> \notin T
               /\ <<s, "orphan">> \in T <=> <<s, "orphan">> \in R
    BY <1>2, <1>3
  <1>6. \A r \in T : \E q \in R : r[1] = q[1]
    BY DEF Settle, Settling
  <1>7. QED
    BY <1>4, <1>5, <1>6

\* The only frame is done: nothing is under way, nothing lies ahead.
LEMMA LastFrame ==
  ASSUME Types, StackFits, Len(walk) = 1, Top.drop = {}, Top.todo = {}
  PROVE  /\ ~Idle /\ Root = Top.site /\ Root \in Sites
         /\ \A d : ~Ahead(d) /\ ~InMount(d) /\ ~Entered(d) /\ ~Updating(d)
  <1>1. ~Idle
    BY DEF Idle
  <1>2. walk \in Seq(FrameOf)
    BY DEF Types
  <1>3. DOMAIN walk = 1..1 /\ Top = walk[1] /\ Top \in FrameOf
    BY <1>1, <1>2, TopFacts
  <1>4. Pending(walk[1]) = {} /\ walk[1].op = "update" /\ Root \in Sites
    BY <1>1, <1>3, FrameFacts DEF Pending, StackFits, Root
  <1>5. \A i \in DOMAIN walk : i = 1
    BY <1>3
  <1>6. \A d : ~Ahead(d)
    BY <1>4, <1>5 DEF Ahead
  <1>7. \A d : ~InMount(d) /\ ~Entered(d) /\ ~Updating(d)
    BY <1>4, <1>5 DEF InMount, Entered, Updating, Mounting
  <1>8. QED
    BY <1>1, <1>3, <1>4, <1>6, <1>7 DEF Root

\* Between walks there are no frames.
LEMMA WalkEnded ==
  ASSUME WalkEnds
  PROVE  /\ walk' \in Seq(FrameOf) /\ Idle' /\ StackFits'
         /\ \A d : ~Ahead(d)' /\ ~InMount(d)' /\ ~Entered(d)' /\ ~Updating(d)'
         /\ built' = {} /\ adopted' = {} /\ removed' = {} /\ recovery' = {}
  BY DEF WalkEnds, Idle, StackFits, Ahead, InMount, Entered, Updating

\* The re-render is done: what it rendered is the page, and what it did not come by is not.
LEMMA CommitKeepsInv ==
  ASSUME ScopesInv, Commit
  PROVE  ScopesInv'
  <1>0. Types /\ StackFits /\ SitesFit /\ KindsFit /\ ObjectsFit /\ AliveFit /\ LatestFit
    BY DEF ScopesInv
  <1>1. /\ ~Idle /\ Root = Top.site /\ Root \in Sites
        /\ \A d : ~Ahead(d) /\ ~InMount(d) /\ ~Entered(d) /\ ~Updating(d)
    BY <1>0, LastFrame DEF Commit
  <1>2. /\ tree' = (tree \ Whole(Root)) \union built
        /\ harmed' = (harmed \cap tree') \ {s \in built : <<s, "new">> \in live}
        /\ fresh' = fresh /\ missed' = missed /\ careless' = careless /\ WalkEnds
    BY <1>1 DEF Commit
  <1>3. /\ walk' \in Seq(FrameOf) /\ Idle' /\ StackFits'
        /\ \A d : ~Ahead(d)' /\ ~InMount(d)' /\ ~Entered(d)' /\ ~Updating(d)'
        /\ built' = {} /\ adopted' = {} /\ removed' = {} /\ recovery' = {}
    BY <1>2, WalkEnded
  <1>4. /\ built \subseteq Whole(Root) /\ Root \in tree
        /\ adopted \union removed \subseteq Below(Root) /\ Below(Root) \subseteq Whole(Root)
        /\ Whole(Root) \in SUBSET Sites
    BY <1>0, <1>1, WholeFacts DEF SitesFit
  <1>5. /\ live' \in SUBSET Object
        /\ \A s : /\ <<s, "old">> \in live' <=> <<s, "old">> \in live \/ <<s, "new">> \in live
                  /\ <<s, "new">> \notin live'
                  /\ <<s, "orphan">> \in live' <=> <<s, "orphan">> \in live
        /\ \A r \in live' : \E q \in live : r[1] = q[1]
    <2>1. live \in SUBSET Object
      BY <1>0 DEF Types
    <2>2. live' = Settling(live)
      BY DEF Commit, Settling
    <2>3. PICK T : T = Settling(live)
      OBVIOUS
    <2>4. /\ T \in SUBSET Object
          /\ \A s : /\ <<s, "old">> \in T <=> <<s, "old">> \in live \/ <<s, "new">> \in live
                    /\ <<s, "new">> \notin T
                    /\ <<s, "orphan">> \in T <=> <<s, "orphan">> \in live
          /\ \A r \in T : \E q \in live : r[1] = q[1]
      BY <2>1, <2>3, Settled
    <2>5. QED
      BY <2>2, <2>3, <2>4
  <1>6. /\ subscribed' \in SUBSET Object
        /\ \A s : /\ <<s, "old">> \in subscribed' <=> <<s, "old">> \in subscribed \/ <<s, "new">> \in subscribed
                  /\ <<s, "new">> \notin subscribed'
                  /\ <<s, "orphan">> \in subscribed' <=> <<s, "orphan">> \in subscribed
        /\ \A r \in subscribed' : \E q \in subscribed : r[1] = q[1]
    <2>1. subscribed \in SUBSET Object
      BY <1>0 DEF Types
    <2>2. subscribed' = Settling(subscribed)
      BY DEF Commit, Settling
    <2>3. PICK T : T = Settling(subscribed)
      OBVIOUS
    <2>4. /\ T \in SUBSET Object
          /\ \A s : /\ <<s, "old">> \in T <=> <<s, "old">> \in subscribed \/ <<s, "new">> \in subscribed
                    /\ <<s, "new">> \notin T
                    /\ <<s, "orphan">> \in T <=> <<s, "orphan">> \in subscribed
          /\ \A r \in T : \E q \in subscribed : r[1] = q[1]
      BY <2>1, <2>3, Settled
    <2>5. QED
      BY <2>2, <2>3, <2>4
  <1>7. /\ dirty' \in SUBSET Object
        /\ \A s : /\ <<s, "old">> \in dirty' <=> <<s, "old">> \in dirty \/ <<s, "new">> \in dirty
                  /\ <<s, "new">> \notin dirty'
                  /\ <<s, "orphan">> \in dirty' <=> <<s, "orphan">> \in dirty
    <2>1. dirty \in SUBSET Object
      BY <1>0 DEF Types
    <2>2. dirty' = Settling(dirty)
      BY DEF Commit, Settling
    <2>3. PICK T : T = Settling(dirty)
      OBVIOUS
    <2>4. /\ T \in SUBSET Object
          /\ \A s : /\ <<s, "old">> \in T <=> <<s, "old">> \in dirty \/ <<s, "new">> \in dirty
                    /\ <<s, "new">> \notin T
                    /\ <<s, "orphan">> \in T <=> <<s, "orphan">> \in dirty
          /\ \A r \in T : \E q \in dirty : r[1] = q[1]
      BY <2>1, <2>3, Settled
    <2>5. QED
      BY <2>2, <2>3, <2>4
  <1>8. /\ queued' \in SUBSET Object
        /\ \A s : /\ <<s, "old">> \in queued' <=> <<s, "old">> \in queued \/ <<s, "new">> \in queued
                  /\ <<s, "new">> \notin queued'
                  /\ <<s, "orphan">> \in queued' <=> <<s, "orphan">> \in queued
        /\ \A r \in queued' : \E q \in queued : r[1] = q[1]
    <2>1. queued \in SUBSET Object
      BY <1>0 DEF Types
    <2>2. queued' = Settling(queued)
      BY DEF Commit, Settling
    <2>3. PICK T : T = Settling(queued)
      OBVIOUS
    <2>4. /\ T \in SUBSET Object
          /\ \A s : /\ <<s, "old">> \in T <=> <<s, "old">> \in queued \/ <<s, "new">> \in queued
                    /\ <<s, "new">> \notin T
                    /\ <<s, "orphan">> \in T <=> <<s, "orphan">> \in queued
          /\ \A r \in T : \E q \in queued : r[1] = q[1]
      BY <2>1, <2>3, Settled
    <2>5. QED
      BY <2>2, <2>3, <2>4
  <1>9. tree' \in SUBSET Sites /\ harmed' \in SUBSET Sites
    BY <1>0, <1>2, <1>4 DEF Types
  <1>10. Types'
    BY <1>0, <1>2, <1>3, <1>5, <1>6, <1>7, <1>8, <1>9 DEF Types
  <1>11. SitesFit'
    <2>1. ASSUME NEW s \in tree', NEW a \in Ancestors[s] PROVE a \in tree'
      <3>0. s \in Sites /\ a \in Sites /\ a < s
        BY <1>9, <2>1, AncestorsDef
      <3>1. CASE s \in tree \ Whole(Root)
        <4>1. a \in tree
          BY <1>0, <2>1, <3>1 DEF SitesFit
        <4>2. a \notin Whole(Root)
          <5> SUFFICES ASSUME a \in Whole(Root) PROVE FALSE
            OBVIOUS
          <5>1. a = Root \/ Root \in Ancestors[a]
            BY <1>1, WholeDef
          <5>2. Root \in Ancestors[s]
            BY <2>1, <3>0, <5>1, Transitive
          <5>3. QED
            BY <1>1, <3>0, <3>1, <5>2, WholeDef
        <4>3. QED
          BY <1>2, <4>1, <4>2
      <3>2. CASE s \in built
        <4>1. CASE a \in Whole(Root)
          BY <1>0, <1>1, <1>2, <2>1, <3>2, <4>1 DEF SitesFit
        <4>2. CASE a \notin Whole(Root)
          <5>1. s \in Whole(Root) /\ (s = Root \/ Root \in Ancestors[s])
            BY <1>1, <1>4, <3>2, WholeDef
          <5>2. a \in Ancestors[Root]
            <6>1. CASE s = Root
              BY <2>1, <6>1
            <6>2. CASE Root \in Ancestors[s]
              <7>1. a # Root /\ Root \notin Ancestors[a]
                BY <1>1, <3>0, <4>2, WholeDef
              <7>2. a < Root \/ Root < a
                <8>1. a \in Nat /\ Root \in Nat
                  BY <1>1, <3>0, SiteTypes
                <8>2. QED
                  BY <7>1, <8>1
              <7>3. ~(Root < a)
                BY <2>1, <3>0, <6>2, <7>1, Comparable
              <7>4. QED
                BY <2>1, <3>0, <6>2, <7>2, <7>3, Comparable
            <6>3. QED
              BY <5>1, <6>1, <6>2
          <5>3. a \in tree
            BY <1>0, <1>4, <5>2 DEF SitesFit
          <5>4. QED
            BY <1>2, <4>2, <5>3
        <4>3. QED
          BY <4>1, <4>2
      <3>3. QED
        BY <1>2, <2>1, <3>1, <3>2
    <2>2. QED
      BY <1>3, <2>1 DEF SitesFit
  <1>12. KindsFit'
    BY <1>0, <1>5, <1>6, <1>8 DEF KindsFit
  <1>13. \A s : /\ Holds(s, "old")' <=> Holds(s, "old") \/ Holds(s, "new")
                /\ ~Holds(s, "new")'
                /\ Holds(s, "orphan")' <=> Holds(s, "orphan")
    BY <1>5, <1>8 DEF Holds
  <1>14. ObjectsFit'
    <2>1. ASSUME NEW s \in Sites, Holds(s, "old")' PROVE s \in tree' /\ ~InMount(s)'
      <3>1. Holds(s, "old") => s \in tree /\ (s \in Whole(Root) => s \in built)
        BY <1>0, <1>1 DEF ObjectsFit
      <3>2. Holds(s, "new") => s \in built
        BY <1>0 DEF ObjectsFit
      <3>3. QED
        BY <1>2, <1>3, <1>13, <2>1, <3>1, <3>2
    <2>2. \A r \in dirty' \union subscribed' \union live' : \E s, who : r = <<s, who>> /\ who \in Who
      BY <1>5, <1>6, <1>7 DEF Object
    <2>7. dirty \subseteq subscribed /\ subscribed \subseteq live
      BY <1>0 DEF ObjectsFit
    <2>3. ASSUME NEW r \in dirty' PROVE r \in subscribed'
      <3>1. PICK s, who : r = <<s, who>> /\ who \in {"old", "new", "orphan"}
        BY <2>2 DEF Who
      <3>2. QED
        BY <1>6, <1>7, <2>3, <2>7, <3>1
    <2>4. ASSUME NEW r \in subscribed' PROVE r \in live'
      <3>1. PICK s, who : r = <<s, who>> /\ who \in {"old", "new", "orphan"}
        BY <2>2 DEF Who
      <3>2. QED
        BY <1>5, <1>6, <2>4, <2>7, <3>1
    <2>5. \A s \in Sites : <<s, "orphan">> \notin subscribed' /\ (Holds(s, "orphan")' => careless')
      BY <1>0, <1>2, <1>6, <1>13 DEF ObjectsFit
    <2>6. QED
      BY <1>3, <1>5, <1>6, <1>13, <2>1, <2>3, <2>4, <2>5 DEF ObjectsFit
  <1>15. \A s \in tree' : s \in built \/ (s \in tree /\ s \notin adopted \union removed
                                           /\ (s \notin harmed' => s \notin harmed))
    BY <1>2, <1>4
  <1>16. \A s \in built : s \notin harmed' => s \notin harmed \/ <<s, "new">> \in live
    BY <1>2
  <1>17. AliveFit'
    <2>1. \A s \in tree' \ harmed' : Kind[s] # "boundary" => <<s, "old">> \in live'
      BY <1>0, <1>1, <1>5, <1>15, <1>16 DEF AliveFit
    <2>2. \A s \in Sites : <<s, "old">> \in live' /\ Kind[s] = "scope" => <<s, "old">> \in subscribed'
      BY <1>0, <1>1, <1>5, <1>6 DEF AliveFit, ObjectsFit
    <2>3. QED
      BY <1>3, <2>1, <2>2 DEF AliveFit
  <1>18. LatestFit'
    <2>1. \A s \in tree' \ harmed' : Kind[s] = "scope" => s \in fresh \union missed \/ <<s, "old">> \in dirty'
      BY <1>0, <1>7, <1>15, <1>16 DEF LatestFit
    <2>2. QED
      BY <1>2, <1>3, <2>1 DEF LatestFit
  <1>19. QED
    BY <1>3, <1>10, <1>11, <1>12, <1>14, <1>17, <1>18 DEF ScopesInv

-----------------------------------------------------------------------------
(* Panics *)

\* A frame above the first is below the root of the re-render.
LEMMA FramesBelow ==
  ASSUME Types, StackFits, ~Idle, NEW i \in DOMAIN walk
  PROVE  /\ walk[i] \in FrameOf /\ walk[i].site \in Sites /\ Root \in Sites /\ i \in Nat
         /\ i > 1 => walk[i].site \in Below(Root)
         /\ i = 1 => walk[i].site = Root
         /\ i > 1 \/ i = 1
  <1>1. 1 \in DOMAIN walk /\ walk[1] \in FrameOf /\ walk[i] \in FrameOf /\ i \in Nat /\ i >= 1
    BY TopFacts DEF Types
  <1>2. walk[i].site \in Sites /\ Root \in Sites
    BY <1>1, FrameFacts DEF Root
  <1>3. i > 1 => Root \in Ancestors[walk[i].site]
    BY <1>1 DEF StackFits, Above, Root
  <1>4. QED
    BY <1>1, <1>2, <1>3, WholeDef DEF Root

\* An adoption under way is below the root.
LEMMA UpdatingFacts ==
  ASSUME Types, StackFits, ~Idle, NEW s, Updating(s)
  PROVE  s \in adopted /\ s \in Below(Root)
  <1>1. PICK i \in DOMAIN walk : i > 1 /\ walk[i].op = "update" /\ walk[i].site = s
    BY DEF Updating
  <1>2. s \in adopted
    BY <1>1 DEF StackFits
  <1>3. QED
    BY <1>1, <1>2, FramesBelow

\* The owner of what is between a catcher and the adoptions below it is the catcher's.
LEMMA SameOwner ==
  ASSUME adopted \in SUBSET Sites, NEW b \in Sites, NEW s \in Below(b), b \notin adopted,
         adopted \cap Below(b) = {}
  PROVE  OwnerOf(s) = OwnerOf(b)
  <1>1. s \in Sites /\ b \in Ancestors[s]
    BY WholeDef
  <1>2. \A a \in Ancestors[b] : a \in Ancestors[s]
    BY <1>1, Transitive
  <1>3. ASSUME NEW a \in Ancestors[s], a \in adopted PROVE a \in Ancestors[b]
    <2>1. a \in Sites /\ a \in Nat /\ b \in Nat
      BY <1>1, AncestorsDef, SiteTypes
    <2>2. a # b
      BY <1>3
    <2>3. ~(b < a)
      <3> SUFFICES ASSUME b < a PROVE FALSE
        OBVIOUS
      <3>1. b \in Ancestors[a]
        BY <1>1, Comparable
      <3>2. a \in Below(b)
        BY <2>1, <3>1, WholeDef
      <3>3. QED
        BY <1>3, <3>2
    <2>4. a < b
      BY <2>1, <2>2, <2>3
    <2>5. QED
      BY <1>1, <2>4, Comparable
  <1>4. adopted \cap Ancestors[s] = adopted \cap Ancestors[b]
    BY <1>2, <1>3
  <1>5. QED
    BY <1>4 DEF OwnerOf

\* What abandon does not release below the catcher: something there was adopted or removed. A
\* scope subscribed by the walk is always released (recoveryScopes).
LEMMA Leftover ==
  ASSUME ScopesInv, ~Idle, NEW i \in DOMAIN walk, NEW b, b = walk[i].site, b \notin adopted,
         NEW s \in Below(b)
  PROVE  /\ <<s, "new">> \in subscribed => <<s, "new">> \in Abandoned(i, Below(b))
         /\ Holds(s, "new") /\ <<s, "new">> \notin Abandoned(i, Below(b)) => ~Harmless(Below(b))
  <1>0. Types /\ StackFits /\ SitesFit /\ KindsFit /\ ObjectsFit
    BY DEF ScopesInv
  <1>1. b \in Sites /\ s \in Sites
    BY <1>0, FramesBelow, WholeDef
  <1>2. <<s, "new">> \in New(Below(b))
    BY DEF New
  <1>3. <<s, "new">> \in subscribed => <<s, "new">> \in Abandoned(i, Below(b))
    <2>1. <<s, "new">> \in subscribed => s \in recovery
      BY <1>0, <1>1 DEF ObjectsFit
    <2>2. <<s, "new">> \in subscribed => Kind[s] = "scope"
      BY <1>0 DEF KindsFit
    <2>3. QED
      BY <1>2, <2>1, <2>2 DEF Abandoned
  <1>4. ASSUME Holds(s, "new"), <<s, "new">> \notin Abandoned(i, Below(b))
        PROVE  ~Harmless(Below(b))
    <2>1. Kind[s] \in {"scope", "component", "element"}
      <3>1. Kind[s] # "boundary"
        BY <1>0, <1>4 DEF KindsFit, Holds
      <3>2. QED
        BY <1>1, <3>1, SiteTypes
    <2>2. CASE Kind[s] = "element"
      BY <1>2, <1>4, <2>2 DEF Abandoned
    <2>3. CASE Kind[s] = "scope"
      <3>1. <<s, "new">> \in live
        BY <1>0, <1>4, <2>3 DEF Holds, KindsFit
      <3>2. Updating(s)
        BY <1>0, <1>1, <1>3, <1>4, <2>3, <3>1 DEF ObjectsFit
      <3>3. s \in adopted
        BY <1>0, <3>2, UpdatingFacts
      <3>4. QED
        BY <3>3 DEF Harmless
    <2>4. CASE Kind[s] = "component"
      <3> SUFFICES ASSUME Harmless(Below(b)) PROVE FALSE
        OBVIOUS
      <3>1. adopted \cap Below(b) = {}
        BY DEF Harmless
      <3>2. OwnerOf(s) = OwnerOf(b)
        BY <1>0, <1>1, <3>1, SameOwner DEF Types
      <3>3. OwnerOf(b) \in Unwound(i)
        BY DEF Unwound
      <3>4. QED
        BY <1>2, <1>4, <2>4, <3>2, <3>3 DEF Abandoned
    <2>5. QED
      BY <2>1, <2>2, <2>3, <2>4
  <1>5. QED
    BY <1>3, <1>4

LeftOf(T, R, G, S) ==
  R \in SUBSET Object /\ G \in SUBSET Object /\ S \in SUBSET Sites /\ T = Orphaned(R \ G, S)

\* What is released, and what is left to nobody.
LEMMA Left ==
  ASSUME NEW R, NEW G, NEW S, NEW T, LeftOf(T, R, G, S)
  PROVE  /\ T \in SUBSET Object
         /\ \A s : /\ <<s, "old">> \in T <=> <<s, "old">> \in R /\ <<s, "old">> \notin G
                   /\ <<s, "new">> \in T <=> <<s, "new">> \in R /\ <<s, "new">> \notin G /\ s \notin S
                   /\ <<s, "orphan">> \in T => \/ <<s, "orphan">> \in R
                                               \/ s \in S /\ <<s, "new">> \in R /\ <<s, "new">> \notin G
         /\ \A r \in T : \E q \in R : r[1] = q[1]
  <1>0. R \in SUBSET Object /\ G \in SUBSET Object /\ S \in SUBSET Sites /\ T = Orphaned(R \ G, S)
    BY DEF LeftOf
  <1>1. \A r \in R : r = <<r[1], r[2]>> /\ r[1] \in Sites /\ r[2] \in Who
    BY <1>0 DEF Object
  <1>2. \A s, who : <<s, who>> \in New(S) <=> s \in S /\ who = "new"
    BY DEF New
  <1>3. \A s, who : <<s, who>> \in T <=>
          \/ <<s, who>> \in R /\ <<s, who>> \notin G /\ <<s, who>> \notin New(S)
          \/ who = "orphan" /\ \E r \in R : r \notin G /\ r \in New(S) /\ s = r[1]
    BY <1>0 DEF Orphaned
  <1>4. \A s : (\E r \in R : r \notin G /\ r \in New(S) /\ s = r[1])
                 <=> <<s, "new">> \in R /\ <<s, "new">> \notin G /\ s \in S
    BY <1>1, <1>2 DEF New
  <1>5. T \in SUBSET Object
    BY <1>0, <1>1 DEF Orphaned, Object, Who
  <1>6. \A r \in T : \E q \in R : r[1] = q[1]
    BY <1>0 DEF Orphaned
  <1>7. ASSUME NEW s
        PROVE  /\ <<s, "old">> \in T <=> <<s, "old">> \in R /\ <<s, "old">> \notin G
               /\ <<s, "new">> \in T <=> <<s, "new">> \in R /\ <<s, "new">> \notin G /\ s \notin S
               /\ <<s, "orphan">> \in T => \/ <<s, "orphan">> \in R
                                           \/ s \in S /\ <<s, "new">> \in R /\ <<s, "new">> \notin G
    <2>1. <<s, "old">> \in T <=> <<s, "old">> \in R /\ <<s, "old">> \notin G
      BY <1>2, <1>3
    <2>2. <<s, "new">> \in T <=> <<s, "new">> \in R /\ <<s, "new">> \notin G /\ s \notin S
      BY <1>2, <1>3
    <2>3. <<s, "orphan">> \in T => \/ <<s, "orphan">> \in R
                                   \/ s \in S /\ <<s, "new">> \in R /\ <<s, "new">> \notin G
      BY <1>3, <1>4
    <2>4. QED
      BY <2>1, <2>2, <2>3
  <1>8. QED
    BY <1>5, <1>6, <1>7

\* The innermost boundary that is being rendered, or the re-render itself.
LEMMA CatcherFacts ==
  ASSUME Types, ~Idle
  PROVE  /\ Catcher \in DOMAIN walk /\ Catcher \in Nat /\ Catcher >= 1
         /\ Catcher = 1 \/ Kind[walk[Catcher].site] = "boundary"
         /\ \A i \in DOMAIN walk : i > Catcher => Kind[walk[i].site] # "boundary"
  <1> DEFINE T == {1} \union {i \in DOMAIN walk : Kind[walk[i].site] = "boundary"}
  <1>1. /\ Len(walk) \in Nat /\ 1 \in DOMAIN walk
        /\ \A i \in DOMAIN walk : i \in Nat /\ i >= 1 /\ i <= Len(walk)
    BY TopFacts DEF Types
  <1>2. T \in SUBSET Nat /\ T # {} /\ \A t \in T : t <= Len(walk)
    BY <1>1
  <1>3. Catcher = Max(T)
    BY DEF Catcher
  <1>4. Catcher \in T /\ \A t \in T : t <= Catcher
    <2> HIDE DEF T
    <2>1. QED
      BY <1>1, <1>2, <1>3, MaxFacts
  <1>5. Catcher \in DOMAIN walk /\ Catcher \in Nat /\ Catcher >= 1
    BY <1>1, <1>4
  <1>6. \A i \in DOMAIN walk : i > Catcher => Kind[walk[i].site] # "boundary"
    BY <1>1, <1>4, <1>5
  <1>7. QED
    BY <1>4, <1>5, <1>6

\* reRenderScope contains the panic: the page keeps what it shows, but for what was adopted or removed.
LEMMA CaughtByReRenderKeepsInv ==
  ASSUME ScopesInv, CaughtByReRender
  PROVE  ScopesInv'
  <1>0. Types /\ StackFits /\ SitesFit /\ KindsFit /\ ObjectsFit /\ AliveFit /\ LatestFit
    BY DEF ScopesInv
  <1>1. /\ ~Idle /\ Catcher = 1 /\ WalkEnds /\ tree' = tree /\ fresh' = fresh /\ missed' = missed
        /\ harmed' = harmed \union ((adopted \union removed) \cap tree)
        /\ careless' = (careless \/ ~Harmless(Below(walk[Catcher].site)))
    BY DEF CaughtByReRender, RenderPanics
  <1>2. PICK b : b = Root
    OBVIOUS
  <1>3. 1 \in DOMAIN walk /\ walk[1].site = b /\ b \in Sites
    BY <1>0, <1>1, <1>2, TopFacts, FramesBelow DEF Types, Root
  <1>4. PICK G : G = Abandoned(1, Below(b))
    OBVIOUS
  <1>5. G \in SUBSET Object /\ \A s : <<s, "old">> \notin G /\ <<s, "orphan">> \notin G
    <2>1. G \subseteq New(Below(b)) /\ Below(b) \subseteq Sites
      BY <1>4 DEF Abandoned, Below
    <2>2. QED
      BY <2>1 DEF New, Object, Who
  <1>6. PICK S \in SUBSET Sites : S = Sites
    OBVIOUS
  <1>7. /\ live' = Orphaned(live \ G, S) /\ subscribed' = Orphaned(subscribed \ G, S)
        /\ dirty' = Orphaned(dirty \ G, S) /\ queued' = Orphaned(queued \ G, S)
    BY <1>3, <1>4, <1>6 DEF CaughtByReRender, Released
  <1>8. live \in SUBSET Object /\ subscribed \in SUBSET Object /\ dirty \in SUBSET Object /\ queued \in SUBSET Object
    BY <1>0 DEF Types
  <1>9. ASSUME NEW R \in SUBSET Object, NEW T, T = Orphaned(R \ G, S)
        PROVE  /\ T \in SUBSET Object
               /\ \A s : /\ <<s, "old">> \in T <=> <<s, "old">> \in R
                         /\ <<s, "new">> \in T => s \notin Sites
                         /\ <<s, "orphan">> \in T => \/ <<s, "orphan">> \in R
                                                     \/ s \in Sites /\ <<s, "new">> \in R /\ <<s, "new">> \notin G
               /\ \A r \in T : \E q \in R : r[1] = q[1]
    <2>1. /\ T \in SUBSET Object
          /\ \A s : /\ <<s, "old">> \in T <=> <<s, "old">> \in R /\ <<s, "old">> \notin G
                    /\ <<s, "new">> \in T <=> <<s, "new">> \in R /\ <<s, "new">> \notin G /\ s \notin S
                    /\ <<s, "orphan">> \in T => \/ <<s, "orphan">> \in R
                                                \/ s \in S /\ <<s, "new">> \in R /\ <<s, "new">> \notin G
          /\ \A r \in T : \E q \in R : r[1] = q[1]
      <3>1. LeftOf(T, R, G, S)
        BY <1>5, <1>9 DEF LeftOf
      <3>2. QED
        BY <3>1, Left
    <2>2. QED
      BY <1>5, <1>6, <2>1
  <1>10. PICK l, u, d, q : /\ l = live' /\ u = subscribed' /\ d = dirty' /\ q = queued'
                           /\ l = Orphaned(live \ G, S) /\ u = Orphaned(subscribed \ G, S)
                           /\ d = Orphaned(dirty \ G, S) /\ q = Orphaned(queued \ G, S)
    BY <1>7
  <1>11. /\ l \in SUBSET Object
         /\ \A s : /\ <<s, "old">> \in l <=> <<s, "old">> \in live
                   /\ <<s, "new">> \in l => s \notin Sites
                   /\ <<s, "orphan">> \in l => \/ <<s, "orphan">> \in live
                                               \/ s \in Sites /\ <<s, "new">> \in live /\ <<s, "new">> \notin G
         /\ \A r \in l : \E t \in live : r[1] = t[1]
    BY <1>8, <1>9, <1>10
  <1>12. /\ u \in SUBSET Object
         /\ \A s : /\ <<s, "old">> \in u <=> <<s, "old">> \in subscribed
                   /\ <<s, "new">> \in u => s \notin Sites
                   /\ <<s, "orphan">> \in u => \/ <<s, "orphan">> \in subscribed
                                               \/ s \in Sites /\ <<s, "new">> \in subscribed /\ <<s, "new">> \notin G
         /\ \A r \in u : \E t \in subscribed : r[1] = t[1]
    BY <1>8, <1>9, <1>10
  <1>13. /\ d \in SUBSET Object
         /\ \A s : /\ <<s, "old">> \in d <=> <<s, "old">> \in dirty
                   /\ <<s, "new">> \in d => s \notin Sites
                   /\ <<s, "orphan">> \in d => \/ <<s, "orphan">> \in dirty
                                               \/ s \in Sites /\ <<s, "new">> \in dirty /\ <<s, "new">> \notin G
    BY <1>8, <1>9, <1>10
  <1>14. /\ q \in SUBSET Object
         /\ \A s : /\ <<s, "old">> \in q <=> <<s, "old">> \in queued
                   /\ <<s, "new">> \in q => s \notin Sites
                   /\ <<s, "orphan">> \in q => \/ <<s, "orphan">> \in queued
                                               \/ s \in Sites /\ <<s, "new">> \in queued /\ <<s, "new">> \notin G
         /\ \A r \in q : \E t \in queued : r[1] = t[1]
    BY <1>8, <1>9, <1>10
  <1>15. /\ walk' \in Seq(FrameOf) /\ Idle' /\ StackFits'
         /\ \A s : ~Ahead(s)' /\ ~InMount(s)' /\ ~Entered(s)' /\ ~Updating(s)'
         /\ built' = {} /\ adopted' = {} /\ removed' = {} /\ recovery' = {}
    BY <1>1, WalkEnded
  <1>16. ASSUME NEW s \in Sites, Holds(s, "new") PROVE s \in Below(b)
    <2>1. s \in Whole(b)
      BY <1>0, <1>1, <1>2, <1>16 DEF ObjectsFit, SitesFit
    <2>2. CASE s = b
      <3>1. Kind[s] = "scope"
        BY <1>0, <1>1, <1>3, <2>2 DEF StackFits, Fits
      <3>2. <<s, "new">> \in live
        BY <1>0, <1>16, <3>1 DEF Holds, KindsFit
      <3>3. s \in recovery \/ Updating(s)
        BY <1>0, <3>1, <3>2 DEF ObjectsFit
      <3>4. recovery \subseteq Below(b)
        BY <1>0, <1>1, <1>2 DEF SitesFit
      <3>5. QED
        BY <1>0, <1>1, <1>2, <3>3, <3>4, UpdatingFacts
    <2>3. QED
      BY <1>3, <2>1, <2>2, WholeFacts
  <1>17. b \notin adopted
    BY <1>0, <1>1, <1>2, <1>3, WholeFacts DEF SitesFit
  <1>18. ASSUME NEW s \in Sites, Holds(s, "new")
         PROVE  /\ <<s, "new">> \in subscribed => <<s, "new">> \in G
                /\ <<s, "new">> \notin G => careless'
    <2>1. s \in Below(b)
      BY <1>16, <1>18
    <2>2. /\ <<s, "new">> \in subscribed => <<s, "new">> \in Abandoned(1, Below(b))
          /\ <<s, "new">> \notin Abandoned(1, Below(b)) => ~Harmless(Below(b))
      BY <1>1, <1>3, <1>17, <1>18, <2>1, Leftover
    <2>3. careless' = (careless \/ ~Harmless(Below(b)))
      BY <1>1, <1>3
    <2>4. QED
      BY <1>4, <2>2, <2>3
  <1>19. \A s \in Sites : <<s, "orphan">> \notin u
    <2>1. \A s \in Sites : <<s, "new">> \in subscribed => <<s, "new">> \in G
      <3> SUFFICES ASSUME NEW s \in Sites, <<s, "new">> \in subscribed PROVE <<s, "new">> \in G
        OBVIOUS
      <3>1. Holds(s, "new")
        BY <1>0 DEF ObjectsFit, Holds
      <3>2. QED
        BY <1>18, <3>1
    <2>2. QED
      BY <1>0, <1>12, <2>1 DEF ObjectsFit
  <1>20. \A s \in Sites : <<s, "orphan">> \in l \union q => careless'
    <2> SUFFICES ASSUME NEW s \in Sites, <<s, "orphan">> \in l \union q PROVE careless'
      OBVIOUS
    <2>1. Holds(s, "orphan") \/ (Holds(s, "new") /\ <<s, "new">> \notin G)
      BY <1>11, <1>14 DEF Holds
    <2>2. Holds(s, "orphan") => careless
      BY <1>0 DEF ObjectsFit
    <2>3. QED
      BY <1>1, <1>18, <2>1, <2>2
  <1>21. Types'
    <2>1. harmed' \in SUBSET Sites /\ careless' \in BOOLEAN
      BY <1>0, <1>1 DEF Types
    <2>2. QED
      BY <1>0, <1>1, <1>10, <1>11, <1>12, <1>13, <1>14, <1>15, <2>1 DEF Types
  <1>22. SitesFit'
    BY <1>0, <1>1, <1>15 DEF SitesFit
  <1>23. KindsFit'
    <2>1. \A r \in l : Kind[r[1]] # "boundary"
      BY <1>0, <1>11 DEF KindsFit
    <2>2. \A r \in u : Kind[r[1]] = "scope"
      BY <1>0, <1>12 DEF KindsFit
    <2>3. \A r \in q : Kind[r[1]] = "component"
      BY <1>0, <1>14 DEF KindsFit
    <2>4. QED
      BY <1>10, <2>1, <2>2, <2>3 DEF KindsFit
  <1>24. ObjectsFit'
    <2>1. dirty \subseteq subscribed /\ subscribed \subseteq live
      BY <1>0 DEF ObjectsFit
    <2>2. ASSUME NEW r \in d PROVE r \in u
      <3>1. PICK s \in Sites, who \in {"old", "new", "orphan"} : r = <<s, who>>
        BY <1>13, <2>2 DEF Object, Who
      <3>2. <<s, "orphan">> \notin d
        <4>1. <<s, "new">> \in dirty => Holds(s, "new") /\ <<s, "new">> \in subscribed
          BY <2>1 DEF Holds
        <4>2. QED
          BY <1>0, <1>13, <1>18, <2>1, <4>1 DEF ObjectsFit
      <3>3. QED
        BY <1>12, <1>13, <2>1, <2>2, <3>1, <3>2
    <2>3. ASSUME NEW r \in u PROVE r \in l
      <3>1. PICK s \in Sites, who \in {"old", "new", "orphan"} : r = <<s, who>>
        BY <1>12, <2>3 DEF Object, Who
      <3>2. QED
        BY <1>11, <1>12, <1>19, <2>1, <2>3, <3>1
    <2>4. \A s \in Sites : /\ Holds(s, "old")' => Holds(s, "old")
                           /\ ~Holds(s, "new")' /\ <<s, "new">> \notin live' \union subscribed'
      BY <1>10, <1>11, <1>12, <1>14 DEF Holds
    <2>5. \A s \in Sites : Holds(s, "old")' => s \in tree'
      BY <1>0, <1>1, <2>4 DEF ObjectsFit
    <2>6. \A s \in Sites : <<s, "orphan">> \notin subscribed' /\ (Holds(s, "orphan")' => careless')
      BY <1>10, <1>19, <1>20 DEF Holds
    <2>7. dirty' \subseteq subscribed' /\ subscribed' \subseteq live'
      BY <1>10, <2>2, <2>3
    <2>8. QED
      BY <1>15, <2>4, <2>5, <2>6, <2>7 DEF ObjectsFit
  <1>25. \A s \in tree' \ harmed' : s \in tree \ harmed /\ s \notin adopted \union removed
    BY <1>1
  <1>26. AliveFit'
    BY <1>0, <1>10, <1>11, <1>12, <1>15, <1>25 DEF AliveFit
  <1>27. LatestFit'
    BY <1>0, <1>1, <1>10, <1>13, <1>15, <1>25 DEF LatestFit
  <1>28. QED
    BY <1>15, <1>21, <1>22, <1>23, <1>24, <1>26, <1>27 DEF ScopesInv

-----------------------------------------------------------------------------
(* User code, and the page as a whole *)

\* What does not touch a walk leaves its frames as they are.
LEMMA SameStack ==
  ASSUME UNCHANGED <<walk, built, adopted, removed>>
  PROVE  /\ StackFits' = StackFits /\ Idle' = Idle /\ Root' = Root
         /\ \A d : /\ Ahead(d)' = Ahead(d) /\ InMount(d)' = InMount(d)
                   /\ Entered(d)' = Entered(d) /\ Updating(d)' = Updating(d)
  <1>1. walk' = walk /\ built' = built /\ adopted' = adopted /\ removed' = removed
    OBVIOUS
  <1>2. Idle' = Idle /\ Root' = Root
    BY <1>1 DEF Idle, Root
  <1>3. \A d : /\ Ahead(d)' = Ahead(d) /\ InMount(d)' = InMount(d)
               /\ Entered(d)' = Entered(d) /\ Updating(d)' = Updating(d)
    BY <1>1 DEF Ahead, InMount, Entered, Updating, Pending, Diffing, Mounting, Whole, Below
  <1>4. StackFits' = StackFits
    BY <1>1, <1>2 DEF StackFits, Fits, Above, Pending, Diffing, Mounting, Kids, Whole, Below
  <1>5. QED
    BY <1>2, <1>3, <1>4

\* A dependency changes between two steps of a walk, or between walks: the scope is marked.
LEMMA WriteKeepsInv ==
  ASSUME ScopesInv, NEW s \in Sites, Write(s)
  PROVE  ScopesInv'
  <1>0. Types /\ StackFits /\ SitesFit /\ KindsFit /\ ObjectsFit /\ AliveFit /\ LatestFit
    BY DEF ScopesInv
  <1>1. /\ fresh' = fresh \ {s} /\ dirty' = dirty \union {r \in subscribed : r[1] = s}
        /\ missed' = IF \E r \in subscribed : r[1] = s THEN missed ELSE missed \union {s}
        /\ tree' = tree /\ live' = live /\ subscribed' = subscribed /\ queued' = queued
        /\ walk' = walk /\ built' = built /\ adopted' = adopted /\ removed' = removed
        /\ recovery' = recovery /\ careless' = careless /\ harmed' = harmed
    BY DEF Write, MarkDirty, walkVars, historyVars
  <1>2. /\ StackFits' = StackFits /\ Idle' = Idle /\ Root' = Root
        /\ \A d : /\ Ahead(d)' = Ahead(d) /\ InMount(d)' = InMount(d)
                  /\ Entered(d)' = Entered(d) /\ Updating(d)' = Updating(d)
    BY <1>1, SameStack
  <1>3. Whole(Root)' = Whole(Root) /\ Below(Root)' = Below(Root)
    BY <1>2 DEF Whole, Below
  <1>4. \A t, who : Holds(t, who)' = Holds(t, who)
    BY <1>1 DEF Holds
  <1>5. dirty \subseteq subscribed /\ dirty \subseteq dirty' /\ dirty' \subseteq subscribed'
    BY <1>0, <1>1 DEF ObjectsFit
  <1>6. Types'
    <2>1. dirty' \in SUBSET Object /\ fresh' \in SUBSET Sites /\ missed' \in SUBSET Sites
      BY <1>0, <1>1 DEF Types
    <2>2. QED
      BY <1>0, <1>1, <2>1 DEF Types
  <1>7. SitesFit'
    BY <1>0, <1>1, <1>2, <1>3 DEF SitesFit
  <1>8. KindsFit'
    BY <1>0, <1>1 DEF KindsFit
  <1>9. ObjectsFit'
    <2>1. dirty' \subseteq subscribed' /\ subscribed' \subseteq live'
      BY <1>0, <1>1, <1>5 DEF ObjectsFit
    <2>2. \A t \in Sites : Holds(t, "old") =>
            t \in tree /\ ~InMount(t) /\ (~Idle /\ t \in Whole(Root) => t \in built \/ Ahead(t))
      BY <1>0 DEF ObjectsFit
    <2>3. \A t \in Sites : Holds(t, "old")' =>
            t \in tree' /\ ~InMount(t)' /\ (~Idle' /\ t \in Whole(Root)' => t \in built' \/ Ahead(t)')
      BY <1>1, <1>2, <1>3, <1>4, <2>2
    <2>4. QED
      BY <1>0, <1>1, <1>2, <1>4, <2>1, <2>3 DEF ObjectsFit
  <1>10. AliveFit'
    BY <1>0, <1>1, <1>2 DEF AliveFit
  <1>11. ASSUME NEW r \in subscribed, r[1] = s
         PROVE  <<s, "old">> \in dirty' \/ <<s, "new">> \in dirty'
    <2>1. PICK who \in {"old", "new", "orphan"} : r = <<s, who>>
      BY <1>0, <1>11 DEF Types, Object, Who
    <2>2. who # "orphan"
      BY <1>0, <1>11, <2>1 DEF ObjectsFit
    <2>3. r \in dirty'
      BY <1>1, <1>11
    <2>4. QED
      BY <2>1, <2>2, <2>3
  <1>12. s \in missed' \/ <<s, "old">> \in dirty' \/ <<s, "new">> \in dirty'
    BY <1>1, <1>11
  <1>13. s \in tree \ harmed /\ Kind[s] = "scope"
           => s \in missed' \/ <<s, "old">> \in dirty' \/ s \in adopted \union removed
    <2> SUFFICES ASSUME s \in tree \ harmed, Kind[s] = "scope", s \notin adopted \union removed
                 PROVE  <<s, "old">> \in dirty'
      OBVIOUS
    <2>1. <<s, "old">> \in live
      BY <1>0 DEF AliveFit
    <2>2. <<s, "old">> \in subscribed
      BY <1>0, <2>1 DEF AliveFit
    <2>3. QED
      BY <1>1, <2>2
  <1>14. \A t : t # s => (t \in fresh \union missed => t \in fresh' \union missed')
    BY <1>1
  <1>15. LatestFit'
    <2>1. ASSUME NEW t \in tree' \ harmed', Kind[t] = "scope"
          PROVE  t \in fresh' \union missed' \/ <<t, "old">> \in dirty' \/ t \in adopted' \union removed'
      <3>1. CASE t = s
        BY <1>1, <1>13, <2>1, <3>1
      <3>2. CASE t # s
        BY <1>0, <1>1, <1>5, <1>14, <2>1, <3>2 DEF LatestFit
      <3>3. QED
        BY <3>1, <3>2
    <2>2. ASSUME NEW t \in built', Kind[t] = "scope"
          PROVE  \/ t \in fresh' \union missed' \/ <<t, "old">> \in dirty' \/ <<t, "new">> \in dirty'
                 \/ (t \in harmed' /\ <<t, "new">> \notin live' /\ ~Entered(t)')
      <3>1. CASE t = s
        BY <1>12, <3>1
      <3>2. CASE t # s
        BY <1>0, <1>1, <1>2, <1>5, <1>14, <2>2, <3>2 DEF LatestFit
      <3>3. QED
        BY <3>1, <3>2
    <2>3. QED
      BY <2>1, <2>2 DEF LatestFit
  <1>16. QED
    BY <1>0, <1>2, <1>6, <1>7, <1>8, <1>9, <1>10, <1>15 DEF ScopesInv

\* The effects of the new components run once the page is updated.
LEMMA RunEffectsKeepsInv ==
  ASSUME ScopesInv, RunEffects
  PROVE  ScopesInv'
  <1>0. Types /\ StackFits /\ SitesFit /\ KindsFit /\ ObjectsFit /\ AliveFit /\ LatestFit /\ Idle
    BY DEF ScopesInv, RunEffects
  <1>1. /\ queued' = {} /\ dirty' = dirty /\ fresh' = fresh /\ missed' = missed
        /\ tree' = tree /\ live' = live /\ subscribed' = subscribed
        /\ walk' = walk /\ built' = built /\ adopted' = adopted /\ removed' = removed
        /\ recovery' = recovery /\ careless' = careless /\ harmed' = harmed
    BY DEF RunEffects, walkVars, historyVars
  <1>2. /\ StackFits' = StackFits /\ Idle' = Idle /\ Root' = Root
        /\ \A d : /\ Ahead(d)' = Ahead(d) /\ InMount(d)' = InMount(d)
                  /\ Entered(d)' = Entered(d) /\ Updating(d)' = Updating(d)
    BY <1>1, SameStack
  <1>3. \A t, who : Holds(t, who)' => Holds(t, who)
    BY <1>1 DEF Holds
  <1>4. Types'
    BY <1>0, <1>1 DEF Types
  <1>5. SitesFit'
    BY <1>0, <1>1, <1>2 DEF SitesFit
  <1>6. KindsFit'
    BY <1>0, <1>1 DEF KindsFit
  <1>7. ObjectsFit'
    <2>1. \A t \in Sites : Holds(t, "old")' => t \in tree' /\ ~InMount(t)'
      BY <1>0, <1>1, <1>2, <1>3 DEF ObjectsFit
    <2>2. QED
      BY <1>0, <1>1, <1>2, <1>3, <2>1 DEF ObjectsFit
  <1>8. AliveFit'
    BY <1>0, <1>1, <1>2 DEF AliveFit
  <1>9. LatestFit'
    BY <1>0, <1>1, <1>2 DEF LatestFit
  <1>10. QED
    BY <1>0, <1>2, <1>4, <1>5, <1>6, <1>7, <1>8, <1>9 DEF ScopesInv

\* The page is removed, with all it held.
LEMMA UnmountKeepsInv ==
  ASSUME ScopesInv, Unmount
  PROVE  ScopesInv'
  <1>0. Types /\ StackFits /\ SitesFit /\ KindsFit /\ ObjectsFit /\ AliveFit /\ LatestFit /\ Idle
    BY DEF ScopesInv, Unmount
  <1>1. /\ tree' = {} /\ live' = live \ Old(Sites) /\ subscribed' = subscribed \ Old(Sites)
        /\ dirty' = dirty \ Old(Sites) /\ queued' = queued \ Old(Sites)
        /\ walk' = walk /\ built' = built /\ adopted' = adopted /\ removed' = removed
        /\ recovery' = recovery /\ careless' = careless /\ harmed' = harmed
        /\ fresh' = fresh /\ missed' = missed
    BY DEF Unmount, EmitRemoveTree, Disposed, walkVars, historyVars
  <1>2. /\ StackFits' = StackFits /\ Idle' = Idle
        /\ \A d : /\ InMount(d)' = InMount(d) /\ Entered(d)' = Entered(d) /\ Updating(d)' = Updating(d)
    BY <1>1, SameStack
  <1>3. \A t \in Sites : ~Holds(t, "old")' /\ \A who : Holds(t, who)' => Holds(t, who)
    BY <1>1 DEF Holds, Old
  <1>4. built = {} /\ \A t \in Sites : ~Holds(t, "new")
    BY <1>0, IdleFacts
  <1>5. Types'
    BY <1>0, <1>1 DEF Types
  <1>6. SitesFit'
    BY <1>0, <1>1, <1>2 DEF SitesFit
  <1>7. KindsFit'
    BY <1>0, <1>1 DEF KindsFit
  <1>8. ObjectsFit'
    <2>1. dirty' \subseteq subscribed' /\ subscribed' \subseteq live'
      BY <1>0, <1>1 DEF ObjectsFit
    <2>2. \A t \in Sites : <<t, "new">> \notin live' /\ <<t, "new">> \notin subscribed' /\ ~Holds(t, "new")'
      BY <1>3, <1>4, <2>1 DEF Holds
    <2>3. \A t \in Sites : ~Updating(t)' /\ <<t, "orphan">> \notin subscribed' /\ (Holds(t, "orphan")' => careless')
      BY <1>0, <1>1, <1>2, <1>3, <1>4 DEF ObjectsFit, Holds
    <2>4. QED
      BY <1>3, <2>1, <2>2, <2>3 DEF ObjectsFit
  <1>9. AliveFit'
    <2>1. \A t \in Sites : <<t, "old">> \notin live'
      BY <1>3 DEF Holds
    <2>2. QED
      BY <1>1, <1>4, <2>1 DEF AliveFit
  <1>10. LatestFit'
    BY <1>1, <1>4 DEF LatestFit
  <1>11. QED
    BY <1>0, <1>2, <1>5, <1>6, <1>7, <1>8, <1>9, <1>10 DEF ScopesInv

\* A step that changes nothing.
LEMMA StutterKeepsInv ==
  ASSUME ScopesInv, UNCHANGED vars
  PROVE  ScopesInv'
  <1>0. Types /\ StackFits /\ SitesFit /\ KindsFit /\ ObjectsFit /\ AliveFit /\ LatestFit
    BY DEF ScopesInv
  <1>1. /\ dirty' = dirty /\ queued' = queued /\ tree' = tree /\ live' = live /\ subscribed' = subscribed
        /\ walk' = walk /\ built' = built /\ adopted' = adopted /\ removed' = removed
        /\ recovery' = recovery /\ careless' = careless /\ harmed' = harmed
        /\ fresh' = fresh /\ missed' = missed
    BY DEF vars, resourceVars, walkVars, historyVars
  <1>2. /\ StackFits' = StackFits /\ Idle' = Idle /\ Root' = Root
        /\ \A d : /\ Ahead(d)' = Ahead(d) /\ InMount(d)' = InMount(d)
                  /\ Entered(d)' = Entered(d) /\ Updating(d)' = Updating(d)
    BY <1>1, SameStack
  <1>3. Whole(Root)' = Whole(Root) /\ Below(Root)' = Below(Root)
    BY <1>2 DEF Whole, Below
  <1>4. \A t, who : Holds(t, who)' = Holds(t, who)
    BY <1>1 DEF Holds
  <1>5. Types'
    BY <1>0, <1>1 DEF Types
  <1>6. SitesFit'
    BY <1>0, <1>1, <1>2, <1>3 DEF SitesFit
  <1>7. KindsFit'
    BY <1>0, <1>1 DEF KindsFit
  <1>8. ObjectsFit'
    <2>1. \A t \in Sites : Holds(t, "old") =>
            t \in tree /\ ~InMount(t) /\ (~Idle /\ t \in Whole(Root) => t \in built \/ Ahead(t))
      BY <1>0 DEF ObjectsFit
    <2>2. \A t \in Sites : Holds(t, "old")' =>
            t \in tree' /\ ~InMount(t)' /\ (~Idle' /\ t \in Whole(Root)' => t \in built' \/ Ahead(t)')
      BY <1>1, <1>2, <1>3, <1>4, <2>1
    <2>3. QED
      BY <1>0, <1>1, <1>2, <1>4, <2>2 DEF ObjectsFit
  <1>9. AliveFit'
    BY <1>0, <1>1, <1>2 DEF AliveFit
  <1>10. LatestFit'
    BY <1>0, <1>1, <1>2 DEF LatestFit
  <1>11. QED
    BY <1>0, <1>2, <1>5, <1>6, <1>7, <1>8, <1>9, <1>10 DEF ScopesInv

\* The mounted page: its outermost scope, registered and subscribed.
LEMMA InitInv == Init => ScopesInv
  <1> SUFFICES ASSUME Init PROVE ScopesInv
    OBVIOUS
  <1>1. 1 \in Sites /\ Kind[1] = "scope" /\ \A a : a \notin Ancestors[1]
    <2>1. 1 \in Sites /\ Kind[1] = "scope"
      BY SiteTypes, ScopesAssumption
    <2>2. \A a : a \in Ancestors[1] => a \in Nat /\ a > 0 /\ a < 1
      BY <2>1, AncestorsDef, SiteTypes DEF Sites
    <2>3. QED
      BY <2>1, <2>2
  <1>2. /\ walk \in Seq(FrameOf) /\ Idle /\ StackFits
        /\ \A d : ~Ahead(d) /\ ~InMount(d) /\ ~Entered(d) /\ ~Updating(d)
    BY StackEmpty DEF Init
  <1>3. Old({1}) \in SUBSET Object /\ \A s, who : <<s, who>> \in Old({1}) <=> s = 1 /\ who = "old"
    BY <1>1 DEF Old, Object, Who
  <1>4. Types
    BY <1>1, <1>2, <1>3 DEF Init, Types
  <1>5. SitesFit
    BY <1>1, <1>2 DEF Init, SitesFit
  <1>6. KindsFit
    <2>1. \A r \in Old({1}) : r[1] = 1
      BY DEF Old
    <2>2. QED
      BY <1>1, <2>1 DEF Init, KindsFit
  <1>7. ObjectsFit
    BY <1>1, <1>2, <1>3 DEF Init, ObjectsFit, Holds
  <1>8. AliveFit
    BY <1>1, <1>3 DEF Init, AliveFit
  <1>9. LatestFit
    BY <1>1, <1>3 DEF Init, LatestFit
  <1>10. QED
    BY <1>2, <1>4, <1>5, <1>6, <1>7, <1>8, <1>9 DEF ScopesInv

-----------------------------------------------------------------------------
(* A boundary catches a panic *)

\* The frames above a catcher are below its boundary, those under it are apart from what is below it.
LEMMA CutFacts ==
  ASSUME Types, StackFits, ~Idle, NEW i \in DOMAIN walk, i > 1, NEW b, b = walk[i].site
  PROVE  /\ b \in Sites /\ b \in Below(Root) /\ b \in built
         /\ \A j \in DOMAIN walk : j > i - 1 => walk[j].site \in Whole(b)
         /\ \A j \in DOMAIN walk : j > i - 1 => \A c \in Pending(walk[j]) : Whole(c) \subseteq Below(b)
         /\ \A j \in 1..(i - 1) : walk[j].site \in built /\ walk[j].site \notin Below(b)
         /\ \A j \in 1..(i - 1) : \A c \in Pending(walk[j]) : Whole(c) \cap Below(b) = {}
  <1>1. b \in Sites /\ b \in Below(Root)
    BY FramesBelow
  <1>2. Fits(walk[i]) /\ b \in built
    BY DEF StackFits, Fits
  <1>3. /\ Len(walk) \in Nat /\ DOMAIN walk = 1..Len(walk) /\ i \in Nat
        /\ \A j \in DOMAIN walk : j \in Nat /\ walk[j] \in FrameOf
    BY TopFacts DEF Types
  <1>4. ASSUME NEW j \in DOMAIN walk, j > i - 1
        PROVE  /\ walk[j].site \in Whole(b)
               /\ \A c \in Pending(walk[j]) : Whole(c) \subseteq Below(b)
    <2>1. walk[j].site \in Sites /\ Fits(walk[j])
      BY <1>3, FrameFacts DEF StackFits
    <2>2. j = i \/ i < j
      BY <1>3, <1>4
    <2>3. walk[j].site \in Whole(b)
      <3>1. i < j => b \in Ancestors[walk[j].site]
        BY DEF StackFits, Above
      <3>2. QED
        BY <1>1, <2>1, <2>2, <3>1, WholeDef
    <2>4. \A c \in Pending(walk[j]) : Whole(c) \subseteq Below(walk[j].site)
      BY <2>1, KidFacts DEF Fits
    <2>5. Below(walk[j].site) \subseteq Below(b)
      BY <1>1, <2>3, BelowIn
    <2>6. QED
      BY <2>3, <2>4, <2>5
  <1>5. ASSUME NEW j \in 1..(i - 1)
        PROVE  /\ walk[j].site \in built /\ walk[j].site \notin Below(b)
               /\ \A c \in Pending(walk[j]) : Whole(c) \cap Below(b) = {}
    <2>1. j \in DOMAIN walk /\ j < i
      BY <1>3
    <2>2. Fits(walk[j]) /\ walk[j].site \in Sites /\ walk[j].site \in built
      BY <1>3, <2>1, FrameFacts DEF StackFits, Fits
    <2>3. walk[j].site \in Ancestors[b]
      BY <2>1 DEF StackFits, Above
    <2>4. walk[j].site \notin Below(b)
      <3> SUFFICES ASSUME walk[j].site \in Below(b) PROVE FALSE
        OBVIOUS
      <3>1. b < walk[j].site
        BY <1>1, WholeFacts
      <3>2. walk[j].site < b
        BY <1>1, <2>3, AncestorsDef
      <3>3. b \in Nat /\ walk[j].site \in Nat
        BY <1>1, <2>2, SiteTypes
      <3>4. QED
        BY <3>1, <3>2, <3>3
    <2>5. ASSUME NEW c \in Pending(walk[j]) PROVE Whole(c) \cap Below(b) = {}
      <3>1. c \in Kids(walk[j].site) /\ b \notin Whole(c)
        BY <1>2, <2>2, <2>5 DEF Fits
      <3>2. \A e \in Kids(b) : Whole(c) \cap Whole(e) = {}
        BY <1>1, <2>2, <2>3, <3>1, Apart
      <3>3. \A d \in Below(b) : \E e \in Kids(b) : d \in Whole(e)
        BY <1>1, KidOnTheWay
      <3>4. QED
        BY <3>2, <3>3
    <2>6. QED
      BY <2>2, <2>4, <2>5
  <1>6. QED
    BY <1>1, <1>2, <1>4, <1>5

\* The boundary shows its fallback: what the walk made below it is released, what it showed is removed.
LEMMA CaughtByBoundaryKeepsInv ==
  ASSUME ScopesInv, CaughtByBoundary
  PROVE  ScopesInv'
  <1>0. Types /\ StackFits /\ SitesFit /\ KindsFit /\ ObjectsFit /\ AliveFit /\ LatestFit
    BY DEF ScopesInv
  <1>1. ~Idle /\ Catcher > 1
    BY DEF CaughtByBoundary, RenderPanics
  <1>2. PICK i : i = Catcher
    OBVIOUS
  <1>3. i \in DOMAIN walk /\ i \in Nat /\ i > 1 /\ Kind[walk[i].site] = "boundary"
    BY <1>0, <1>1, <1>2, CatcherFacts
  <1>4. PICK b : b = walk[i].site
    OBVIOUS
  <1>5. PICK S : S = Below(b)
    OBVIOUS
  <1>6. /\ b \in Sites /\ b \in Below(Root) /\ b \in built
        /\ \A j \in DOMAIN walk : j > i - 1 => walk[j].site \in Whole(b)
        /\ \A j \in DOMAIN walk : j > i - 1 => \A c \in Pending(walk[j]) : Whole(c) \subseteq S
        /\ \A j \in 1..(i - 1) : walk[j].site \in built /\ walk[j].site \notin S
        /\ \A j \in 1..(i - 1) : \A c \in Pending(walk[j]) : Whole(c) \cap S = {}
    BY <1>0, <1>1, <1>3, <1>4, <1>5, CutFacts
  <1>7. S \in SUBSET Sites /\ b \notin S /\ \A s \in Whole(b) : s = b \/ s \in S
    BY <1>5, <1>6, WholeFacts
  <1>8. PICK shown : shown = IF Mounting(walk[i]) THEN {} ELSE S
    OBVIOUS
  <1>9. PICK G : G = Abandoned(i, S) \union Old(shown)
    OBVIOUS
  <1>10. /\ live' = Orphaned(live \ G, S) /\ subscribed' = Orphaned(subscribed \ G, S)
         /\ dirty' = Orphaned(dirty \ G, S) /\ queued' = Orphaned(queued \ G, S)
         /\ built' = built \ S /\ removed' = removed \union (shown \cap tree) /\ recovery' = recovery \ S
         /\ walk' = SubSeq(walk, 1, i - 1)
         /\ tree' = tree /\ adopted' = adopted /\ fresh' = fresh /\ missed' = missed /\ harmed' = harmed
         /\ careless' = (careless \/ ~Harmless(S))
    BY <1>2, <1>4, <1>5, <1>8, <1>9 DEF CaughtByBoundary, RenderPanics, Released, Discarded
  <1>11. shown \subseteq S /\ (shown # S => Mounting(walk[i]))
    BY <1>8
  <1>12. /\ G \in SUBSET Object
         /\ \A s : <<s, "old">> \in G <=> s \in shown
         /\ \A s : <<s, "new">> \in G <=> <<s, "new">> \in Abandoned(i, S)
         /\ \A s : <<s, "new">> \in G => s \in S
    <2>1. Abandoned(i, S) \subseteq New(S)
      BY DEF Abandoned
    <2>2. \A s, who : /\ <<s, who>> \in New(S) <=> s \in S /\ who = "new"
                      /\ <<s, who>> \in Old(shown) <=> s \in shown /\ who = "old"
      BY DEF New, Old
    <2>3. New(S) \in SUBSET Object /\ Old(shown) \in SUBSET Object
      BY <1>7, <1>11 DEF New, Old, Object, Who
    <2>4. QED
      BY <1>9, <2>1, <2>2, <2>3
  <1>13. PICK l, u, d, q : /\ l = live' /\ u = subscribed' /\ d = dirty' /\ q = queued'
                           /\ l = Orphaned(live \ G, S) /\ u = Orphaned(subscribed \ G, S)
                           /\ d = Orphaned(dirty \ G, S) /\ q = Orphaned(queued \ G, S)
    BY <1>10
  <1>14. ASSUME NEW R, NEW T, LeftOf(T, R, G, S)
         PROVE  /\ T \in SUBSET Object
                /\ \A s : /\ <<s, "old">> \in T <=> <<s, "old">> \in R /\ s \notin shown
                          /\ <<s, "new">> \in T <=> <<s, "new">> \in R /\ s \notin S
                          /\ <<s, "orphan">> \in T => \/ <<s, "orphan">> \in R
                                                      \/ s \in S /\ <<s, "new">> \in R /\ <<s, "new">> \notin G
                /\ \A r \in T : \E t \in R : r[1] = t[1]
    <2>2. /\ T \in SUBSET Object
          /\ \A s : /\ <<s, "old">> \in T <=> <<s, "old">> \in R /\ <<s, "old">> \notin G
                    /\ <<s, "new">> \in T <=> <<s, "new">> \in R /\ <<s, "new">> \notin G /\ s \notin S
                    /\ <<s, "orphan">> \in T => \/ <<s, "orphan">> \in R
                                                \/ s \in S /\ <<s, "new">> \in R /\ <<s, "new">> \notin G
          /\ \A r \in T : \E t \in R : r[1] = t[1]
      BY <1>14, Left
    <2>3. QED
      BY <1>12, <2>2
  <1>15. LeftOf(l, live, G, S) /\ LeftOf(u, subscribed, G, S) /\ LeftOf(d, dirty, G, S) /\ LeftOf(q, queued, G, S)
    BY <1>0, <1>7, <1>12, <1>13 DEF Types, LeftOf
  <1>16. /\ l \in SUBSET Object
         /\ \A s : /\ <<s, "old">> \in l <=> <<s, "old">> \in live /\ s \notin shown
                   /\ <<s, "new">> \in l <=> <<s, "new">> \in live /\ s \notin S
                   /\ <<s, "orphan">> \in l => \/ <<s, "orphan">> \in live
                                               \/ s \in S /\ <<s, "new">> \in live /\ <<s, "new">> \notin G
         /\ \A r \in l : \E t \in live : r[1] = t[1]
    BY <1>14, <1>15
  <1>17. /\ u \in SUBSET Object
         /\ \A s : /\ <<s, "old">> \in u <=> <<s, "old">> \in subscribed /\ s \notin shown
                   /\ <<s, "new">> \in u <=> <<s, "new">> \in subscribed /\ s \notin S
                   /\ <<s, "orphan">> \in u => \/ <<s, "orphan">> \in subscribed
                                               \/ s \in S /\ <<s, "new">> \in subscribed /\ <<s, "new">> \notin G
         /\ \A r \in u : \E t \in subscribed : r[1] = t[1]
    BY <1>14, <1>15
  <1>18. /\ d \in SUBSET Object
         /\ \A s : /\ <<s, "old">> \in d <=> <<s, "old">> \in dirty /\ s \notin shown
                   /\ <<s, "new">> \in d <=> <<s, "new">> \in dirty /\ s \notin S
                   /\ <<s, "orphan">> \in d => \/ <<s, "orphan">> \in dirty
                                               \/ s \in S /\ <<s, "new">> \in dirty /\ <<s, "new">> \notin G
    BY <1>14, <1>15
  <1>19. /\ q \in SUBSET Object
         /\ \A s : /\ <<s, "old">> \in q <=> <<s, "old">> \in queued /\ s \notin shown
                   /\ <<s, "new">> \in q <=> <<s, "new">> \in queued /\ s \notin S
                   /\ <<s, "orphan">> \in q => \/ <<s, "orphan">> \in queued
                                               \/ s \in S /\ <<s, "new">> \in queued /\ <<s, "new">> \notin G
         /\ \A r \in q : \E t \in queued : r[1] = t[1]
    BY <1>14, <1>15
  <1>20. PICK k : k = i - 1
    OBVIOUS
  <1>21. k \in 1..Len(walk) /\ StackCutTo(k)
    <2>1. walk \in Seq(FrameOf) /\ Len(walk) \in Nat /\ i <= Len(walk)
      BY <1>0, <1>3 DEF Types
    <2>2. k \in 1..Len(walk)
      BY <1>3, <1>20, <2>1
    <2>3. walk' = SubSeq(walk, 1, k)
      BY <1>10, <1>20
    <2>4. walk' \in Seq(FrameOf) /\ Len(walk') = k /\ \A j \in 1..k : walk'[j] = walk[j]
      BY <2>1, <2>2, <2>3
    <2>5. QED
      BY <2>2, <2>4 DEF StackCutTo
  <1>22. /\ ~Idle' /\ Root' = Root /\ StackFits'
         /\ \A s : Ahead(s) => Ahead(s)' \/ \E j \in DOMAIN walk : j > k /\ \E c \in Pending(walk[j]) : s \in Whole(c)
         /\ \A s : InMount(s)' => InMount(s)
         /\ \A s : Entered(s)' => Entered(s)
         /\ \A s : Entered(s) => Entered(s)' \/ \E j \in DOMAIN walk : j > k /\ walk[j].site = s /\ Mounting(walk[j])
         /\ \A s : Updating(s)' => Updating(s)
         /\ \A s : Updating(s) => Updating(s)' \/ \E j \in DOMAIN walk : j > k /\ walk[j].site = s /\ walk[j].op = "update"
    <2>1. built' \subseteq built /\ adopted' = adopted /\ removed' \subseteq removed \union S
      BY <1>10, <1>11
    <2>2. \A j \in 1..k : walk[j].site \in built' /\ \A c \in Pending(walk[j]) : Whole(c) \cap S = {}
      BY <1>6, <1>10, <1>20
    <2>3. QED
      BY <1>0, <1>1, <1>21, <2>1, <2>2, StackCuts
  <1>23. /\ \A s : Ahead(s) => Ahead(s)' \/ s \in S
         /\ \A s : Entered(s) => Entered(s)' \/ s = b \/ s \in S
         /\ \A s : Updating(s) => Updating(s)' \/ s = b \/ s \in S
    BY <1>6, <1>7, <1>20, <1>22
  <1>24. \A s : Updating(s)' => s \notin S
    <2>1. \A s : Updating(s)' => s \in built'
      BY <1>22 DEF StackFits, Fits, Updating
    <2>2. QED
      BY <1>10, <2>1
  <1>25. b \notin adopted
    BY <1>0, <1>3, <1>4 DEF SitesFit
  <1>26. ASSUME NEW s \in S
         PROVE  /\ <<s, "new">> \in subscribed => <<s, "new">> \in G
                /\ Holds(s, "new") /\ <<s, "new">> \notin G => careless'
    BY <1>1, <1>3, <1>4, <1>5, <1>10, <1>12, <1>25, <1>26, Leftover
  <1>27. \A s \in Sites : <<s, "orphan">> \notin u
    BY <1>0, <1>17, <1>26 DEF ObjectsFit
  <1>28. \A s \in Sites : <<s, "orphan">> \in l \union q => careless'
    <2> SUFFICES ASSUME NEW s \in Sites, <<s, "orphan">> \in l \union q PROVE careless'
      OBVIOUS
    <2>1. Holds(s, "orphan") \/ (s \in S /\ Holds(s, "new") /\ <<s, "new">> \notin G)
      BY <1>16, <1>19 DEF Holds
    <2>2. Holds(s, "orphan") => careless
      BY <1>0 DEF ObjectsFit
    <2>3. QED
      BY <1>10, <1>26, <2>1, <2>2
  <1>29. Types'
    <2>1. built' \in SUBSET Sites /\ removed' \in SUBSET Sites /\ recovery' \in SUBSET Sites /\ careless' \in BOOLEAN
      BY <1>0, <1>7, <1>10, <1>11 DEF Types
    <2>2. walk' \in Seq(FrameOf)
      BY <1>21 DEF StackCutTo
    <2>3. QED
      BY <1>0, <1>10, <1>13, <1>16, <1>17, <1>18, <1>19, <2>1, <2>2 DEF Types
  <1>30. SitesFit'
    <2>1. Whole(Root)' = Whole(Root) /\ Below(Root)' = Below(Root)
      BY <1>22 DEF Whole, Below
    <2>2. S \subseteq Below(Root)
      <3>1. Root \in Sites
        BY <1>0, <1>1, <1>3, FramesBelow
      <3>2. QED
        BY <1>5, <1>6, <3>1, BelowIn, WholeFacts
    <2>3. adopted' \union removed' \union recovery' \subseteq Below(Root)
      BY <1>0, <1>1, <1>10, <1>11, <2>2 DEF SitesFit
    <2>4. ASSUME NEW s \in built', NEW a \in Ancestors[s], a \in Whole(Root) PROVE a \in built'
      <3>1. s \in built /\ s \notin S /\ s \in Sites
        BY <1>0, <1>10, <2>4 DEF Types
      <3>2. a \in built
        BY <1>0, <1>1, <2>4, <3>1 DEF SitesFit
      <3>3. a \notin S
        <4> SUFFICES ASSUME a \in S PROVE FALSE
          OBVIOUS
        <4>1. b \in Ancestors[a]
          BY <1>5, <1>6, WholeDef
        <4>2. b \in Ancestors[s]
          BY <2>4, <3>1, <4>1, Transitive
        <4>3. QED
          BY <1>5, <1>6, <3>1, <4>2, WholeDef
      <3>4. QED
        BY <1>10, <3>2, <3>3
    <2>5. built' \subseteq Whole(Root)
      BY <1>0, <1>1, <1>10 DEF SitesFit
    <2>6. /\ \A s \in tree' : Ancestors[s] \subseteq tree'
          /\ Root \in tree' /\ \A s \in adopted' : Kind[s] = "scope"
      BY <1>0, <1>1, <1>10 DEF SitesFit
    <2>7. QED
      BY <1>22, <2>1, <2>3, <2>4, <2>5, <2>6 DEF SitesFit
  <1>31. KindsFit'
    <2>1. \A r \in l : Kind[r[1]] # "boundary"
      BY <1>0, <1>16 DEF KindsFit
    <2>2. \A r \in u : Kind[r[1]] = "scope"
      BY <1>0, <1>17 DEF KindsFit
    <2>3. \A r \in q : Kind[r[1]] = "component"
      BY <1>0, <1>19 DEF KindsFit
    <2>4. QED
      BY <1>13, <2>1, <2>2, <2>3 DEF KindsFit
  <1>32. ObjectsFit'
    <2>1. dirty \subseteq subscribed /\ subscribed \subseteq live
      BY <1>0 DEF ObjectsFit
    <2>2. ASSUME NEW r \in d PROVE r \in u
      <3>1. PICK s \in Sites, who \in {"old", "new", "orphan"} : r = <<s, who>>
        BY <1>18, <2>2 DEF Object, Who
      <3>2. <<s, "orphan">> \notin d
        BY <1>0, <1>18, <1>26, <2>1 DEF ObjectsFit
      <3>3. QED
        BY <1>17, <1>18, <2>1, <2>2, <3>1, <3>2
    <2>3. ASSUME NEW r \in u PROVE r \in l
      <3>1. PICK s \in Sites, who \in {"old", "new", "orphan"} : r = <<s, who>>
        BY <1>17, <2>3 DEF Object, Who
      <3>2. QED
        BY <1>16, <1>17, <1>27, <2>1, <2>3, <3>1
    <2>4. ASSUME NEW s \in Sites, Holds(s, "old")'
          PROVE  s \in tree' /\ ~InMount(s)' /\ (~Idle' /\ s \in Whole(Root)' => s \in built' \/ Ahead(s)')
      <3>1. Holds(s, "old") /\ s \notin shown
        BY <1>13, <1>16, <1>19, <2>4 DEF Holds
      <3>2. s \in tree /\ ~InMount(s) /\ (s \in Whole(Root) => s \in built \/ Ahead(s))
        BY <1>0, <1>1, <3>1 DEF ObjectsFit
      <3>3. s \notin S
        <4>1. Mounting(walk[i]) /\ s \in S => InMount(s)
          BY <1>3, <1>4, <1>5, <1>6, WholeFacts DEF InMount
        <4>2. QED
          BY <1>11, <3>1, <3>2, <4>1
      <3>4. Whole(Root)' = Whole(Root)
        BY <1>22 DEF Whole, Below
      <3>5. QED
        BY <1>10, <1>22, <1>23, <3>2, <3>3, <3>4
    <2>5. \A s \in Sites : Holds(s, "new")' => s \in built'
      <3>1. \A s \in Sites : Holds(s, "new")' => Holds(s, "new") /\ s \notin S
        BY <1>13, <1>16, <1>19 DEF Holds
      <3>2. QED
        BY <1>0, <1>10, <3>1 DEF ObjectsFit
    <2>6. \A s \in Sites : <<s, "new">> \in subscribed' => s \in recovery'
      BY <1>0, <1>10, <1>13, <1>17 DEF ObjectsFit
    <2>7. ASSUME NEW s \in Sites, <<s, "new">> \in live', Kind[s] = "scope"
          PROVE  <<s, "new">> \in subscribed' \/ Updating(s)'
      <3>1. <<s, "new">> \in live /\ s \notin S
        BY <1>13, <1>16, <2>7
      <3>2. <<s, "new">> \in subscribed \/ Updating(s)
        BY <1>0, <2>7, <3>1 DEF ObjectsFit
      <3>3. s # b
        BY <1>3, <1>4, <2>7
      <3>4. QED
        BY <1>13, <1>17, <1>23, <3>1, <3>2, <3>3
    <2>8. \A s \in Sites : Updating(s)' => <<s, "new">> \in live'
      BY <1>0, <1>13, <1>16, <1>22, <1>24 DEF ObjectsFit
    <2>9. \A s \in Sites : <<s, "orphan">> \notin subscribed' /\ (Holds(s, "orphan")' => careless')
      BY <1>13, <1>27, <1>28 DEF Holds
    <2>10. dirty' \subseteq subscribed' /\ subscribed' \subseteq live'
      BY <1>13, <2>2, <2>3
    <2>11. QED
      BY <2>4, <2>5, <2>6, <2>7, <2>8, <2>9, <2>10 DEF ObjectsFit
  <1>33. AliveFit'
    <2>1. \A s \in tree' \ harmed' : Kind[s] # "boundary" =>
            <<s, "old">> \in live' \/ s \in adopted' \union removed'
      BY <1>0, <1>10, <1>13, <1>16 DEF AliveFit
    <2>2. ASSUME NEW s \in built', Kind[s] # "boundary"
          PROVE  \/ <<s, "old">> \in live' \/ <<s, "new">> \in live'
                 \/ Kind[s] = "scope" /\ Entered(s)'
                 \/ s \in harmed'
      <3>1. s \in built /\ s \notin S /\ s \notin shown /\ s # b
        BY <1>3, <1>4, <1>10, <1>11, <2>2
      <3>2. QED
        BY <1>0, <1>10, <1>13, <1>16, <1>23, <2>2, <3>1 DEF AliveFit
    <2>3. \A s \in Sites : <<s, "old">> \in live' /\ Kind[s] = "scope" => <<s, "old">> \in subscribed'
      BY <1>0, <1>13, <1>16, <1>17 DEF AliveFit
    <2>4. QED
      BY <2>1, <2>2, <2>3 DEF AliveFit
  <1>34. LatestFit'
    <2>1. \A s \in tree' \ harmed' : Kind[s] = "scope" =>
            s \in fresh' \union missed' \/ <<s, "old">> \in dirty' \/ s \in adopted' \union removed'
      BY <1>0, <1>10, <1>13, <1>18 DEF LatestFit
    <2>2. ASSUME NEW s \in built', Kind[s] = "scope"
          PROVE  \/ s \in fresh' \union missed' \/ <<s, "old">> \in dirty' \/ <<s, "new">> \in dirty'
                 \/ s \in harmed' /\ <<s, "new">> \notin live' /\ ~Entered(s)'
      <3>1. s \in built /\ s \notin S /\ s \notin shown
        BY <1>10, <1>11, <2>2
      <3>2. QED
        BY <1>0, <1>10, <1>13, <1>16, <1>18, <1>22, <2>2, <3>1 DEF LatestFit
    <2>3. QED
      BY <2>1, <2>2 DEF LatestFit
  <1>35. QED
    BY <1>22, <1>29, <1>30, <1>31, <1>32, <1>33, <1>34 DEF ScopesInv

-----------------------------------------------------------------------------
(* The theorems *)

(* Every step of the renderer, and every write between two steps, keeps    *)
(* the invariant: what diff.go and renderer.go do at each node leaves the  *)
(* objects of the page and of the walk accounted for.                      *)
LEMMA ScopesInvNext ==
  ASSUME ScopesInv, [Next]_vars
  PROVE  ScopesInv'
  <1>1. ASSUME NEW s \in Sites, ReRender(s) PROVE ScopesInv'
    BY <1>1, ReRenderKeepsInv
  <1>2. ASSUME NEW s \in Sites, Write(s) PROVE ScopesInv'
    BY <1>2, WriteKeepsInv
  <1>3. CASE DropChild
    BY <1>3, DropChildKeepsInv
  <1>4. CASE MountChild
    BY <1>4, MountChildKeepsInv
  <1>5. CASE LeaveScope
    BY <1>5, LeaveScopeKeepsInv
  <1>6. CASE LeaveNode
    BY <1>6, LeaveNodeKeepsInv
  <1>7. CASE DiffFresh
    BY <1>7, DiffFreshKeepsInv
  <1>8. CASE DiffElement
    BY <1>8, DiffElementKeepsInv
  <1>9. CASE DiffComponent
    BY <1>9, DiffComponentKeepsInv
  <1>10. CASE DiffBoundary
    BY <1>10, DiffBoundaryKeepsInv
  <1>11. CASE AdoptScope
    BY <1>11, AdoptScopeKeepsInv
  <1>12. CASE ReplaceScope
    BY <1>12, ReplaceScopeKeepsInv
  <1>13. CASE AdoptEnd
    BY <1>13, AdoptEndKeepsInv
  <1>14. CASE Commit
    BY <1>14, CommitKeepsInv
  <1>15. CASE CaughtByBoundary
    BY <1>15, CaughtByBoundaryKeepsInv
  <1>16. CASE CaughtByReRender
    BY <1>16, CaughtByReRenderKeepsInv
  <1>17. CASE RunEffects
    BY <1>17, RunEffectsKeepsInv
  <1>18. CASE Unmount
    BY <1>18, UnmountKeepsInv
  <1>19. CASE UNCHANGED vars
    BY <1>19, StutterKeepsInv
  <1>20. QED
    BY <1>1, <1>2, <1>3, <1>4, <1>5, <1>6, <1>7, <1>8, <1>9, <1>10, <1>11, <1>12, <1>13, <1>14,
       <1>15, <1>16, <1>17, <1>18, <1>19 DEF Next

\* The inductive invariant holds in every reachable state, whatever the page and whatever is rendered.
THEOREM ScopesInvariant == Spec => []ScopesInv
  <1>1. ScopesInv /\ [Next]_vars => ScopesInv'
    BY ScopesInvNext
  <1>2. QED
    BY InitInv, <1>1, PTL DEF Spec

(* Between walks nothing outside the page is registered, subscribed, bound *)
(* or waiting to run, but for orphans of a walk that panicked after it had *)
(* adopted or removed something; at no time is a scope dirty that was      *)
(* removed, adopted or abandoned (emitRemoveTree, abandon, CancelDirty).   *)
THEOREM NothingLeaksAlways == Spec => []NothingLeaks
  <1>1. ScopesInv => NothingLeaks
    <2> SUFFICES ASSUME ScopesInv PROVE NothingLeaks
      OBVIOUS
    <2>1. Types /\ ObjectsFit
      BY DEF ScopesInv
    <2>2. ASSUME Idle, NEW r \in live \union queued
          PROVE  r \in Old(tree) \/ (careless /\ r \in Sites \X {"orphan"})
      <3>1. PICK s \in Sites, who \in {"old", "new", "orphan"} : r = <<s, who>>
        BY <2>1, <2>2 DEF Types, Object, Who
      <3>2. Holds(s, who)
        BY <2>2, <3>1 DEF Holds
      <3>3. who # "new"
        BY <2>2, <3>2, IdleFacts
      <3>4. who = "old" => s \in tree
        BY <2>1, <3>2 DEF ObjectsFit
      <3>5. who = "orphan" => careless
        BY <2>1, <3>2 DEF ObjectsFit
      <3>6. QED
        BY <3>1, <3>3, <3>4, <3>5 DEF Old
    <2>3. ASSUME Idle, NEW r \in subscribed PROVE r \in Old(tree)
      <3>1. PICK s \in Sites, who \in {"old", "new", "orphan"} : r = <<s, who>>
        BY <2>1, <2>3 DEF Types, Object, Who
      <3>2. who # "new" /\ who # "orphan"
        BY <2>1, <2>3, <3>1, IdleFacts DEF ObjectsFit
      <3>3. Holds(s, "old")
        BY <2>1, <2>3, <3>1, <3>2 DEF Holds, ObjectsFit
      <3>4. s \in tree
        BY <2>1, <3>3 DEF ObjectsFit
      <3>5. QED
        BY <3>1, <3>2, <3>4 DEF Old
    <2>4. dirty \subseteq subscribed
      BY <2>1 DEF ObjectsFit
    <2>5. QED
      BY <2>2, <2>3, <2>4 DEF NothingLeaks
  <1>2. QED
    BY ScopesInvariant, <1>1, PTL

(* Between walks everything in the page works: its scopes are registered   *)
(* and subscribed, its components' frames live, its elements bound, but    *)
(* for what a walk had adopted or removed before it panicked (adoptScope,  *)
(* diffElement, VisitErrorBoundary).                                       *)
THEOREM PageIsAliveAlways == Spec => []PageIsAlive
  <1>1. ScopesInv => PageIsAlive
    <2> SUFFICES ASSUME ScopesInv, Idle
                 PROVE  /\ Old({s \in tree \ harmed : Kind[s] # "boundary"}) \subseteq live
                        /\ Old({s \in tree \ harmed : Kind[s] = "scope"}) \subseteq subscribed
      BY DEF PageIsAlive
    <2>1. AliveFit /\ adopted = {} /\ removed = {} /\ tree \in SUBSET Sites
      BY IdleFacts DEF ScopesInv, Types
    <2>2. \A s \in tree \ harmed : Kind[s] # "boundary" => <<s, "old">> \in live
      BY <2>1 DEF AliveFit
    <2>3. \A s \in tree \ harmed : Kind[s] = "scope" => <<s, "old">> \in subscribed
      BY <2>1, <2>2 DEF AliveFit
    <2>4. QED
      BY <2>2, <2>3 DEF Old
  <1>2. QED
    BY ScopesInvariant, <1>1, PTL

(* With no scope dirty between walks, every scope of the page has rendered *)
(* since its dependencies last changed, unless they changed before it      *)
(* subscribed, or a panicked walk had adopted or removed it (reRenderScope *)
(* and markDirty).                                                         *)
THEOREM ContentIsLatestAlways == Spec => []ContentIsLatest
  <1>1. ScopesInv => ContentIsLatest
    <2> SUFFICES ASSUME ScopesInv, Idle, dirty = {}, NEW s \in tree, Kind[s] = "scope"
                 PROVE  s \in fresh \union missed \union harmed
      BY DEF ContentIsLatest
    <2>1. LatestFit /\ adopted = {} /\ removed = {}
      BY IdleFacts DEF ScopesInv
    <2>2. QED
      BY <2>1 DEF LatestFit
  <1>2. QED
    BY ScopesInvariant, <1>1, PTL
=============================================================================
