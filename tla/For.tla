-------------------------------- MODULE For --------------------------------
(***************************************************************************)
(* h.For (h/flow.go): a scope that renders a row for each item of a signal *)
(* and remembers, by key, the rows it rendered, over the diff and the DOM  *)
(* of KeyedDiff.                                                           *)
(*                                                                         *)
(* The scope renders when its items changed, and, as a new scope with a    *)
(* new memory that adopts the old one's rows, whenever the scope around it *)
(* does.  A scope that is not For's renders any list, as in KeyedDiff.     *)
(***************************************************************************)
EXTENDS KeyedDiff

CONSTANTS
  Item, KeyOf,   \* items and their keys
  RowOf,         \* what render returns for an item
  ItemLists,     \* values of the signal
  MaxGen         \* bound: no row is remounted more often between two parent renders

ASSUME ForAssumption ==
  /\ KeyOf \in [Item -> Key]
  /\ MaxGen \in Nat
  /\ \A x \in Item : RowOf[x].item = x /\ RowOf[x].kind \in {"element", "component"}

VARIABLES
  isFor,     \* whether the scope is For's
  items,     \* the value of the signal
  dirty,     \* the scope waits to be rendered
  memory,    \* For's rows, by key
  failed,    \* the last render panicked
  forgotten  \* history: plain components mounted while the memory lacked their key

forVars == <<isFor, items, dirty, memory, failed, forgotten>>

-----------------------------------------------------------------------------
(* The rows *)

IsPlain(n) == n.kind = "component" /\ n.tag \notin PropsTags

Remembers(mem, x) == KeyOf[x] \in DOMAIN mem
Unchanged(mem, x) == Remembers(mem, x) /\ mem[KeyOf[x]].item = x

\* A mutant: a row keeps its generation.
SameGen(mem, x) == IF Remembers(mem, x) THEN mem[KeyOf[x]].gen ELSE 0

\* The generation of a changed row: a plain component starts a new one.
NewGen(mem, x) ==
  IF ~Remembers(mem, x) THEN 0
  ELSE IF IsPlain(RowOf[x]) THEN mem[KeyOf[x]].gen + 1 ELSE mem[KeyOf[x]].gen

\* SetKey, with a remountKey after the first generation.
Rekeyed(n, k, gen) == [n EXCEPT !.key = IF gen > 0 THEN <<k, gen>> ELSE k]

Row(mem, x) ==
  IF Unchanged(mem, x) THEN mem[KeyOf[x]]
  ELSE [item |-> x, gen |-> NewGen(mem, x), node |-> Rekeyed(RowOf[x], KeyOf[x], NewGen(mem, x))]

FirstOf(k, xs) == SelectInSeq(xs, LAMBDA x : KeyOf[x] = k)

\* The first item with a key is remembered, the others are rendered uncached.
NextMemory(mem, xs) == [k \in {KeyOf[x] : x \in ToSet(xs)} |-> Row(mem, xs[FirstOf(k, xs)])]

Children(mem, xs) ==
  [i \in DOMAIN xs |-> IF FirstOf(KeyOf[xs[i]], xs) = i THEN Row(mem, xs[i]).node
                       ELSE Rekeyed(RowOf[xs[i]], KeyOf[xs[i]], 0)]
-----------------------------------------------------------------------------
(* Rendering *)

SetItems(xs) ==
  /\ \A x \in ToSet(xs) : Unchanged(memory, x) \/ NewGen(memory, x) <= MaxGen
  /\ items' = xs
  /\ dirty' = TRUE
  /\ UNCHANGED <<isFor, memory, failed, forgotten, vars>>

Forgets(mem) == {rows[i].id : i \in {i \in DOMAIN rows : IsPlain(rows[i]) /\ ~Remembers(mem, rows[i].item)}}

RenderRows(mem) ==
  /\ Rerender(Children(mem, items))
  /\ memory' = NextMemory(mem, items)
  /\ dirty' = FALSE
  /\ failed' = FALSE
  /\ forgotten' = (forgotten \union Forgets(mem)) \intersect ToSet(IDs(rows'))
  /\ UNCHANGED <<isFor, items>>

Update == dirty /\ RenderRows(memory)

Nothing == [k \in {} |-> None]

\* The scope around renders: a For with nothing remembered adopts the rows (adoptScope).
ParentRenders == RenderRows(Nothing)

Fail ==
  /\ dirty
  /\ dirty' = FALSE
  /\ failed' = TRUE
  /\ UNCHANGED <<isFor, items>>

\* key or render panics: nothing is remembered and nothing diffed.
RenderPanics ==
  /\ Fail
  /\ items # <<>>
  /\ UNCHANGED <<memory, forgotten, vars>>

\* The diff of the rows from the j-th on: rows are diffed from last to first.
DiffedFrom(j, match, new) ==
  ListDiff!DiffPairs(SubSeq(match, j, Len(new)), rows, SubSeq(new, j, Len(new)), "list", End,
                     [nextID |-> nextID, muts |-> <<>>])

\* What is mounted after it: components that were given props have them.
Delivered(diffed) ==
  [o \in DOMAIN rows |->
     LET i == SelectInSeq(diffed, LAMBDA n : n.id = rows[o].id)
     IN IF i # 0 /\ rows[o].kind = "component" THEN diffed[i] ELSE rows[o]]

\* The components it disposed: the unpaired ones at first, then those that were replaced.
DisposedBy(j, match, diffed) ==
  {rows[o].id : o \in {o \in DOMAIN rows :
     /\ rows[o].kind = "component"
     /\ \A i \in DOMAIN match : match[i] = o => i >= j /\ diffed[i - j + 1].id # rows[o].id}}

\* Code in the j-th row panics as the row is mounted, or its element diffed.  The mounted list
\* and the page stay, as the diff's mutations are discarded; but For remembers the new rows,
\* and the components that the diff had disposed and those it had given props are still listed.
MountPanics(j) ==
  LET new == Children(memory, items)
      match == ListDiff!Match(rows, new)
      r == DiffedFrom(j, match, new)
  IN /\ Fail
     /\ \/ r.fresh[1]
        \/ new[j].kind = "element" /\ (failed \/ ~Unchanged(memory, items[j]))
     /\ memory' = NextMemory(memory, items)
     /\ forgotten' = forgotten \union Forgets(memory')
     /\ rows' = Delivered(r.list)
     /\ disposed' = disposed \union DisposedBy(j, match, r.list)
     /\ nextID' = r.d.nextID
     /\ muts' = <<>>
     /\ UNCHANGED dom

UpdatePanics == RenderPanics \/ \E j \in DOMAIN items : MountPanics(j)

ForInit ==
  /\ Init
  /\ isFor \in BOOLEAN
  /\ items = <<>> /\ dirty = FALSE /\ memory = Nothing /\ failed = FALSE /\ forgotten = {}

ForNext ==
  \/ isFor /\ \E xs \in ItemLists : SetItems(xs)
  \/ isFor /\ (Update \/ UpdatePanics \/ ParentRenders)
  \/ ~isFor /\ Next /\ UNCHANGED forVars

ForSpec == ForInit /\ [][ForNext]_<<vars, forVars>>
-----------------------------------------------------------------------------
(* Correctness *)

Settled == isFor /\ ~dirty /\ ~failed
KeysAreUnique == IsInjective([i \in DOMAIN items |-> KeyOf[items[i]]])

(* When no render is due every row shows its item, whatever its kind and   *)
(* although most rows are reused and earlier renders panicked midway       *)
(* (flow.go:40-49).  Two kinds of component may be older: a plain one that *)
(* was mounted when For had no memory of it, and one that a render         *)
(* disposed before it panicked (diff.go:436-440), whose key came back.     *)
RowsShowTheirItems ==
  Settled /\ KeysAreUnique =>
    /\ Len(rows) = Len(items)
    /\ \A i \in DOMAIN items : rows[i].item = items[i] \/ rows[i].id \in forgotten \union disposed
=============================================================================
