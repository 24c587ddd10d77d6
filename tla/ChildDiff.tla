----------------------------- MODULE ChildDiff -----------------------------
(***************************************************************************)
(* The diff of a child list (internal/dom/diff.go): which old node each    *)
(* new one is matched with, what is removed, and what is placed where.     *)
(***************************************************************************)
EXTENDS ChildNodes

\* diffNode: a matched pair diffed, with its parent, the reference after it and the diff so far.
CONSTANT DiffOne(_, _, _, _, _)

-----------------------------------------------------------------------------
(* Which old node each new one is diffed with: an index, 0 for none.       *)

HasAnyKey(list) == \E i \in DOMAIN list : Keyed(list[i])

PositionalMatch(old, new) == [i \in DOMAIN new |-> IF i <= Len(old) THEN i ELSE 0]

\* Boundaries and portals are compatible with nothing.
TypeCompatible(a, b) ==
  /\ a.kind = b.kind
  /\ a.kind \in {"element", "component", "scope"}
  /\ a.tag = b.tag

\* A mutant: the last of the old nodes with a key takes its place in the map.
LastByKey(old, key) == SelectLastInSeq(old, LAMBDA n : n.key = key)

\* oldByKey[key]: the first that has it, the others being extra.
OldByKey(old, key) == SelectInSeq(old, LAMBDA n : n.key = key)

\* A key goes to the first old and the first new node that have it.  Each new node without a
\* key takes the next compatible old one without, in order; those it skips are lost.
KeyedMatch(old, new) ==
  LET Take(acc, i) ==
        LET extra == \E h \in 1..(i - 1) : new[h].key = new[i].key
            found == SelectInSeq(acc.rest, LAMBDA o : TypeCompatible(old[o], new[i]))
        IN IF Keyed(new[i])
           THEN [acc EXCEPT !.match = Append(@, IF extra THEN 0 ELSE OldByKey(old, new[i].key))]
           ELSE [match |-> Append(acc.match, IF found = 0 THEN 0 ELSE acc.rest[found]),
                 rest |-> IF found = 0 THEN <<>> ELSE SubSeq(acc.rest, found + 1, Len(acc.rest))]
      unkeyed == SelectSeq([o \in DOMAIN old |-> o], LAMBDA o : ~Keyed(old[o]))
  IN FoldLeftDomain(Take, [match |-> <<>>, rest |-> unkeyed], new).match

Match(old, new) ==
  IF HasAnyKey(old) \/ HasAnyKey(new) THEN KeyedMatch(old, new) ELSE PositionalMatch(old, new)

-----------------------------------------------------------------------------
(* Which of the matched nodes stay.                                        *)

\* A mutant: whatever is above the last one kept stays.
GreedyLIS(arr) ==
  FoldLeftDomain(LAMBDA in, i : IF \A k \in in : arr[k] < arr[i] THEN in \union {i} ELSE in, {}, arr)

\* Patience sorting: tails[l] ends the run of length l with the smallest end, prev[i] is before
\* arr[i] in its run, 0 if nothing is.  The binary search is for the first tail not below arr[i].
Patience(arr) ==
  LET Extend(acc, i) ==
        LET lo == 1 + Len(SelectSeq(acc.tails, LAMBDA k : arr[k] < arr[i]))
        IN [tails |-> IF lo > Len(acc.tails) THEN Append(acc.tails, i)
                                             ELSE [acc.tails EXCEPT ![lo] = i],
            prev |-> Append(acc.prev, IF lo = 1 THEN 0 ELSE acc.tails[lo - 1])]
  IN FoldLeftDomain(Extend, [tails |-> <<>>, prev |-> <<>>], arr)

LastRun(runs) ==
  LET chain[k \in 0..Len(runs.prev)] == IF k = 0 THEN {} ELSE {k} \union chain[runs.prev[k]]
  IN IF runs.tails = <<>> THEN {} ELSE chain[Last(runs.tails)]

\* lis: a longest strictly increasing subsequence of arr.
LIS(arr) == LastRun(Patience(arr))

\* A mutant: only new nodes are placed.
NewOnly(match) == {i \in DOMAIN match : match[i] = 0}

\* computeNeedsMove, and fresh for the new ones.
NeedsMove(match) ==
  LET kept == SelectSeq([i \in DOMAIN match |-> i], LAMBDA i : match[i] # 0)
  IN DOMAIN match \ {kept[k] : k \in LIS([k \in DOMAIN kept |-> match[kept[k]]])}

-----------------------------------------------------------------------------
(* diffChildren, keyed or positional: positional matches are in order, so  *)
(* none of them moves.                                                     *)

\* The reference for what is before a node.
RefBefore(node, ref) == IF Roots(node) = <<>> THEN ref ELSE Head(Roots(node))

\* While nodes are diffed only those that were not rendered fresh are in the DOM.
RefAfterDiff(r, ref) == IF r.fresh THEN ref ELSE RefBefore(r.node, ref)

RemoveUnpaired(match, old, d) ==
  LET paired == {match[i] : i \in DOMAIN match}
  IN FoldLeftDomain(LAMBDA acc, o : IF o \in paired THEN acc ELSE RemoveTree(old[o], acc), d, old)

\* The pairs from last to first: what became of them, and the reference for the one before.
DiffedOne(r, acc) ==
  [d |-> r.d, ref |-> RefAfterDiff(r, acc.ref),
   list |-> <<r.node>> \o acc.list, fresh |-> <<r.fresh>> \o acc.fresh]

DiffPairs(match, old, new, parent, endRef, d) ==
  LET Diff(i, acc) ==
        DiffedOne(DiffOne(IF match[i] = 0 THEN None ELSE old[match[i]], new[i], parent, acc.ref, acc.d), acc)
  IN FoldRightDomain(Diff, new, [d |-> d, ref |-> endRef, list |-> <<>>, fresh |-> <<>>])

\* Whatever is fresh or moved, each before the one after it.
PlaceFresh(diffed, moved, parent, endRef) ==
  LET PlaceOne(i, acc) ==
        [d |-> IF i \in moved \/ diffed.fresh[i]
               THEN Place(parent, Roots(diffed.list[i]), acc.ref, acc.d) ELSE acc.d,
         ref |-> RefBefore(diffed.list[i], acc.ref)]
  IN [list |-> diffed.list,
      d |-> FoldRightDomain(PlaceOne, diffed.list, [d |-> diffed.d, ref |-> endRef]).d]

DiffMatched(match, old, new, parent, endRef, d) ==
  PlaceFresh(DiffPairs(match, old, new, parent, endRef, RemoveUnpaired(match, old, d)),
             NeedsMove(match), parent, endRef)

DiffChildren(old, new, parent, endRef, d) ==
  DiffMatched(Match(old, new), old, new, parent, endRef, d)
=============================================================================
