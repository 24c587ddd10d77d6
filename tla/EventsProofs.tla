---------------------------- MODULE EventsProofs ----------------------------
(***************************************************************************)
(* Proofs about the files of Events, for any page, files and handles.      *)
(* Nothing is assumed of the document: a render or a frame may leave any.  *)
(***************************************************************************)
EXTENDS Events, FiniteSetTheorems, TLAPS

\* A handle was given out once, to one file parked under one node, and the store has the
\* files that are parked and no others; what a node's handlers were given is still parked.
StoreInv ==
  /\ nextHandle \in Nat \ {0}
  /\ \A p \in parked : p.file \in File /\ p.handle \in 1..(nextHandle - 1)
  /\ \A p, q \in parked : p.handle = q.handle => p = q
  /\ fileStore = Handles(parked)
  /\ given \subseteq parked

\* Files are parked under nodes of the document, or under the splash, which leaves it
\* without being forgotten.
ParkedInPage == \A p \in parked : p.node \in InPage(dom.kids) \union {Splash}

\* Between the input event and the change event of a selection all that is parked under the
\* input is selected, so that the change event replaces nothing.
ChangeReplacesNothing ==
  /\ \A q \in picked : q.file \in File
  /\ between # Nowhere =>
       /\ between \in InPage(dom.kids)
       /\ \A p \in FilesOf(between) : \E q \in picked : q.node = between /\ q.file = p.file

FilesInv == StoreInv /\ ParkedInPage /\ ChangeReplacesNothing
-----------------------------------------------------------------------------
\* The files before a file in a selection.
FilesBefore(fresh, f) == {g \in fresh : g < f}

\* The place of a file in a selection is below its size, and its own.
LEMMA PlacesAreApart ==
  ASSUME NEW fresh \in SUBSET Nat, IsFiniteSet(fresh)
  PROVE  /\ Cardinality(fresh) \in Nat
         /\ \A f \in fresh : Cardinality(FilesBefore(fresh, f)) \in 0..(Cardinality(fresh) - 1)
         /\ \A f, g \in fresh :
              Cardinality(FilesBefore(fresh, f)) = Cardinality(FilesBefore(fresh, g)) => f = g
  <1>1. Cardinality(fresh) \in Nat
    BY FS_CardinalityType
  <1>2. ASSUME NEW f \in fresh PROVE IsFiniteSet(FilesBefore(fresh, f))
    <2>1. FilesBefore(fresh, f) \in SUBSET fresh
      BY DEF FilesBefore
    <2>2. QED
      BY <2>1, FS_Subset
  <1>3. ASSUME NEW f \in fresh
        PROVE  Cardinality(FilesBefore(fresh, f)) \in 0..(Cardinality(fresh) - 1)
    <2>1. FilesBefore(fresh, f) \in SUBSET fresh /\ f \notin FilesBefore(fresh, f)
      BY DEF FilesBefore
    <2>2. FilesBefore(fresh, f) # fresh
      BY <2>1
    <2>3. /\ Cardinality(FilesBefore(fresh, f)) \in Nat
          /\ Cardinality(FilesBefore(fresh, f)) <= Cardinality(fresh)
          /\ Cardinality(FilesBefore(fresh, f)) # Cardinality(fresh)
      BY <1>2, <2>1, <2>2, FS_Subset, FS_CardinalityType
    <2>4. QED
      BY <1>1, <2>3
  <1>4. ASSUME NEW f \in fresh, NEW g \in fresh,
               Cardinality(FilesBefore(fresh, f)) = Cardinality(FilesBefore(fresh, g))
        PROVE  f >= g
    <2>1. SUFFICES ASSUME f < g PROVE FALSE
      OBVIOUS
    <2>2. f \in FilesBefore(fresh, g) /\ f \notin FilesBefore(fresh, f)
      BY <2>1 DEF FilesBefore
    <2>3. FilesBefore(fresh, f) \in SUBSET FilesBefore(fresh, g)
      <3>1. f \in Nat /\ g \in Nat /\ \A h \in fresh : h \in Nat
        OBVIOUS
      <3>2. \A h \in fresh : h < f => h < g
        BY <2>1, <3>1
      <3>3. QED
        BY <3>2 DEF FilesBefore
    <2>4. FilesBefore(fresh, f) = FilesBefore(fresh, g)
      BY <1>2, <1>4, <2>3, FS_Subset
    <2>5. QED
      BY <2>2, <2>4
  <1>5. QED
    BY <1>1, <1>3, <1>4

\* The new files of a selection parked under n, with handles from next on.
Parking(n, next, fresh) ==
  {[node |-> n, file |-> f, handle |-> next + Cardinality({g \in fresh : g < f})] : f \in fresh}

\* The new files of a selection get handles no file has had.
LEMMA HandlesAreNew ==
  ASSUME NEW fresh \in SUBSET File, NEW n, NEW next \in Nat \ {0}
  PROVE  /\ Cardinality(fresh) \in Nat
         /\ \A p \in Parking(n, next, fresh) :
              /\ p.node = n /\ p.file \in fresh
              /\ p.handle \in next..(next + Cardinality(fresh) - 1)
         /\ \A p, q \in Parking(n, next, fresh) : p.handle = q.handle => p = q
  <1> DEFINE made == Parking(n, next, fresh)
  <1>1. fresh \in SUBSET Nat /\ IsFiniteSet(fresh)
    BY EventsAssumption, FS_Subset
  <1>2. \A f \in fresh : {g \in fresh : g < f} = FilesBefore(fresh, f)
    BY DEF FilesBefore
  <1>3. Cardinality(fresh) \in Nat
    BY <1>1, PlacesAreApart
  <1> DEFINE at(f) == Cardinality(FilesBefore(fresh, f))
  <1>4. \A f \in fresh : at(f) \in 0..(Cardinality(fresh) - 1)
    BY <1>1, PlacesAreApart
  <1>5. \A f, g \in fresh : at(f) = at(g) => f = g
    BY <1>1, PlacesAreApart
  <1>6. made = {[node |-> n, file |-> f, handle |-> next + at(f)] : f \in fresh}
    BY <1>2 DEF Parking
  <1> HIDE DEF at, made
  <1>7. \A f \in fresh : next + at(f) \in next..(next + Cardinality(fresh) - 1)
    BY <1>3, <1>4
  <1>8. \A f, g \in fresh : next + at(f) = next + at(g) => f = g
    BY <1>3, <1>4, <1>5
  <1>9. ASSUME NEW p \in made
        PROVE  \E f \in fresh : p = [node |-> n, file |-> f, handle |-> next + at(f)]
    BY <1>6
  <1>10. ASSUME NEW p \in made
         PROVE  /\ p.node = n /\ p.file \in fresh
                /\ p.handle \in next..(next + Cardinality(fresh) - 1)
    <2>1. PICK f \in fresh : p = [node |-> n, file |-> f, handle |-> next + at(f)]
      BY <1>9
    <2>2. p.node = n /\ p.file = f /\ p.handle = next + at(f)
      BY <2>1
    <2>3. QED
      BY <1>7, <2>2
  <1>11. ASSUME NEW p \in made, NEW q \in made, p.handle = q.handle PROVE p = q
    <2>1. PICK f \in fresh : p = [node |-> n, file |-> f, handle |-> next + at(f)]
      BY <1>9
    <2>2. PICK g \in fresh : q = [node |-> n, file |-> g, handle |-> next + at(g)]
      BY <1>9
    <2>3. f = g
      BY <1>8, <1>11, <2>1, <2>2
    <2>4. QED
      BY <2>1, <2>2, <2>3
  <1>12. QED
    BY <1>3, <1>10, <1>11 DEF made
-----------------------------------------------------------------------------
\* Parking files keeps the store in step, provided the second event of a selection finds
\* nothing to replace.
LEMMA StashKeepsStore ==
  ASSUME StoreInv, NEW n, NEW files \in SUBSET File, NEW again \in BOOLEAN,
         again => \A p \in FilesOf(n) : p.file \in files,
         Stash(n, files, again)
  PROVE  /\ StoreInv'
         /\ \A p \in parked' : (p \in parked /\ p.node # n) \/ (p.node = n /\ p.file \in files)
  <1> DEFINE held == FilesOf(n)
             kept == {p \in held : p.file \in files}
             fresh == files \ {p.file : p \in kept}
             made == {[node |-> n, file |-> f, handle |-> nextHandle + Cardinality({g \in fresh : g < f})]
                        : f \in fresh}
  <1>1. /\ parked' = (parked \ held) \union kept \union made
        /\ fileStore' = (fileStore \union Handles(made)) \ Handles(Replaced(held, files))
        /\ nextHandle' = nextHandle + Cardinality(fresh)
        /\ given' = (IF again THEN given ELSE {g \in given : g.node # n}) \union kept \union made
    BY DEF Stash
  <1>2. /\ nextHandle \in Nat \ {0}
        /\ \A p \in parked : p.file \in File /\ p.handle \in 1..(nextHandle - 1)
        /\ \A p, q \in parked : p.handle = q.handle => p = q
        /\ fileStore = Handles(parked)
        /\ given \subseteq parked
    BY DEF StoreInv
  <1>3. fresh \in SUBSET File
    OBVIOUS
  <1>4. PICK new : new = made
    OBVIOUS
  <1>5. PICK size : size = Cardinality(fresh)
    OBVIOUS
  <1>6. /\ size \in Nat
        /\ \A p \in new : p.node = n /\ p.file \in fresh /\ p.handle \in nextHandle..(nextHandle + size - 1)
        /\ \A p, q \in new : p.handle = q.handle => p = q
    <2>1. new = Parking(n, nextHandle, fresh)
      BY <1>4 DEF Parking
    <2>2. PICK set \in SUBSET File : set = fresh
      BY <1>3
    <2> HIDE DEF made, fresh
    <2>3. PICK next \in Nat \ {0} : next = nextHandle
      BY <1>2
    <2>4. /\ Cardinality(set) \in Nat
          /\ \A p \in Parking(n, next, set) :
               /\ p.node = n /\ p.file \in set
               /\ p.handle \in next..(next + Cardinality(set) - 1)
          /\ \A p, q \in Parking(n, next, set) : p.handle = q.handle => p = q
      BY HandlesAreNew
    <2>5. QED
      BY <1>5, <2>1, <2>2, <2>3, <2>4
  <1>7. held \subseteq parked /\ (\A p \in held : p.node = n) /\ (\A p \in parked : p.node = n => p \in held)
    BY DEF FilesOf
  <1>8. again => kept = held
    BY DEF FilesOf
  <1>9. Replaced(held, files) = held \ kept
    BY DEF Replaced
  <1>10. kept \subseteq held /\ \A p \in kept : p.file \in files
    OBVIOUS
  <1>11. fresh \subseteq files
    OBVIOUS
  <1> HIDE DEF made, fresh, kept, held
  <1>12. /\ parked' = (parked \ held) \union kept \union new
         /\ fileStore' = (Handles(parked) \union Handles(new)) \ Handles(held \ kept)
         /\ nextHandle' = nextHandle + size
         /\ given' = (IF again THEN given ELSE {g \in given : g.node # n}) \union kept \union new
    BY <1>1, <1>2, <1>4, <1>5, <1>9
  <1>13. nextHandle' \in Nat \ {0}
    BY <1>2, <1>6, <1>12
  <1>14. \A p \in parked \union new : p.file \in File /\ p.handle \in 1..(nextHandle' - 1)
    <2>1. \A p \in parked : p.handle \in 1..(nextHandle' - 1)
      BY <1>2, <1>6, <1>12
    <2>2. \A p \in new : p.handle \in 1..(nextHandle' - 1)
      BY <1>2, <1>6, <1>12
    <2>3. QED
      BY <1>2, <1>3, <1>6, <2>1, <2>2
  <1>15. \A p \in parked, q \in new : p.handle # q.handle
    BY <1>2, <1>6
  <1>16. \A p, q \in parked \union new : p.handle = q.handle => p = q
    BY <1>2, <1>6, <1>15
  <1>17. parked' \subseteq parked \union new
    BY <1>7, <1>10, <1>12
  <1>18. fileStore' = Handles(parked')
    <2>1. \A p \in held \ kept : p \notin parked' /\ p \in parked \union new
      BY <1>7, <1>12, <1>15
    <2>2. \A p \in parked \union new : p \in parked' \/ p \in held \ kept
      BY <1>12
    <2>3. \A p \in parked', q \in held \ kept : <<p.handle, p.file>> # <<q.handle, q.file>>
      BY <1>16, <1>17, <2>1
    <2>4. Handles(parked') \intersect Handles(held \ kept) = {}
      BY <2>3 DEF Handles
    <2>5. Handles(parked) \union Handles(new) = Handles(parked \union new)
      BY DEF Handles
    <2>6. Handles(parked \union new) = Handles(parked') \union Handles(held \ kept)
      BY <1>17, <2>1, <2>2 DEF Handles
    <2>7. QED
      BY <1>12, <2>4, <2>5, <2>6
  <1>19. given' \subseteq parked'
    BY <1>2, <1>7, <1>8, <1>12
  <1>20. StoreInv'
    BY <1>13, <1>14, <1>16, <1>17, <1>18, <1>19 DEF StoreInv
  <1>21. \A p \in parked' : (p \in parked /\ p.node # n) \/ (p.node = n /\ p.file \in files)
    <2>1. \A p \in parked \ held : p.node # n
      BY <1>7
    <2>2. \A p \in kept : p.node = n /\ p.file \in files
      BY <1>7, <1>10
    <2>3. \A p \in new : p.node = n /\ p.file \in files
      BY <1>6, <1>11
    <2>4. QED
      BY <1>12, <2>1, <2>2, <2>3
  <1>22. QED
    BY <1>20, <1>21

\* At first no file is parked.
LEMMA FilesInvInit ==
  ASSUME Init PROVE FilesInv
  <1>1. parked = {} /\ fileStore = {} /\ nextHandle = 1 /\ picked = {} /\ between = Nowhere /\ given = {}
    BY DEF Init
  <1>2. Handles(parked) = {}
    BY <1>1 DEF Handles
  <1>3. QED
    BY <1>1, <1>2 DEF FilesInv, StoreInv, ParkedInPage, ChangeReplacesNothing

\* A render or a frame forgets the files of the nodes it removes, and of no others.
LEMMA PageStepKeepsFilesInv ==
  ASSUME FilesInv, PageStep PROVE FilesInv'
  <1> DEFINE nodes == {p.node : p \in parked \union given \union picked}
             gone == nodes \cap (InPage(dom.kids) \ InPage(dom'.kids))
  <1>1. /\ between = Nowhere /\ between' = Nowhere /\ nextHandle' = nextHandle
        /\ parked' = parked \ Released(gone \ {Splash})
        /\ fileStore' = fileStore \ Handles(Released(gone \ {Splash}))
        /\ given' = {g \in given : g.node \notin gone}
        /\ picked' = {p \in picked : p.node \notin gone}
    BY DEF PageStep, Forgotten
  <1>2. PICK off : off = Released(gone \ {Splash})
    OBVIOUS
  <1>3. /\ off \subseteq parked
        /\ \A p \in off : p.node \in gone
        /\ \A p \in parked : p.node \in gone \ {Splash} => p \in off
    BY <1>2 DEF Released
  <1>4. /\ nextHandle \in Nat \ {0}
        /\ \A p \in parked : p.file \in File /\ p.handle \in 1..(nextHandle - 1)
        /\ \A p, q \in parked : p.handle = q.handle => p = q
        /\ fileStore = Handles(parked)
        /\ given \subseteq parked
    BY DEF FilesInv, StoreInv
  <1>5. \A p \in parked : p.node \in nodes
    OBVIOUS
  <1>6. \A p \in parked : p.node \in InPage(dom.kids) \union {Splash}
    BY DEF FilesInv, ParkedInPage
  <1>7. \A p \in parked : p.node \in gone \/ p.node \in InPage(dom'.kids) \union {Splash}
    BY <1>5, <1>6
  <1> HIDE DEF gone, nodes
  <1>8. fileStore' = Handles(parked')
    <2>1. \A p \in parked \ off, q \in off : <<p.handle, p.file>> # <<q.handle, q.file>>
      BY <1>3, <1>4
    <2>2. Handles(parked) = Handles(parked \ off) \union Handles(off)
      BY <1>3 DEF Handles
    <2>3. Handles(parked \ off) \intersect Handles(off) = {}
      BY <2>1 DEF Handles
    <2>4. QED
      BY <1>1, <1>2, <1>4, <2>2, <2>3
  <1>9. given' \subseteq parked'
    BY <1>1, <1>2, <1>3, <1>4
  <1>10. StoreInv'
    BY <1>1, <1>2, <1>4, <1>8, <1>9 DEF StoreInv
  <1>11. ParkedInPage'
    BY <1>1, <1>2, <1>3, <1>7 DEF ParkedInPage
  <1>12. ChangeReplacesNothing'
    BY <1>1 DEF FilesInv, ChangeReplacesNothing
  <1>13. QED
    BY <1>10, <1>11, <1>12 DEF FilesInv

\* A selection parks the files the input now has.
LEMMA PickKeepsFilesInv ==
  ASSUME FilesInv, NEW n \in Targets, NEW files \in SUBSET File, Pick(n, files) PROVE FilesInv'
  <1>1. /\ picked' = {p \in picked : p.node # n} \union {[node |-> n, file |-> f] : f \in files}
        /\ Stash(n, files, FALSE) /\ between' = n /\ dom' = dom
    BY DEF Pick, pageVars
  <1>2. /\ StoreInv'
        /\ \A p \in parked' : (p \in parked /\ p.node # n) \/ (p.node = n /\ p.file \in files)
    BY <1>1, StashKeepsStore DEF FilesInv
  <1>3. n \in InPage(dom.kids)
    BY DEF Targets
  <1>4. ParkedInPage'
    BY <1>1, <1>2, <1>3 DEF FilesInv, ParkedInPage
  <1>5. \A q \in picked' : q.file \in File
    BY <1>1 DEF FilesInv, ChangeReplacesNothing
  <1>6. \A p \in FilesOf(n)' : \E q \in picked' : q.node = n /\ q.file = p.file
    <2>1. ASSUME NEW p \in parked', p.node = n PROVE \E q \in picked' : q.node = n /\ q.file = p.file
      <3>1. p.file \in files
        BY <1>2, <2>1
      <3>2. [node |-> n, file |-> p.file] \in picked'
        BY <1>1, <3>1
      <3>3. QED
        BY <3>2
    <2>2. QED
      BY <2>1 DEF FilesOf
  <1>7. ChangeReplacesNothing'
    BY <1>1, <1>3, <1>5, <1>6 DEF ChangeReplacesNothing
  <1>8. QED
    BY <1>2, <1>4, <1>7 DEF FilesInv

\* The change event parks the selection again and replaces nothing.
LEMMA ChangeKeepsFilesInv ==
  ASSUME FilesInv, Change PROVE FilesInv'
  <1> DEFINE files == {p.file : p \in {q \in picked : q.node = between}}
  <1>1. /\ between # Nowhere /\ Stash(between, files, TRUE)
        /\ between' = Nowhere /\ dom' = dom /\ picked' = picked
    BY DEF Change, pageVars
  <1>2. files \in SUBSET File /\ \A p \in FilesOf(between) : p.file \in files
    BY <1>1 DEF FilesInv, ChangeReplacesNothing
  <1>3. between \in InPage(dom.kids)
    BY <1>1 DEF FilesInv, ChangeReplacesNothing
  <1> HIDE DEF files
  <1>4. /\ StoreInv'
        /\ \A p \in parked' : (p \in parked /\ p.node # between) \/ (p.node = between /\ p.file \in files)
    BY <1>1, <1>2, StashKeepsStore DEF FilesInv
  <1>5. ParkedInPage'
    BY <1>1, <1>3, <1>4 DEF FilesInv, ParkedInPage
  <1>6. ChangeReplacesNothing'
    BY <1>1 DEF FilesInv, ChangeReplacesNothing
  <1>7. QED
    BY <1>4, <1>5, <1>6 DEF FilesInv

\* A paste or drop replaces what the last one on its target parked.
LEMMA PasteKeepsFilesInv ==
  ASSUME FilesInv, NEW n \in Targets, NEW files \in SUBSET File, Paste(n, files) PROVE FilesInv'
  <1>1. Stash(n, files, FALSE) /\ between = Nowhere /\ between' = between /\ dom' = dom /\ picked' = picked
    BY DEF Paste, pageVars
  <1>2. /\ StoreInv'
        /\ \A p \in parked' : (p \in parked /\ p.node # n) \/ (p.node = n /\ p.file \in files)
    BY <1>1, StashKeepsStore DEF FilesInv
  <1>3. n \in InPage(dom.kids)
    BY DEF Targets
  <1>4. ParkedInPage'
    BY <1>1, <1>2, <1>3 DEF FilesInv, ParkedInPage
  <1>5. ChangeReplacesNothing'
    BY <1>1 DEF FilesInv, ChangeReplacesNothing
  <1>6. QED
    BY <1>2, <1>4, <1>5 DEF FilesInv

\* A step that touches neither files nor the document.
LEMMA FilesUnchanged ==
  ASSUME FilesInv, UNCHANGED <<dom, fileVars>> PROVE FilesInv'
  BY DEF FilesInv, StoreInv, ParkedInPage, ChangeReplacesNothing, FilesOf, Handles, fileVars

\* Every step keeps the invariant.
LEMMA FilesInvNext ==
  ASSUME FilesInv, [Next]_<<pageVars, eventVars, fileVars>> PROVE FilesInv'
  <1>1. CASE PageStep
    BY <1>1, PageStepKeepsFilesInv
  <1>2. CASE \E type \in {"scroll", "pointermove"}, n \in Targets : QueueEvent(type, n)
    BY <1>2, FilesUnchanged DEF QueueEvent, pageVars
  <1>3. CASE Deliver
    BY <1>3, FilesUnchanged DEF Deliver, pageVars
  <1>4. CASE \E n \in Targets, files \in SUBSET File : Pick(n, files) \/ Paste(n, files)
    BY <1>4, PickKeepsFilesInv, PasteKeepsFilesInv
  <1>5. CASE Change
    BY <1>5, ChangeKeepsFilesInv
  <1>6. CASE UNCHANGED <<pageVars, eventVars, fileVars>>
    BY <1>6, FilesUnchanged DEF pageVars
  <1>7. QED
    BY <1>1, <1>2, <1>3, <1>4, <1>5, <1>6 DEF Next

\* The store, what is parked and what is selected agree as FilesInv says.
THEOREM FilesInvariant == EventsSpec => []FilesInv
  <1>1. Init => FilesInv
    BY FilesInvInit
  <1>2. FilesInv /\ [Next]_<<pageVars, eventVars, fileVars>> => FilesInv'
    BY FilesInvNext
  <1>3. QED
    BY <1>1, <1>2, PTL DEF EventsSpec

\* What the last event on an element gave its handlers stays readable while the element is in
\* the page, and no File outlives its element, in every page and for any number of files.
THEOREM FilesAlwaysFollowElements == EventsSpec => []FilesFollowElements
  <1>1. ASSUME FilesInv PROVE FilesFollowElements
    <2>1. /\ nextHandle \in Nat \ {0}
          /\ \A p \in parked : p.file \in File /\ p.handle \in 1..(nextHandle - 1)
          /\ \A p, q \in parked : p.handle = q.handle => p = q
          /\ fileStore = Handles(parked)
          /\ given \subseteq parked
      BY <1>1 DEF FilesInv, StoreInv
    <2>2. ASSUME NEW g \in given PROVE Bytes(g.handle) = {g.file}
      <3>1. g \in parked /\ g.handle # 0 /\ g.file \in File
        BY <2>1
      <3>2. <<g.handle, g.file>> \in fileStore
        BY <2>1, <3>1 DEF Handles
      <3>3. \A f : <<g.handle, f>> \in fileStore => f = g.file
        BY <2>1, <3>1 DEF Handles
      <3>4. QED
        BY <3>1, <3>2, <3>3 DEF Bytes, ReadFile
    <2>3. ASSUME NEW e \in fileStore
          PROVE  \E p \in parked : p.handle = e[1] /\ (p.node \in InPage(dom.kids) \/ p.node = Splash)
      BY <1>1, <2>1 DEF FilesInv, ParkedInPage, Handles
    <2>4. QED
      BY <2>2, <2>3 DEF FilesFollowElements
  <1>2. QED
    BY <1>1, FilesInvariant, PTL
=============================================================================
