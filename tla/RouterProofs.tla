---------------------------- MODULE RouterProofs ----------------------------
(***************************************************************************)
(* Proofs about Router, for any routes, paths, queries and base path, any  *)
(* number of standalone SubRoutes and any handlers that redirect, panic,   *)
(* load lazily or are guarded: what a pattern matches, what a query string *)
(* says and the URL in the address bar, and then what Route and the        *)
(* SubRoutes show.                                                         *)
(***************************************************************************)
EXTENDS Router, FiniteSetTheorems, FunctionTheorems, SequenceTheorems, TLAPS
-----------------------------------------------------------------------------
(* Matching *)

\* A function to the naturals with an upper bound has a greatest value.
LEMMA GreatestValue ==
  ASSUME NEW T, T # {}, NEW f \in [T -> Nat], NEW n \in Nat, \A t \in T : f[t] <= n
  PROVE  \E t \in T : \A u \in T : f[u] <= f[t]
  <1> DEFINE Gap == {n - f[t] : t \in T}
  <1>1. Gap \in SUBSET Nat /\ Gap # {}
    OBVIOUS
  <1>2. PICK R : R = OpToRel(<, Nat)
    OBVIOUS
  <1>3. IsWellFoundedOn(R, Nat)
    BY <1>2, NatLessThanWellFounded
  <1>4. \A k, m \in Nat : m < k => <<m, k>> \in R
    BY <1>2 DEF OpToRel
  <1>5. PICK k \in Gap : \A m \in Gap : ~(<<m, k>> \in R)
    BY <1>1, <1>3, WFMin
  <1>6. PICK t \in T : k = n - f[t]
    BY <1>5
  <1>7. \A u \in T : ~(n - f[u] < n - f[t])
    BY <1>1, <1>4, <1>5, <1>6
  <1>8. \A u \in T : f[u] \in Nat
    OBVIOUS
  <1>9. QED
    BY <1>6, <1>7, <1>8

Pattern == Seq(STRING)

\* The segments of a pattern are its own, without a final "*".
LEMMA SegmentsType ==
  ASSUME NEW r \in Pattern
  PROVE  /\ Segments(r) \in Seq(STRING)
         /\ Len(Segments(r)) = IF IsWildcard(r) THEN Len(r) - 1 ELSE Len(r)
         /\ \A i \in DOMAIN Segments(r) : i \in DOMAIN r /\ Segments(r)[i] = r[i]
  <1>1. CASE IsWildcard(r)
    <2>1. Segments(r) = SubSeq(r, 1, Len(r) - 1) /\ r # <<>>
      BY <1>1 DEF Segments, Front, IsWildcard
    <2>2. r \in Seq(STRING) /\ Len(r) \in Nat /\ Len(r) > 0 /\ DOMAIN r = 1..Len(r)
      BY <2>1 DEF Pattern
    <2>3. /\ SubSeq(r, 1, Len(r) - 1) \in Seq(STRING)
          /\ Len(SubSeq(r, 1, Len(r) - 1)) = Len(r) - 1
      BY <2>2
    <2>4. \A i \in 1..(Len(r) - 1) : i \in 1..Len(r) /\ SubSeq(r, 1, Len(r) - 1)[i] = r[i]
      BY <2>2
    <2>5. DOMAIN SubSeq(r, 1, Len(r) - 1) = 1..(Len(r) - 1)
      BY <2>2, <2>3
    <2>6. QED
      BY <1>1, <2>1, <2>2, <2>3, <2>4, <2>5
  <1>2. CASE ~IsWildcard(r)
    BY <1>2 DEF Segments, Pattern
  <1>3. QED
    BY <1>1, <1>2

\* A pattern has no more literals than segments.
LEMMA LiteralsBound ==
  ASSUME NEW r \in Pattern
  PROVE  Literals(r) \in Nat /\ Literals(r) <= Len(Segments(r))
  <1> DEFINE n == Len(Segments(r))
  <1>1. n \in Nat /\ DOMAIN Segments(r) = 1..n
    BY SegmentsType
  <1> HIDE DEF n
  <1>2. IsFiniteSet(1..n) /\ Cardinality(1..n) = n
    BY <1>1, FS_Interval
  <1>3. {i \in 1..n : r[i] \notin Parameter} \in SUBSET (1..n)
    OBVIOUS
  <1>4. /\ IsFiniteSet({i \in 1..n : r[i] \notin Parameter})
        /\ Cardinality({i \in 1..n : r[i] \notin Parameter}) <= n
    BY <1>2, <1>3, FS_Subset
  <1>5. Literals(r) = Cardinality({i \in 1..n : r[i] \notin Parameter})
    BY <1>1 DEF Literals
  <1>6. QED
    BY <1>4, <1>5, FS_CardinalityType DEF n

\* How a matching pattern lies on the path.
LEMMA MatchLength ==
  ASSUME NEW r \in Pattern, NEW p \in Seq(STRING), Matches(r, p)
  PROVE  /\ Len(Segments(r)) <= Len(p)
         /\ Len(r) <= Len(p) + 1
         /\ ~IsWildcard(r) => Len(r) = Len(p)
  BY SegmentsType DEF Matches, Pattern

\* compileRoutes' order has a first among the patterns that match.
LEMMA FirstCandidate ==
  ASSUME NEW routes \in Seq(Pattern), NEW p \in Seq(STRING), Candidates(routes, p) # {}
  PROVE  \E i \in Candidates(routes, p) : \A j \in Candidates(routes, p) \ {i} : Precedes(routes, i, j)
  <1> DEFINE C == Candidates(routes, p)
  <1>1. \A i \in C : /\ i \in 1..Len(routes) /\ routes[i] \in Pattern
                     /\ Matches(routes[i], p)
    BY DEF Candidates
  <1>2. \A i \in C : /\ Literals(routes[i]) \in Nat /\ Literals(routes[i]) <= Len(p)
                     /\ Len(routes[i]) \in Nat /\ Len(routes[i]) <= Len(p) + 1
    <2> TAKE i \in C
    <2>1. Len(Segments(routes[i])) \in Nat
      BY <1>1, SegmentsType
    <2>2. Len(Segments(routes[i])) <= Len(p) /\ Len(routes[i]) <= Len(p) + 1
      BY <1>1, MatchLength
    <2>3. Literals(routes[i]) \in Nat /\ Literals(routes[i]) <= Len(Segments(routes[i]))
      BY <1>1, LiteralsBound
    <2>4. Len(routes[i]) \in Nat
      BY <1>1 DEF Pattern
    <2>5. QED
      BY <2>1, <2>2, <2>3, <2>4
  <1> HIDE DEF C
  <1>3. Len(p) \in Nat /\ Len(p) + 1 \in Nat /\ Len(routes) \in Nat
    OBVIOUS
  <1> DEFINE C1 == {i \in C : \A j \in C : Literals(routes[j]) <= Literals(routes[i])}
             Tame(i) == IF IsWildcard(routes[i]) THEN 0 ELSE 1
             C2 == {i \in C1 : \A j \in C1 : Tame(j) <= Tame(i)}
             C3 == {i \in C2 : \A j \in C2 : Len(routes[j]) <= Len(routes[i])}
             C4 == {i \in C3 : \A j \in C3 : Len(routes) - j <= Len(routes) - i}
  <1>4. C1 # {}
    <2> DEFINE f == [i \in C |-> Literals(routes[i])]
    <2>1. f \in [C -> Nat] /\ \A i \in C : f[i] <= Len(p)
      BY <1>2
    <2>2. C # {}
      BY DEF C
    <2> HIDE DEF f
    <2>3. \E i \in C : \A j \in C : f[j] <= f[i]
      BY <1>3, <2>1, <2>2, GreatestValue
    <2>4. QED
      BY <2>3 DEF f
  <1>5. C2 # {}
    <2> DEFINE f == [i \in C1 |-> Tame(i)]
    <2>1. f \in [C1 -> Nat] /\ \A i \in C1 : f[i] <= 1
      OBVIOUS
    <2> HIDE DEF f, C1
    <2>3. \E i \in C1 : \A j \in C1 : f[j] <= f[i]
      BY <1>4, <2>1, GreatestValue
    <2>4. QED
      BY <2>3 DEF f
  <1>6. C3 # {}
    <2> DEFINE f == [i \in C2 |-> Len(routes[i])]
    <2>1. f \in [C2 -> Nat] /\ \A i \in C2 : f[i] <= Len(p) + 1
      BY <1>2
    <2> HIDE DEF f, C2
    <2>3. \E i \in C2 : \A j \in C2 : f[j] <= f[i]
      BY <1>3, <1>5, <2>1, GreatestValue
    <2>4. QED
      BY <2>3 DEF f
  <1>7. C4 # {}
    <2> DEFINE f == [i \in C3 |-> Len(routes) - i]
    <2>0. Len(routes) \in Nat /\ \A i \in C3 : i \in 1..Len(routes)
      BY <1>1, <1>3
    <2>1. \A i \in C3 : Len(routes) - i \in Nat /\ Len(routes) - i <= Len(routes)
      <3> HIDE DEF C3
      <3>1. QED
        BY <2>0
    <2>2. f \in [C3 -> Nat] /\ \A i \in C3 : f[i] <= Len(routes)
      <3> HIDE DEF C3
      <3>1. QED
        BY <2>1
    <2> HIDE DEF f, C3
    <2>3. \E i \in C3 : \A j \in C3 : f[j] <= f[i]
      BY <1>3, <1>6, <2>2, GreatestValue
    <2>4. QED
      BY <2>3 DEF f
  <1>8. PICK i \in C4 : TRUE
    BY <1>7
  <1>9. ASSUME NEW j \in C \ {i} PROVE Precedes(routes, i, j)
    <2>1. CASE j \notin C1
      <3>1. Literals(routes[i]) > Literals(routes[j])
        <4>1. PICK k \in C : ~(Literals(routes[k]) <= Literals(routes[j]))
          BY <2>1, <1>9
        <4>2. Literals(routes[k]) <= Literals(routes[i]) /\ i \in C
          BY <1>8
        <4>3. QED
          BY <4>1, <4>2, <1>2, <1>9
      <3>2. QED
        BY <3>1 DEF Precedes
    <2>2. CASE j \in C1 /\ j \notin C2
      <3>1. Literals(routes[i]) = Literals(routes[j])
        BY <1>2, <1>8, <2>2
      <3>2. ~IsWildcard(routes[i]) /\ IsWildcard(routes[j])
        BY <1>8, <2>2
      <3>3. QED
        BY <3>1, <3>2 DEF Precedes
    <2>3. CASE j \in C2
      <3>1. Literals(routes[i]) = Literals(routes[j])
        BY <1>2, <1>8, <2>3
      <3>2. IsWildcard(routes[i]) = IsWildcard(routes[j])
        <4>1. Tame(i) = Tame(j)
          BY <1>8, <2>3
        <4>2. QED
          BY <4>1 DEF IsWildcard
      <3>3. \/ Len(routes[i]) > Len(routes[j])
            \/ Len(routes[i]) = Len(routes[j]) /\ i < j
        <4>1. CASE j \notin C3
          <5>1. PICK k \in C2 : ~(Len(routes[k]) <= Len(routes[j]))
            BY <2>3, <4>1
          <5>2. Len(routes[k]) <= Len(routes[i])
            BY <1>8
          <5>3. /\ Len(routes[i]) \in Nat /\ Len(routes[j]) \in Nat /\ Len(routes[k]) \in Nat
            BY <5>1, <1>2, <1>8, <2>3
          <5>4. QED
            BY <5>1, <5>2, <5>3
        <4>2. CASE j \in C3
          <5>1. Len(routes[i]) = Len(routes[j])
            BY <1>2, <1>8, <4>2
          <5>2. Len(routes) - j <= Len(routes) - i
            BY <1>8, <4>2
          <5>3. i \in Nat /\ j \in Nat /\ i # j
            BY <1>1, <1>8, <1>9
          <5>4. i < j
            BY <5>2, <5>3, <1>3
          <5>5. QED
            BY <5>1, <5>4
        <4>3. QED
          BY <4>1, <4>2
      <3>4. QED
        BY <3>1, <3>2, <3>3 DEF Precedes
    <2>4. QED
      BY <2>1, <2>2, <2>3
  <1>10. QED
    BY <1>8, <1>9 DEF C

\* The elements of a sequence are finitely many.
LEMMA ToSetFinite ==
  ASSUME NEW S, NEW s \in Seq(S)
  PROVE  IsFiniteSet(ToSet(s)) /\ ToSet(s) \subseteq S
  <1>1. DOMAIN s = 1..Len(s) /\ Len(s) \in Nat /\ s \in [1..Len(s) -> S]
    OBVIOUS
  <1>2. IsFiniteSet(1..Len(s))
    BY <1>1, FS_Interval
  <1>3. s \in Surjection(1..Len(s), ToSet(s))
    BY <1>1 DEF Surjection, ToSet
  <1>4. IsFiniteSet(ToSet(s))
    BY <1>2, <1>3, FS_Surjection
  <1>5. QED
    BY <1>1, <1>4 DEF ToSet

\* A path is no wildcard, it matches itself, and nothing is more literal.
LEMMA PathIsPattern ==
  ASSUME NEW p \in Seq(Segment)
  PROVE  /\ p \in Pattern /\ ~IsWildcard(p) /\ Segments(p) = p
         /\ Matches(p, p) /\ Literals(p) = Len(p)
  <1>1. /\ p \in Seq(STRING) /\ Len(p) \in Nat /\ DOMAIN p = 1..Len(p)
        /\ \A i \in 1..Len(p) : p[i] \in Segment
    BY DEF Segment
  <1>2. ~IsWildcard(p)
    <2>1. SUFFICES ASSUME p # <<>>, p[Len(p)] = "*" PROVE FALSE
      BY DEF IsWildcard, Last
    <2>2. Len(p) \in 1..Len(p)
      BY <1>1, <2>1
    <2>3. "*" \in Segment
      BY <1>1, <2>1, <2>2
    <2>4. QED
      BY <2>3 DEF Segment
  <1>3. Segments(p) = p
    BY <1>2 DEF Segments
  <1>4. Matches(p, p)
    BY <1>1, <1>2, <1>3 DEF Matches
  <1>5. {i \in DOMAIN Segments(p) : p[i] \notin Parameter} = 1..Len(p)
    BY <1>1, <1>3 DEF Segment
  <1>6. Cardinality(1..Len(p)) = Len(p)
    BY <1>1, FS_Interval
  <1>7. QED
    BY <1>1, <1>2, <1>3, <1>4, <1>5, <1>6 DEF Literals, Pattern

\* What is not compiled matches its own text only.
LEMMA MatchesText ==
  ASSUME NEW r \in Pattern, NEW p \in Seq(STRING), Matches(r, p), ~IsCompiled(r)
  PROVE  r = p
  <1>1. ~IsWildcard(r) /\ Segments(r) = r
    BY DEF IsCompiled, Segments
  <1>2. r \in Seq(STRING) /\ Len(r) = Len(p) /\ \A i \in DOMAIN r : r[i] \in Parameter \/ r[i] = p[i]
    BY <1>1 DEF Matches, Pattern
  <1>3. \A i \in DOMAIN r : r[i] \notin Parameter
    BY <1>1 DEF IsCompiled, ToSet
  <1>4. QED
    BY <1>2, <1>3

\* Matched is the exact path, the first candidate, or nothing.
LEMMA MatchedFacts ==
  ASSUME NEW routes \in Seq(Pattern), NEW p \in Seq(Segment)
  PROVE  \/ /\ Matched(routes, p) = {}
            /\ p \notin ToSet(routes) /\ Candidates(routes, p) = {}
         \/ /\ Matched(routes, p) = {p} /\ p \in ToSet(routes)
         \/ /\ p \notin ToSet(routes)
            /\ \E i \in Candidates(routes, p) :
                 /\ Matched(routes, p) = {routes[i]}
                 /\ \A j \in Candidates(routes, p) \ {i} : Precedes(routes, i, j)
  <1>1. CASE p \in ToSet(routes)
    BY <1>1 DEF Matched
  <1>2. CASE p \notin ToSet(routes) /\ Candidates(routes, p) = {}
    BY <1>2 DEF Matched
  <1>3. CASE p \notin ToSet(routes) /\ Candidates(routes, p) # {}
    <2>1. p \in Seq(STRING)
      BY PathIsPattern DEF Pattern
    <2> DEFINE C == Candidates(routes, p)
               First(i) == \A j \in C \ {i} : Precedes(routes, i, j)
               i == CHOOSE k \in C : First(k)
    <2>2. \E k \in C : First(k)
      BY <1>3, <2>1, FirstCandidate
    <2>3. i \in C /\ First(i)
      BY <2>2
    <2>4. Matched(routes, p) = {routes[i]}
      BY <1>3 DEF Matched, MatchCompiled
    <2>5. QED
      BY <1>3, <2>3, <2>4
  <1>4. QED
    BY <1>1, <1>2, <1>3

\* What is matched is one of the patterns, and matches.
LEMMA MatchedMatches ==
  ASSUME NEW routes \in Seq(Pattern), NEW p \in Seq(Segment), NEW m \in Matched(routes, p)
  PROVE  /\ Matched(routes, p) = {m} /\ m \in ToSet(routes)
         /\ m \in Pattern /\ Matches(m, p)
  <1>1. ToSet(routes) \subseteq Pattern
    BY ToSetFinite
  <1>2. CASE Matched(routes, p) = {p} /\ p \in ToSet(routes)
    BY <1>1, <1>2, PathIsPattern
  <1>3. CASE \E i \in Candidates(routes, p) : Matched(routes, p) = {routes[i]}
    <2>1. PICK i \in Candidates(routes, p) : Matched(routes, p) = {routes[i]}
      BY <1>3
    <2>2. i \in DOMAIN routes /\ Matches(routes[i], p)
      BY DEF Candidates
    <2>3. QED
      BY <1>1, <2>1, <2>2 DEF ToSet
  <1>4. QED
    BY <1>2, <1>3, MatchedFacts

\* What may stand in params: names of patterns with segments of a path.
Captures(f, names) ==
  /\ f \in [DOMAIN f -> STRING \ {Blank}]
  /\ DOMAIN f \subseteq names
  /\ IsFiniteSet(DOMAIN f)

\* No parameters are fit for params.
LEMMA NoParamsCaptures ==
  ASSUME NEW names
  PROVE  Captures(NoParams, names)
  <1>1. DOMAIN NoParams = {} /\ NoParams \in [{} -> STRING \ {Blank}]
    BY DEF NoParams
  <1>2. QED
    BY <1>1, FS_EmptySet DEF Captures

\* What match captures is fit for params: no segment of a path is empty.
LEMMA CapturedCaptures ==
  ASSUME NEW routes \in Seq(Pattern), NEW p \in Seq(Segment), NEW r \in ToSet(routes),
         r \in Pattern, Matches(r, p)
  PROVE  Captures(Captured(r, p), Names(routes))
  <1> DEFINE D == ToSet(Segments(r)) \cap Parameter
             Last1(k, i) == /\ r[i] = k
                            /\ \A j \in DOMAIN Segments(r) : r[j] = k => j <= i
  <1>1. /\ Segments(r) \in Seq(STRING)
        /\ \A i \in DOMAIN Segments(r) : i \in DOMAIN r /\ Segments(r)[i] = r[i]
        /\ DOMAIN Segments(r) = 1..Len(Segments(r)) /\ Len(Segments(r)) \in Nat
    BY SegmentsType
  <1>2. IsFiniteSet(D)
    <2>1. IsFiniteSet(ToSet(Segments(r)))
      BY <1>1, ToSetFinite
    <2>2. QED
      BY <2>1, FS_Subset
  <1>3. D \subseteq Names(routes)
    BY DEF Names
  <1>4. ASSUME NEW k \in D
        PROVE  p[CHOOSE i \in DOMAIN Segments(r) : Last1(k, i)] \in STRING \ {Blank}
    <2> DEFINE T == {i \in DOMAIN Segments(r) : r[i] = k}
               f == [i \in T |-> i]
    <2>1. T # {}
      BY <1>1 DEF ToSet
    <2>2. f \in [T -> Nat] /\ \A i \in T : f[i] <= Len(Segments(r))
      BY <1>1
    <2>3. PICK i \in T : \A j \in T : f[j] <= f[i]
      <3> HIDE DEF f, T
      <3> QED
        BY <1>1, <2>1, <2>2, GreatestValue
    <2>4. i \in DOMAIN Segments(r) /\ Last1(k, i)
      BY <2>3
    <2> DEFINE c == CHOOSE j \in DOMAIN Segments(r) : Last1(k, j)
    <2>5. c \in DOMAIN Segments(r)
      BY <2>4
    <2> HIDE DEF c
    <2>6. Len(Segments(r)) <= Len(p)
      <3>1. p \in Seq(STRING)
        BY PathIsPattern DEF Pattern
      <3>2. QED
        BY <3>1, MatchLength
    <2>7. c \in 1..Len(p)
      BY <1>1, <2>5, <2>6
    <2>8. p[c] \in Segment
      BY <2>7
    <2>9. QED
      BY <2>8 DEF Segment, c
  <1>5. Captured(r, p) = [k \in D |-> p[CHOOSE i \in DOMAIN Segments(r) : Last1(k, i)]]
    BY DEF Captured
  <1>6. Captured(r, p) \in [D -> STRING \ {Blank}] /\ DOMAIN Captured(r, p) = D
    <2> HIDE DEF D, Last1
    <2> QED
      BY <1>4, <1>5
  <1>7. QED
    BY <1>2, <1>3, <1>6 DEF Captures

HasNoPage(routes) == ToSet(routes) \cap {NoPage, BuiltinPage, LoginPage} = {}

\* What a Route or SubRoute does with a path: a page, and parameters of its own patterns.
LEMMA ResolveFacts ==
  ASSUME NEW routes \in Seq(Pattern), NEW p \in Seq(Segment)
  PROVE  /\ Resolve(routes, p).missing \in BOOLEAN
         /\ HasNoPage(routes) => Resolve(routes, p).handler # NoPage
         /\ Captures(Resolve(routes, p).params, Names(routes))
  <1>1. CASE Matched(routes, p) = {}
    <2>1. Fallback(routes) # NoPage
      BY DEF Fallback, NotFoundRoute, BuiltinPage, NoPage
    <2>2. Resolve(routes, p) = [handler |-> Fallback(routes), params |-> NoParams, missing |-> TRUE]
      BY <1>1 DEF Resolve, Outcome
    <2>3. QED
      BY <2>1, <2>2, NoParamsCaptures
  <1>2. CASE Matched(routes, p) # {}
    <2>1. PICK m \in Matched(routes, p) : TRUE
      BY <1>2
    <2>2. /\ Matched(routes, p) = {m} /\ m \in ToSet(routes) /\ m \in Pattern /\ Matches(m, p)
      BY MatchedMatches
    <2>3. (CHOOSE x \in {m} : TRUE) = m
      OBVIOUS
    <2>4. Resolve(routes, p) = [handler |-> m, params |-> Captured(m, p), missing |-> FALSE]
      BY <2>2, <2>3 DEF Resolve, Outcome
    <2>5. Captures(Captured(m, p), Names(routes))
      BY <2>2, CapturedCaptures
    <2>6. HasNoPage(routes) => m # NoPage
      BY <2>2 DEF HasNoPage
    <2>7. QED
      BY <2>4, <2>5, <2>6
  <1>3. QED
    BY <1>1, <1>2

\* Nothing that matches is missed, and nothing beats what is matched.
LEMMA ResolveFits ==
  ASSUME NEW p \in Seq(Segment), NEW q \in ToSet(Routes), Matches(q, p), RouterAssumption
  PROVE  /\ \E m \in ToSet(Routes) : Resolve(Routes, p).handler = m /\ Matches(m, p) /\ ~Beats(q, m)
  <1>1. Routes \in Seq(Pattern) /\ q \in Pattern
    BY ToSetFinite DEF RouterAssumption, Pattern
  <1>2. p \in Seq(STRING)
    BY PathIsPattern DEF Pattern
  <1>3. ASSUME NEW m \in Matched(Routes, p)
        PROVE Resolve(Routes, p).handler = m /\ Matches(m, p) /\ m \in ToSet(Routes)
    <2>1. Matched(Routes, p) = {m} /\ Matches(m, p) /\ m \in ToSet(Routes)
      BY <1>1, MatchedMatches
    <2>2. (CHOOSE x \in {m} : TRUE) = m
      OBVIOUS
    <2>3. QED
      BY <2>1, <2>2 DEF Resolve, Outcome
  <1>4. CASE p \in ToSet(Routes)
    <2>1. Matched(Routes, p) = {p}
      BY <1>4 DEF Matched
    <2>2. ~IsWildcard(p) /\ Literals(p) = Len(p)
      BY PathIsPattern
    <2>3. Literals(q) <= Len(p)
      <3>1. Literals(q) \in Nat /\ Literals(q) <= Len(Segments(q)) /\ Len(Segments(q)) \in Nat
        BY <1>1, LiteralsBound, SegmentsType
      <3>2. Len(Segments(q)) <= Len(p)
        BY <1>1, <1>2, MatchLength
      <3>3. Len(p) \in Nat
        OBVIOUS
      <3>4. QED
        BY <3>1, <3>2, <3>3
    <2>4. Literals(q) \in Nat /\ Len(p) \in Nat
      BY <1>1, LiteralsBound
    <2>5. ~(Literals(q) > Len(p))
      BY <2>3, <2>4
    <2>6. ~Beats(q, p)
      BY <2>2, <2>5 DEF Beats
    <2>7. QED
      BY <1>3, <2>1, <2>6
  <1>5. CASE p \notin ToSet(Routes)
    <2>1. IsCompiled(q)
      BY <1>1, <1>2, <1>5, MatchesText
    <2>2. PICK j \in DOMAIN Routes : Routes[j] = q
      BY DEF ToSet
    <2>3. j \in Candidates(Routes, p)
      BY <2>1, <2>2 DEF Candidates
    <2>4. PICK i \in Candidates(Routes, p) :
            /\ Matched(Routes, p) = {Routes[i]}
            /\ \A k \in Candidates(Routes, p) \ {i} : Precedes(Routes, i, k)
      BY <1>1, <1>5, <2>3, MatchedFacts
    <2>5. i \in DOMAIN Routes
      BY <2>4 DEF Candidates
    <2>6. Routes[i] \in Pattern
      BY <1>1, <2>5
    <2>7. Literals(q) \in Nat /\ Literals(Routes[i]) \in Nat
      BY <1>1, <2>6, LiteralsBound
    <2>8. ~Beats(q, Routes[i])
      <3>1. CASE i = j
        BY <2>2, <2>7, <3>1 DEF Beats
      <3>2. CASE i # j
        <4>1. Precedes(Routes, i, j)
          BY <2>3, <2>4, <3>2
        <4>2. \/ Literals(Routes[i]) > Literals(q)
              \/ /\ Literals(Routes[i]) = Literals(q)
                 /\ ~(IsWildcard(Routes[i]) /\ ~IsWildcard(q))
          <5>1. IsWildcard(q) \in BOOLEAN /\ IsWildcard(Routes[i]) \in BOOLEAN
            BY DEF IsWildcard
          <5>2. QED
            BY <2>2, <4>1, <5>1 DEF Precedes
        <4>3. QED
          BY <2>7, <4>2 DEF Beats
      <3>3. QED
        BY <3>1, <3>2
    <2>9. QED
      BY <1>3, <2>4, <2>8
  <1>6. QED
    BY <1>4, <1>5

-----------------------------------------------------------------------------
(* Queries and URLs *)

QueryString == Seq(STRING \X STRING)

\* What may stand in Query.
IsQuery(q) == q \in [DOMAIN q -> STRING] /\ DOMAIN q \subseteq STRING /\ IsFiniteSet(DOMAIN q)

Named(search) == {search[i][1] : i \in DOMAIN search}
IsLast(search, k, i) ==
  /\ search[i][1] = k
  /\ \A j \in DOMAIN search : search[j][1] = k => j <= i

\* The last pair of a name.
LEMMA LastPair ==
  ASSUME NEW search \in QueryString, NEW k \in Named(search)
  PROVE  \E i \in DOMAIN search : IsLast(search, k, i)
  <1> DEFINE T == {i \in DOMAIN search : search[i][1] = k}
             f == [i \in T |-> i]
  <1>1. DOMAIN search = 1..Len(search) /\ Len(search) \in Nat
    BY DEF QueryString
  <1>2. T # {}
    BY DEF Named
  <1>3. f \in [T -> Nat] /\ \A i \in T : f[i] <= Len(search)
    BY <1>1
  <1>4. PICK i \in T : \A j \in T : f[j] <= f[i]
    <2> HIDE DEF f, T
    <2> QED
      BY <1>1, <1>2, <1>3, GreatestValue
  <1>5. QED
    BY <1>4 DEF IsLast

\* parseQuery gives a map with the names of the query string, but for the empty one, each with
\* a value it had there.
LEMMA ParseIsQuery ==
  ASSUME NEW search \in QueryString
  PROVE  /\ IsQuery(Parse(search)) /\ DOMAIN Parse(search) = Named(search) \ {Blank}
         /\ \A k \in Named(search) \ {Blank} : \E i \in DOMAIN search : search[i] = <<k, Parse(search)[k]>>
  <1>1. Parse(search) =
          [k \in Named(search) \ {Blank} |-> search[CHOOSE i \in DOMAIN search : IsLast(search, k, i)][2]]
    BY DEF Parse, Named, IsLast
  <1>2. /\ DOMAIN search = 1..Len(search) /\ Len(search) \in Nat
        /\ \A i \in DOMAIN search : search[i] \in STRING \X STRING
    BY DEF QueryString
  <1>3. ASSUME NEW k \in Named(search)
        PROVE  \E i \in DOMAIN search : /\ i = CHOOSE j \in DOMAIN search : IsLast(search, k, j)
                                        /\ search[i][1] = k
    <2> DEFINE c == CHOOSE i \in DOMAIN search : IsLast(search, k, i)
    <2>1. c \in DOMAIN search /\ IsLast(search, k, c)
      BY LastPair
    <2>2. search[c][1] = k
      BY <2>1 DEF IsLast
    <2>3. QED
      BY <2>1, <2>2
  <1>4. ASSUME NEW k \in Named(search) \ {Blank}
        PROVE  \E i \in DOMAIN search : search[i] = <<k, Parse(search)[k]>> /\ Parse(search)[k] \in STRING
    <2>1. PICK i \in DOMAIN search : /\ i = CHOOSE j \in DOMAIN search : IsLast(search, k, j)
                                     /\ search[i][1] = k
      BY <1>3
    <2>2. Parse(search)[k] = search[i][2]
      BY <1>1, <2>1
    <2>3. search[i] \in STRING \X STRING
      BY <1>2
    <2>4. search[i] = <<search[i][1], search[i][2]>> /\ search[i][2] \in STRING
      BY <2>3
    <2>5. QED
      BY <2>1, <2>2, <2>4
  <1>5. Named(search) \subseteq STRING
    BY <1>2 DEF Named
  <1>6. IsFiniteSet(Named(search))
    <2> DEFINE f == [i \in 1..Len(search) |-> search[i][1]]
    <2>1. f \in Surjection(1..Len(search), Named(search))
      BY <1>2 DEF Surjection, Named
    <2>2. IsFiniteSet(1..Len(search))
      BY <1>2, FS_Interval
    <2>3. QED
      BY <2>1, <2>2, FS_Surjection
  <1>7. DOMAIN Parse(search) = Named(search) \ {Blank}
    BY <1>1
  <1>8. Parse(search) \in [Named(search) \ {Blank} -> STRING]
    BY <1>1, <1>4
  <1>9. IsFiniteSet(Named(search) \ {Blank})
    BY <1>6, FS_RemoveElement
  <1>10. QED
    BY <1>4, <1>5, <1>7, <1>8, <1>9 DEF IsQuery

\* What is written into the URL reads back the same, but for a parameter with an empty name.
LEMMA ParseEncode ==
  ASSUME NEW q, IsQuery(q)
  PROVE  Encode(q) \in QueryString /\ Parse(Encode(q)) = [k \in DOMAIN q \ {Blank} |-> q[k]]
  <1> DEFINE S == {<<k, q[k]>> : k \in DOMAIN q}
             f == [k \in DOMAIN q |-> <<k, q[k]>>]
             e == Encode(q)
  <1>1. IsFiniteSet(S)
    <2>1. f \in Surjection(DOMAIN q, S)
      BY DEF Surjection
    <2>2. IsFiniteSet(DOMAIN q)
      BY DEF IsQuery
    <2>3. QED
      BY <2>1, <2>2, FS_Surjection
  <1>2. S \subseteq STRING \X STRING
    BY DEF IsQuery
  <1> DEFINE n == Cardinality(S)
  <1>3. e = CHOOSE g \in [1..n -> S] : IsInjective(g)
    BY DEF Encode, SetToSeq
  <1> HIDE DEF S, e, n
  <1>4. n \in Nat /\ ExistsBijection(1..n, S)
    BY <1>1, FS_CardinalityType DEF n
  <1>5. \E g \in [1..n -> S] : IsInjective(g)
    BY <1>4 DEF ExistsBijection, Bijection, Injection
  <1>6. e \in [1..n -> S] /\ IsInjective(e)
    BY <1>3, <1>5
  <1>7. e \in Surjection(1..n, S)
    <2>1. e \in Injection(1..n, S)
      BY <1>6 DEF Injection
    <2>2. Cardinality(1..n) = Cardinality(S)
      BY <1>4, FS_Interval DEF n
    <2>3. QED
      BY <1>1, <2>1, <2>2, FS_Injection
  <1>8. e \in Seq(S) /\ DOMAIN e = 1..n
    BY <1>4, <1>6
  <1>9. e \in QueryString
    BY <1>2, <1>8 DEF QueryString
  <1>10. \A i \in DOMAIN e : e[i][1] \in DOMAIN q /\ e[i] = <<e[i][1], q[e[i][1]]>>
    BY <1>6 DEF S
  <1>11. \A k \in DOMAIN q : \E i \in DOMAIN e : e[i] = <<k, q[k]>>
    BY <1>7, <1>8 DEF S, Surjection
  <1>12. Named(e) = DOMAIN q
    <2>1. Named(e) \subseteq DOMAIN q
      BY <1>10 DEF Named
    <2>2. ASSUME NEW k \in DOMAIN q PROVE k \in Named(e)
      <3>1. PICK i \in DOMAIN e : e[i] = <<k, q[k]>>
        BY <1>11
      <3>2. e[i][1] = k
        BY <3>1
      <3>3. QED
        BY <3>2 DEF Named
    <2>3. QED
      BY <2>1, <2>2
  <1>13. ASSUME NEW k \in DOMAIN q \ {Blank} PROVE Parse(e)[k] = q[k]
    <2>1. PICK i \in DOMAIN e : e[i] = <<k, Parse(e)[k]>>
      BY <1>9, <1>12, ParseIsQuery
    <2>2. e[i] = <<e[i][1], q[e[i][1]]>>
      BY <1>10
    <2>3. QED
      BY <2>1, <2>2
  <1>14. DOMAIN Parse(e) = DOMAIN q \ {Blank} /\ Parse(e) \in [DOMAIN Parse(e) -> STRING]
    BY <1>9, <1>12, ParseIsQuery DEF IsQuery
  <1>15. Parse(e) = [k \in DOMAIN q \ {Blank} |-> q[k]]
    BY <1>13, <1>14
  <1>16. QED
    BY <1>9, <1>15 DEF e

\* The empty query string is the empty map.
LEMMA NoParamsIsQuery == IsQuery(NoParams) /\ Parse(<<>>) = NoParams
  <1>1. DOMAIN NoParams = {} /\ NoParams \in [{} -> STRING]
    BY DEF NoParams
  <1>2. IsQuery(NoParams)
    BY <1>1, FS_EmptySet DEF IsQuery
  <1>3. Named(<<>>) = {} /\ <<>> \in QueryString
    BY DEF Named, QueryString
  <1>4. DOMAIN Parse(<<>>) = {} /\ Parse(<<>>) \in [{} -> STRING]
    BY <1>3, ParseIsQuery DEF IsQuery
  <1>5. QED
    BY <1>1, <1>2, <1>4

\* SetQueryParam changes a query into a query.
LEMMA WithParamIsQuery ==
  ASSUME NEW q, IsQuery(q), NEW name \in STRING, NEW value \in STRING
  PROVE  IsQuery(WithParam(q, name, value))
  <1> DEFINE D == IF value = Blank THEN DOMAIN q \ {name} ELSE DOMAIN q \union {name}
  <1>1. WithParam(q, name, value) = [k \in D |-> IF k = name THEN value ELSE q[k]]
    BY DEF WithParam
  <1>2. IsFiniteSet(DOMAIN q) /\ DOMAIN q \subseteq STRING /\ q \in [DOMAIN q -> STRING]
    BY DEF IsQuery
  <1>3. IsFiniteSet(D)
    BY <1>2, FS_AddElement, FS_RemoveElement
  <1>4. D \subseteq STRING
    BY <1>2
  <1>5. \A k \in D : (IF k = name THEN value ELSE q[k]) \in STRING
    BY <1>2
  <1> HIDE DEF D
  <1>6. QED
    BY <1>1, <1>3, <1>4, <1>5 DEF IsQuery

\* Among maps without Blank, sameParams is equality.
LEMMA SameCaptures ==
  ASSUME NEW a, NEW b, NEW A, NEW B, Captures(a, A), Captures(b, B)
  PROVE  SameParams(a, b) <=> a = b
  <1>1. /\ a \in [DOMAIN a -> STRING \ {Blank}] /\ IsFiniteSet(DOMAIN a)
        /\ b \in [DOMAIN b -> STRING \ {Blank}] /\ IsFiniteSet(DOMAIN b)
    BY DEF Captures
  <1>2. ASSUME SameParams(a, b) PROVE a = b
    <2>1. Cardinality(DOMAIN a) = Cardinality(DOMAIN b)
      BY <1>2 DEF SameParams
    <2>2. \A k \in DOMAIN a : k \in DOMAIN b /\ a[k] = b[k]
      BY <1>1, <1>2 DEF SameParams
    <2>3. DOMAIN a \in SUBSET DOMAIN b
      BY <2>2
    <2>4. DOMAIN a = DOMAIN b
      BY <1>1, <2>1, <2>3, FS_Subset
    <2>5. QED
      BY <1>1, <2>2, <2>4
  <1>3. SameParams(a, a)
    BY DEF SameParams
  <1>4. QED
    BY <1>2, <1>3

\* Signal.Set with sameParams drops no change of the parameters.
LEMMA SetMapSets ==
  ASSUME NEW a, NEW b, NEW A, NEW B, Captures(a, A), Captures(b, B)
  PROVE  SetMap(a, b) = b
  BY SameCaptures DEF SetMap

\* Sequences with the same elements are the same.
LEMMA SameSeq ==
  ASSUME NEW s \in Seq(STRING), NEW t \in Seq(STRING), Len(s) = Len(t),
         \A i \in 1..Len(t) : s[i] = t[i]
  PROVE  s = t
  <1>1. s = [i \in 1..Len(t) |-> s[i]] /\ t = [i \in 1..Len(t) |-> t[i]]
    OBVIOUS
  <1>2. QED
    BY <1>1, Zenon

\* stripBase gives the path back that the URL was made of.
LEMMA StripBaseUrl ==
  ASSUME NEW p \in Seq(Segment), RouterAssumption
  PROVE  /\ Base \o p \in Seq(STRING)
         /\ StripBase(Base \o p) = p
  <1>1. Base \in Seq(STRING) /\ p \in Seq(STRING)
    BY PathIsPattern DEF RouterAssumption, Pattern
  <1> DEFINE t == Base \o p
  <1>2. /\ t \in Seq(STRING) /\ Len(t) = Len(Base) + Len(p)
        /\ \A i \in 1..Len(Base) : t[i] = Base[i]
        /\ \A i \in 1..Len(p) : t[Len(Base) + i] = p[i]
        /\ Len(Base) \in Nat /\ Len(p) \in Nat
    BY <1>1
  <1> HIDE DEF t
  <1>3. SubSeq(Base, 1, Len(Base)) = Base
    BY <1>1
  <1>4. SubSeq(t, 1, Len(Base)) = Base
    <2>1. SubSeq(t, 1, Len(Base)) \in Seq(STRING) /\ Len(SubSeq(t, 1, Len(Base))) = Len(Base)
      BY <1>2
    <2>2. \A i \in 1..Len(Base) : SubSeq(t, 1, Len(Base))[i] = Base[i]
      BY <1>2
    <2>3. QED
      BY <1>1, <2>1, <2>2
  <1>5. SubSeq(t, Len(Base) + 1, Len(t)) = p
    <2>1. SubSeq(t, Len(Base) + 1, Len(t)) \in Seq(STRING) /\ Len(SubSeq(t, Len(Base) + 1, Len(t))) = Len(p)
      BY <1>2
    <2>2. \A i \in 1..Len(p) : SubSeq(t, Len(Base) + 1, Len(t))[i] = t[Len(Base) + i]
      <3> DEFINE m == Len(Base) + 1
                 n == Len(t)
      <3>1. m \in Int /\ n \in Int /\ n - m + 1 = Len(p) /\ \A i \in m..n : t[i] \in STRING
        BY <1>2
      <3> HIDE DEF m, n
      <3>2. \A i \in 1..(n - m + 1) : SubSeq(t, m, n)[i] = t[m + i - 1]
        BY <3>1, SubSeqProperties
      <3>3. \A i \in 1..Len(p) : m + i - 1 = Len(Base) + i
        BY <1>2 DEF m
      <3>4. QED
        BY <3>1, <3>2, <3>3 DEF m, n
    <2>3. \A i \in 1..Len(p) : SubSeq(t, Len(Base) + 1, Len(t))[i] = p[i]
      BY <1>2, <2>2
    <2>4. QED
      BY <1>1, <2>1, <2>3, SameSeq
  <1>6. IsPrefix(Base, t)
    BY <1>2, <1>3, <1>4 DEF IsPrefix
  <1>7. StripBase(t) = p
    BY <1>5, <1>6 DEF StripBase
  <1>8. QED
    BY <1>2, <1>7 DEF t

\* A URL spells a path as it spells it, and the base as it is.
LEMMA LocatedFacts ==
  ASSUME NEW p \in Seq(Segment), RouterAssumption, SpellingAssumption
  PROVE  /\ Located(p) \in Seq(Segment) /\ Located(Located(p)) = Located(p)
         /\ Located(Base \o p) = Base \o Located(p)
  <1>1. \A g \in Segment : Spelled(g) \in Segment /\ Spelled(Spelled(g)) = Spelled(g)
    <2>1. SUFFICES ASSUME NEW g \in Segment
                   PROVE  Spelled(g) \in Segment /\ (Spelled(g) \in Segment \ Respelled \/ Spelled(g) = g)
                          /\ (g \in Respelled => Spelled(g) \in Segment \ Respelled)
      BY DEF Spelled, Respelled
    <2>2. CASE g \in DOMAIN Escapes
      BY <2>2 DEF Spelled, SpellingAssumption, Respelled
    <2>3. CASE g \in DOMAIN Cuts
      <3>1. Spelled(g) = Cuts[g].segment
        BY <2>3 DEF Spelled, SpellingAssumption
      <3>2. Cuts[g] \in [segment : Segment \ Respelled, search : Seq(STRING \X STRING)]
        BY <2>3 DEF SpellingAssumption
      <3>3. QED
        BY <3>1, <3>2
    <2>4. CASE g \notin Respelled
      BY <2>4 DEF Spelled, Respelled
    <2>5. QED
      BY <2>2, <2>3, <2>4 DEF Respelled
  <1>2. \A i \in DOMAIN Base : Spelled(Base[i]) = Base[i]
    BY DEF SpellingAssumption, Spelled, Respelled, ToSet
  <1>3. /\ Base \in Seq(STRING) /\ p \in Seq(STRING)
        /\ DOMAIN Base = 1..Len(Base) /\ DOMAIN p = 1..Len(p)
        /\ Len(Base) \in Nat /\ Len(p) \in Nat
    BY PathIsPattern DEF RouterAssumption, Pattern
  <1>4. /\ Located(p) \in Seq(Segment) /\ Len(Located(p)) = Len(p)
        /\ \A i \in 1..Len(p) : Located(p)[i] = Spelled(p[i]) /\ p[i] \in Segment
    BY <1>1, <1>3 DEF Located
  <1> DEFINE q == Located(p)
  <1>5. /\ q \in Seq(Segment) /\ DOMAIN q = 1..Len(p) /\ Len(q) = Len(p)
        /\ \A i \in 1..Len(p) : q[i] = Spelled(p[i])
    BY <1>3, <1>4
  <1> HIDE DEF q
  <1>6. Located(q) = q
    <2>1. Located(q) = [i \in 1..Len(p) |-> Spelled(q[i])]
      BY <1>5 DEF Located
    <2>2. \A i \in 1..Len(p) : Spelled(q[i]) = q[i]
      BY <1>1, <1>4, <1>5
    <2>3. q = [i \in 1..Len(p) |-> q[i]]
      BY <1>5
    <2>4. QED
      BY <2>1, <2>2, <2>3
  <1>7. Located(Base \o p) = Base \o q
    <2> DEFINE t == Base \o p
               u == Base \o q
    <2>1. q \in Seq(STRING)
      BY <1>5, PathIsPattern DEF Pattern
    <2>2. /\ t \in Seq(STRING) /\ u \in Seq(STRING)
          /\ Len(t) = Len(Base) + Len(p) /\ Len(u) = Len(Base) + Len(p)
          /\ \A i \in 1..Len(Base) : t[i] = Base[i] /\ u[i] = Base[i]
          /\ \A i \in 1..Len(p) : t[Len(Base) + i] = p[i] /\ u[Len(Base) + i] = q[i]
      <3>1. /\ t \in Seq(STRING) /\ Len(t) = Len(Base) + Len(p)
            /\ \A i \in 1..Len(Base) : t[i] = Base[i]
            /\ \A i \in 1..Len(p) : t[Len(Base) + i] = p[i]
        BY <1>3
      <3>2. /\ u \in Seq(STRING) /\ Len(u) = Len(Base) + Len(q)
            /\ \A i \in 1..Len(Base) : u[i] = Base[i]
            /\ \A i \in 1..Len(q) : u[Len(Base) + i] = q[i]
        BY <1>3, <2>1
      <3> HIDE DEF t, u
      <3>3. QED
        BY <1>5, <3>1, <3>2
    <2> HIDE DEF t, u
    <2>3. ASSUME NEW i \in 1..Len(t) PROVE Spelled(t[i]) = u[i]
      <3>1. CASE i \in 1..Len(Base)
        BY <1>2, <1>3, <2>2, <3>1
      <3>2. CASE i \notin 1..Len(Base)
        <4>1. PICK k \in 1..Len(p) : i = Len(Base) + k
          <5>1. i - Len(Base) \in 1..Len(p) /\ i = Len(Base) + (i - Len(Base))
            BY <1>3, <2>2, <3>2
          <5>2. QED
            BY <5>1
        <4>2. QED
          BY <1>5, <2>2, <4>1
      <3>3. QED
        BY <3>1, <3>2
    <2>4. Located(t) = [i \in 1..Len(t) |-> Spelled(t[i])]
      BY <2>2 DEF Located
    <2>5. u = [i \in 1..Len(t) |-> u[i]]
      BY <2>2
    <2>6. Located(t) = u
      BY <2>3, <2>4, <2>5
    <2>7. QED
      BY <2>6 DEF t, u
  <1>8. QED
    BY <1>5, <1>6, <1>7 DEF q

\* What a URL makes of a query that is written after a path is a query string.
LEMMA SearchFacts ==
  ASSUME NEW p, NEW s \in QueryString, SpellingAssumption
  PROVE  SearchIn(p) \in QueryString /\ Joined(p, s) \in QueryString
  <1> DEFINE c == SearchIn(p)
  <1>1. c \in QueryString
    <2>1. ASSUME IsCut(p) PROVE Cuts[Last(p)].search \in QueryString
      <3>1. Cuts[Last(p)] \in [segment : Segment \ Respelled, search : Seq(STRING \X STRING)]
        BY <2>1 DEF IsCut, SpellingAssumption
      <3>2. QED
        BY <3>1 DEF QueryString
    <2>2. <<>> \in QueryString
      BY DEF QueryString
    <2>3. QED
      BY <2>1, <2>2 DEF SearchIn
  <1> HIDE DEF c
  <1>2. ASSUME c # <<>>
        PROVE  Append(Front(c), <<Last(c)[1], Merged>>) \o (IF s = <<>> THEN <<>> ELSE Tail(s)) \in QueryString
    <2> DEFINE Pair == STRING \X STRING
    <2>1. c \in Seq(Pair) /\ s \in Seq(Pair) /\ Merged \in STRING
      BY <1>1 DEF QueryString, SpellingAssumption
    <2>2. c[Len(c)][1] \in STRING
      BY <1>2, <2>1
    <2>3. <<Last(c)[1], Merged>> \in Pair
      BY <2>1, <2>2 DEF Last
    <2> HIDE DEF Pair
    <2>4. Front(c) \in Seq(Pair)
      BY <1>2, <2>1 DEF Front
    <2>5. (IF s = <<>> THEN <<>> ELSE Tail(s)) \in Seq(Pair)
      BY <2>1
    <2>6. QED
      BY <2>3, <2>4, <2>5 DEF Pair, QueryString
  <1>3. Joined(p, s) \in QueryString
    <2>1. CASE IsCut(p) /\ c = <<>>
      <3>1. Joined(p, s) = <<>> /\ <<>> \in QueryString
        BY <2>1 DEF Joined, QueryString, c
      <3>2. QED
        BY <3>1
    <2>2. CASE IsCut(p) /\ c # <<>>
      BY <1>2, <2>2 DEF Joined, c
    <2>3. CASE ~IsCut(p)
      BY <2>3 DEF Joined
    <2>4. QED
      BY <2>1, <2>2, <2>3
  <1>4. QED
    BY <1>1, <1>3 DEF c

\* Signal.Set leaves what sameParams takes for the new value.
LEMMA SetMapSame ==
  ASSUME NEW a, NEW b
  PROVE  SetMap(a, b) \in {a, b} /\ SameParams(SetMap(a, b), b) /\ SameParams(b, b)
  BY DEF SetMap, SameParams

-----------------------------------------------------------------------------
(* The URL *)

Location == [path : Seq(STRING), search : QueryString]

HistoryInv ==
  /\ entries \in Seq(Location)
  /\ at \in DOMAIN entries
  /\ \A n \in DOMAIN entries :
       \E p \in Seq(Segment) : Located(p) = p /\ entries[n].path = Base \o p

\* A call that waits for subscribers.
Params == UNION {[D -> STRING] : D \in {D \in SUBSET STRING : IsFiniteSet(D)}}
Call == [of : {"path", "query", "popstate"}, op : Ops \union {"none"}, path : Seq(Segment),
         params : Params, left : Params]

WritingInv ==
  /\ writing \in Seq(Call)
  /\ \A i \in DOMAIN writing : SameParams(writing[i].left, writing[i].params)

\* Unless a path waits to be written.
PathInUrl == Notifying({"path"}) \/ crossed \/ entries[at].path = Located(Base \o path)

QueryRead == behind \/ SameParams(query, Parse(entries[at].search))
QueryInUrl == writing = <<>> => QueryRead

UrlInv ==
  /\ HistoryInv
  /\ path \in Seq(Segment)
  /\ IsQuery(query)
  /\ WritingInv
  /\ PathInUrl
  /\ QueryInUrl

\* The maps that may stand in Query are a set.
LEMMA QueryIsParams ==
  ASSUME NEW q
  PROVE  IsQuery(q) <=> q \in Params
  <1>1. ASSUME IsQuery(q) PROVE q \in Params
    <2> DEFINE D == DOMAIN q
    <2>1. D \in SUBSET STRING /\ IsFiniteSet(D) /\ q \in [D -> STRING]
      BY <1>1 DEF IsQuery
    <2> HIDE DEF D
    <2>2. QED
      BY <2>1 DEF Params
  <1>2. ASSUME q \in Params PROVE IsQuery(q)
    <2>1. PICK D \in SUBSET STRING : IsFiniteSet(D) /\ q \in [D -> STRING]
      BY <1>2 DEF Params
    <2>2. DOMAIN q = D
      BY <2>1
    <2>3. QED
      BY <2>1, <2>2 DEF IsQuery
  <1>3. QED
    BY <1>1, <1>2

\* A URL the router makes is a location of the history.
LEMMA UrlIsLocation ==
  ASSUME NEW p \in Seq(Segment), NEW s \in QueryString, RouterAssumption, SpellingAssumption
  PROVE  /\ Url(p, s) \in Location /\ Url(p, s).path = Located(Base \o p) /\ Url(p, s).search = s
         /\ Located(p) \in Seq(Segment) /\ Located(Located(p)) = Located(p)
         /\ Url(p, s).path = Base \o Located(p)
  BY StripBaseUrl, LocatedFacts DEF Url, Location

\* pushState leaves a history of such URLs, and stands at the new one.
LEMMA PushKeepsHistory ==
  ASSUME HistoryInv, NEW p \in Seq(Segment), NEW s \in QueryString,
         RouterAssumption, SpellingAssumption, PushState(Url(p, s))
  PROVE  HistoryInv' /\ entries'[at'] = Url(p, s)
  <1> DEFINE u == Url(p, s)
  <1>1. u \in Location /\ \E r \in Seq(Segment) : Located(r) = r /\ u.path = Base \o r
    BY UrlIsLocation
  <1> HIDE DEF u
  <1>2. entries \in Seq(Location) /\ at \in 1..Len(entries) /\ Len(entries) \in Nat
    BY DEF HistoryInv
  <1> DEFINE e == SubSeq(entries, 1, at)
  <1>3. /\ e \in Seq(Location) /\ Len(e) = at
        /\ \A i \in 1..at : e[i] = entries[i]
    BY <1>2
  <1>4. entries' = Append(e, u) /\ at' = at + 1
    BY DEF PushState, u
  <1> HIDE DEF e
  <1>5. /\ entries' \in Seq(Location) /\ Len(entries') = at + 1 /\ at \in Nat
        /\ \A i \in 1..at : entries'[i] = e[i]
        /\ entries'[at + 1] = u
    BY <1>1, <1>2, <1>3, <1>4
  <1>6. DOMAIN entries' = 1..(at + 1)
    BY <1>5
  <1>7. ASSUME NEW n \in DOMAIN entries'
        PROVE  \E r \in Seq(Segment) : Located(r) = r /\ entries'[n].path = Base \o r
    <2>1. CASE n \in 1..at
      <3>1. entries'[n] = entries[n] /\ n \in DOMAIN entries
        BY <1>2, <1>3, <1>5, <2>1
      <3>2. QED
        BY <3>1 DEF HistoryInv
    <2>2. CASE n = at + 1
      BY <1>1, <1>5, <2>2
    <2>3. \A k \in 1..(at + 1) : k \in 1..at \/ k = at + 1
      BY <1>5
    <2>4. QED
      BY <1>6, <2>1, <2>2, <2>3
  <1>8. at' \in DOMAIN entries'
    BY <1>4, <1>5, <1>6
  <1>9. QED
    BY <1>4, <1>5, <1>7, <1>8 DEF HistoryInv, u

\* replaceState does, too.
LEMMA ReplaceKeepsHistory ==
  ASSUME HistoryInv, NEW p \in Seq(Segment), NEW s \in QueryString,
         RouterAssumption, SpellingAssumption, ReplaceState(Url(p, s))
  PROVE  HistoryInv' /\ entries'[at'] = Url(p, s)
  <1> DEFINE u == Url(p, s)
  <1>1. u \in Location /\ \E r \in Seq(Segment) : Located(r) = r /\ u.path = Base \o r
    BY UrlIsLocation
  <1> HIDE DEF u
  <1>2. entries \in Seq(Location) /\ at \in DOMAIN entries
    BY DEF HistoryInv
  <1>3. entries' = [entries EXCEPT ![at] = u] /\ at' = at
    BY DEF ReplaceState, u
  <1>4. /\ entries' \in Seq(Location) /\ DOMAIN entries' = DOMAIN entries
        /\ entries'[at] = u
        /\ \A n \in DOMAIN entries : n # at => entries'[n] = entries[n]
    BY <1>1, <1>2, <1>3
  <1>5. \A n \in DOMAIN entries' : \E r \in Seq(Segment) : Located(r) = r /\ entries'[n].path = Base \o r
    BY <1>1, <1>4 DEF HistoryInv
  <1>6. QED
    BY <1>2, <1>3, <1>4, <1>5 DEF HistoryInv, u

\* The write of a path puts it into the URL, and no query but what the path ends in.
LEMMA WritePathFacts ==
  ASSUME HistoryInv, RouterAssumption, SpellingAssumption, NEW p \in Seq(Segment), NEW op, NEW over,
         WritePath(op, p, over), query' = query
  PROVE  /\ HistoryInv' /\ entries'[at'].path = Located(Base \o p)
         /\ crossed' = over /\ QueryRead'
  <1> DEFINE s == SearchIn(p)
  <1>1. s \in QueryString
    <2>1. <<>> \in QueryString
      BY DEF QueryString
    <2>2. QED
      BY <2>1, SearchFacts
  <1>2. /\ PushState(Url(p, s)) \/ ReplaceState(Url(p, s))
        /\ behind' = (query # NoParams \/ s # <<>>) /\ crossed' = over
    BY DEF WritePath, WriteState, PathUrl
  <1> HIDE DEF s
  <1>3. HistoryInv' /\ entries'[at'] = Url(p, s)
    BY <1>1, <1>2, PushKeepsHistory, ReplaceKeepsHistory
  <1>4. entries'[at'].path = Located(Base \o p) /\ entries'[at'].search = s
    <2>1. Url(p, s).path = Located(Base \o p) /\ Url(p, s).search = s
      BY <1>1, UrlIsLocation
    <2>2. QED
      BY <1>3, <2>1
  <1>5. behind' \/ SameParams(query', Parse(entries'[at'].search))
    <2>1. ASSUME ~behind' PROVE query' = NoParams /\ Parse(entries'[at'].search) = NoParams
      BY <1>2, <1>4, <2>1, NoParamsIsQuery
    <2>2. QED
      BY <2>1, SetMapSame
  <1>6. QED
    BY <1>2, <1>3, <1>4, <1>5 DEF QueryRead

\* The write of a query puts it into the URL with the path; unless Query has gone on it is read
\* back.
LEMMA WriteQueryFacts ==
  ASSUME HistoryInv, RouterAssumption, SpellingAssumption, NEW p \in Seq(Segment), NEW q, IsQuery(q),
         NEW op, NEW over, WriteQuery(op, p, q, over), over \/ SameParams(query', q)
  PROVE  /\ HistoryInv' /\ entries'[at'].path = Located(Base \o p)
         /\ ~crossed' /\ QueryRead'
  <1> DEFINE s == Joined(p, Encode(q))
  <1>1. Encode(q) \in QueryString /\ Parse(Encode(q)) = [k \in DOMAIN q \ {Blank} |-> q[k]]
    BY ParseEncode
  <1>2. s \in QueryString
    BY <1>1, SearchFacts
  <1>3. /\ PushState(Url(p, s)) \/ ReplaceState(Url(p, s))
        /\ behind' = (over \/ Blank \in DOMAIN q \/ IsCut(p)) /\ ~crossed'
    BY DEF WriteQuery, WriteState, QueryUrl
  <1>4. ~IsCut(p) => s = Encode(q)
    BY DEF Joined
  <1> HIDE DEF s
  <1>5. HistoryInv' /\ entries'[at'] = Url(p, s)
    BY <1>2, <1>3, PushKeepsHistory, ReplaceKeepsHistory
  <1>6. entries'[at'].path = Located(Base \o p) /\ entries'[at'].search = s
    <2>1. Url(p, s).path = Located(Base \o p) /\ Url(p, s).search = s
      BY <1>2, UrlIsLocation
    <2>2. QED
      BY <1>5, <2>1
  <1>7. behind' \/ SameParams(query', Parse(entries'[at'].search))
    <2>1. ASSUME ~behind' PROVE SameParams(query', q) /\ Parse(entries'[at'].search) = q
      <3>1. Blank \notin DOMAIN q /\ entries'[at'].search = Encode(q) /\ ~over
        BY <1>3, <1>4, <1>6, <2>1
      <3>2. q \in [DOMAIN q -> STRING]
        BY DEF IsQuery
      <3>3. DOMAIN q \ {Blank} = DOMAIN q
        BY <3>1
      <3>4. [k \in DOMAIN q \ {Blank} |-> q[k]] = q
        BY <3>2, <3>3
      <3>5. QED
        BY <1>1, <3>1, <3>4
    <2>2. QED
      BY <2>1
  <1>8. QED
    BY <1>3, <1>5, <1>6, <1>7 DEF QueryRead

\* A call that has just begun to wait is the innermost.
LEMMA WaitingCall ==
  ASSUME WritingInv, NEW call \in Call, SameParams(call.left, call.params),
         writing' = <<call>> \o writing
  PROVE  /\ WritingInv' /\ writing' # <<>>
         /\ \A ofs : Notifying(ofs)' <=> (call.of \in ofs \/ Notifying(ofs))
  <1>1. writing \in Seq(Call) /\ <<call>> \in Seq(Call) /\ Len(<<call>>) = 1 /\ <<call>>[1] = call
    BY DEF WritingInv
  <1>2. /\ writing' \in Seq(Call) /\ Len(writing') = Len(writing) + 1 /\ Len(writing) \in Nat
        /\ writing'[1] = call /\ \A i \in 1..Len(writing) : writing'[i + 1] = writing[i]
    BY <1>1
  <1>3. DOMAIN writing' = 1..(Len(writing) + 1) /\ DOMAIN writing = 1..Len(writing)
    BY <1>1, <1>2
  <1>4. \A i \in 1..(Len(writing) + 1) : i = 1 \/ (i - 1 \in 1..Len(writing) /\ i = (i - 1) + 1)
    BY <1>2
  <1>5. ASSUME NEW i \in DOMAIN writing'
        PROVE  writing'[i] = call \/ \E j \in DOMAIN writing : writing'[i] = writing[j]
    BY <1>2, <1>3, <1>4
  <1>6. WritingInv'
    BY <1>2, <1>5 DEF WritingInv
  <1>7. writing' # <<>>
    BY <1>2
  <1>8. ASSUME NEW ofs PROVE Notifying(ofs)' <=> (call.of \in ofs \/ Notifying(ofs))
    <2>1. ASSUME NEW i \in DOMAIN writing' PROVE writing'[i].of \in ofs => (call.of \in ofs \/ Notifying(ofs))
      BY <1>5 DEF Notifying
    <2>2. 1 \in DOMAIN writing' /\ \A j \in DOMAIN writing : j + 1 \in DOMAIN writing'
      BY <1>2, <1>3
    <2>3. call.of \in ofs \/ Notifying(ofs) => \E i \in DOMAIN writing' : writing'[i].of \in ofs
      BY <1>2, <1>3, <2>2 DEF Notifying
    <2>4. QED
      BY <2>1, <2>3 DEF Notifying
  <1>9. QED
    BY <1>6, <1>7, <1>8

\* A navigation, from the application or from a subscriber.
LEMMA GoToKeepsUrl ==
  ASSUME UrlInv, RouterAssumption, SpellingAssumption, NEW op \in Ops, NEW p \in Seq(Segment), GoTo(op, p)
  PROVE  UrlInv'
  <1>1. path' = p /\ query' = query /\ HistoryInv /\ WritingInv
    BY DEF GoTo, UrlInv
  <1>2. IsQuery(query)' /\ path' \in Seq(Segment)
    BY <1>1 DEF UrlInv, IsQuery
  <1>3. CASE WritePath(op, p, FALSE) /\ UNCHANGED writing
    <2>1. HistoryInv' /\ entries'[at'].path = Located(Base \o p) /\ QueryRead'
      BY <1>1, <1>3, WritePathFacts
    <2>2. WritingInv'
      BY <1>1, <1>3 DEF WritingInv
    <2>3. QED
      BY <1>1, <1>2, <2>1, <2>2 DEF UrlInv, PathInUrl, QueryInUrl
  <1>4. CASE writing' = <<PathCall(op, p)>> \o writing /\ UNCHANGED <<historyVars, behind, crossed>>
    <2> DEFINE call == PathCall(op, p)
    <2>1. NoParams \in Params
      BY NoParamsIsQuery, QueryIsParams
    <2>2. call \in Call /\ call.of = "path" /\ SameParams(call.left, call.params)
      BY <2>1, SetMapSame DEF PathCall, Call
    <2> HIDE DEF call
    <2>3. WritingInv' /\ writing' # <<>> /\ Notifying({"path"})'
      BY <1>1, <1>4, <2>2, WaitingCall DEF call
    <2>4. HistoryInv'
      BY <1>1, <1>4 DEF HistoryInv, historyVars
    <2>5. QED
      BY <1>2, <2>3, <2>4 DEF UrlInv, PathInUrl, QueryInUrl
  <1>5. QED
    BY <1>3, <1>4 DEF GoTo

\* A change of the query.
LEMMA SetQueryKeepsUrl ==
  ASSUME UrlInv, RouterAssumption, SpellingAssumption, NEW name \in STRING, NEW value \in STRING,
         SetQueryParam(name, value)
  PROVE  UrlInv'
  <1> DEFINE q == WithParam(query, name, value)
  <1>1. IsQuery(query) /\ path \in Seq(Segment) /\ path' = path /\ HistoryInv /\ WritingInv
    BY DEF UrlInv, SetQueryParam
  <1>2. IsQuery(q)
    BY <1>1, WithParamIsQuery
  <1>3. PICK op \in Ops :
          /\ query' = SetMap(query, q)
          /\ \/ WriteQuery(op, path, q, FALSE) /\ UNCHANGED writing
             \/ /\ writing' = <<QueryCall(op, q, query')>> \o writing
                /\ UNCHANGED <<historyVars, behind, crossed>>
    BY DEF SetQueryParam
  <1> HIDE DEF q
  <1>4. IsQuery(query') /\ SameParams(query', q)
    BY <1>1, <1>2, <1>3, SetMapSame
  <1>5. CASE WriteQuery(op, path, q, FALSE) /\ UNCHANGED writing
    <2>1. HistoryInv' /\ entries'[at'].path = Located(Base \o path) /\ QueryRead'
      BY <1>1, <1>2, <1>4, <1>5, WriteQueryFacts
    <2>2. WritingInv'
      BY <1>1, <1>5 DEF WritingInv
    <2>3. QED
      BY <1>1, <1>4, <2>1, <2>2 DEF UrlInv, PathInUrl, QueryInUrl, IsQuery
  <1>6. CASE writing' = <<QueryCall(op, q, query')>> \o writing /\ UNCHANGED <<historyVars, behind, crossed>>
    <2> DEFINE call == QueryCall(op, q, query')
    <2>1. q \in Params /\ query' \in Params /\ <<>> \in Seq(Segment)
      BY <1>2, <1>4, QueryIsParams
    <2>2. call \in Call /\ call.of = "query" /\ SameParams(call.left, call.params)
      BY <1>4, <2>1 DEF QueryCall, Call
    <2> HIDE DEF call
    <2>3. WritingInv' /\ writing' # <<>> /\ (Notifying({"path"}) => Notifying({"path"})')
      BY <1>1, <1>6, <2>2, WaitingCall DEF call
    <2>4. /\ HistoryInv' /\ entries'[at'] = entries[at] /\ crossed' = crossed
      BY <1>1, <1>6 DEF HistoryInv, historyVars
    <2>5. PathInUrl'
      BY <1>1, <2>3, <2>4 DEF UrlInv, PathInUrl
    <2>6. QED
      BY <1>1, <1>4, <2>3, <2>4, <2>5 DEF UrlInv, QueryInUrl, IsQuery
  <1>7. QED
    BY <1>3, <1>5, <1>6

\* What a URL of the history says.
LEMMA EntryFacts ==
  ASSUME HistoryInv, NEW n \in DOMAIN entries, RouterAssumption, SpellingAssumption
  PROVE  /\ StripBase(entries[n].path) \in Seq(Segment)
         /\ entries[n].path = Located(Base \o StripBase(entries[n].path))
         /\ entries[n].search \in QueryString /\ IsQuery(Parse(entries[n].search))
  <1>1. PICK p \in Seq(Segment) : Located(p) = p /\ entries[n].path = Base \o p
    BY DEF HistoryInv
  <1>2. StripBase(entries[n].path) = p
    BY <1>1, StripBaseUrl
  <1>3. Located(Base \o p) = Base \o p
    BY <1>1, LocatedFacts
  <1>4. entries[n] \in Location
    BY DEF HistoryInv
  <1>5. entries[n].search \in QueryString
    BY <1>4 DEF Location
  <1>6. QED
    BY <1>1, <1>2, <1>3, <1>5, ParseIsQuery

\* popstate, at whatever entry the browser arrives.
LEMMA TraverseKeepsUrl ==
  ASSUME UrlInv, RouterAssumption, SpellingAssumption, NEW n, Traverse(n)
  PROVE  UrlInv'
  <1>1. /\ n \in DOMAIN entries /\ at' = n /\ entries' = entries
        /\ path' = StripBase(entries[n].path) /\ writing = <<>>
    BY DEF Traverse, Popstate, AtRest
  <1>2. HistoryInv /\ IsQuery(query)
    BY DEF UrlInv
  <1>3. HistoryInv'
    BY <1>1, <1>2 DEF HistoryInv
  <1>4. /\ path' \in Seq(Segment) /\ entries[n].path = Located(Base \o path')
        /\ IsQuery(Parse(entries[n].search))
    BY <1>1, <1>2, EntryFacts
  <1>5. PathInUrl'
    BY <1>1, <1>4 DEF PathInUrl
  <1>6. CASE path' = path
    <2>1. query' = SetMap(query, Parse(entries[n].search)) /\ writing' = writing
      BY <1>1, <1>6 DEF Traverse, Popstate, SyncQuery
    <2>2. IsQuery(query') /\ SameParams(query', Parse(entries[n].search))
      BY <1>2, <1>4, <2>1, SetMapSame
    <2>3. WritingInv'
      BY <2>1 DEF UrlInv, WritingInv
    <2>4. QED
      BY <1>1, <1>3, <1>4, <1>5, <2>2, <2>3 DEF UrlInv, QueryInUrl, QueryRead, IsQuery
  <1>7. CASE path' # path
    <2>1. query' = query /\ writing' = <<PopCall>>
      BY <1>1, <1>7 DEF Traverse, Popstate
    <2>2. NoParams \in Params
      BY NoParamsIsQuery, QueryIsParams
    <2>3. PopCall \in Call /\ SameParams(PopCall.left, PopCall.params)
      <3>1. <<>> \in Seq(Segment)
        OBVIOUS
      <3>2. PopCall \in Call
        BY <2>2, <3>1 DEF PopCall, Call
      <3>3. SameParams(PopCall.left, PopCall.params)
        BY SetMapSame DEF PopCall
      <3>4. QED
        BY <3>2, <3>3
    <2>4. WritingInv' /\ writing' # <<>>
      BY <2>1, <2>3 DEF WritingInv
    <2>5. IsQuery(query')
      BY <1>2, <2>1
    <2>6. QED
      BY <1>3, <1>4, <1>5, <2>4, <2>5 DEF UrlInv, QueryInUrl, IsQuery
  <1>8. QED
    BY <1>6, <1>7

\* The calls that wait after the innermost is done.
LEMMA TailCalls ==
  ASSUME WritingInv, writing # <<>>, writing' = Tail(writing)
  PROVE  /\ Head(writing) \in Call /\ SameParams(Head(writing).left, Head(writing).params)
         /\ WritingInv'
         /\ \A ofs : Notifying(ofs) => Head(writing).of \in ofs \/ Notifying(ofs)'
  <1>1. writing \in Seq(Call) /\ Len(writing) \in Nat \ {0} /\ DOMAIN writing = 1..Len(writing)
    BY DEF WritingInv
  <1>2. /\ Head(writing) = writing[1] /\ 1 \in DOMAIN writing /\ Head(writing) \in Call
        /\ writing' \in Seq(Call) /\ Len(writing') = Len(writing) - 1
        /\ \A i \in 1..(Len(writing) - 1) : writing'[i] = writing[i + 1]
        /\ DOMAIN writing' = 1..(Len(writing) - 1)
    BY <1>1
  <1>3. \A i \in DOMAIN writing' : i + 1 \in DOMAIN writing
    BY <1>1, <1>2
  <1>4. \A i \in DOMAIN writing : i = 1 \/ (i - 1 \in DOMAIN writing' /\ writing'[i - 1] = writing[i])
    BY <1>1, <1>2
  <1>5. WritingInv'
    BY <1>2, <1>3 DEF WritingInv
  <1>6. \A ofs : Notifying(ofs) => Head(writing).of \in ofs \/ Notifying(ofs)'
    BY <1>2, <1>4 DEF Notifying
  <1>7. QED
    BY <1>2, <1>5, <1>6 DEF WritingInv

\* The innermost call is done.
LEMMA FinishKeepsUrl ==
  ASSUME UrlInv, RouterAssumption, SpellingAssumption, Finish
  PROVE  UrlInv'
  <1> DEFINE call == Head(writing)
  <1>1. /\ HistoryInv /\ WritingInv /\ IsQuery(query) /\ path \in Seq(Segment)
        /\ path' = path /\ writing # <<>> /\ writing' = Tail(writing)
    BY DEF UrlInv, Finish
  <1>2. /\ call \in Call /\ SameParams(call.left, call.params) /\ WritingInv'
        /\ Notifying({"path"}) => call.of = "path" \/ Notifying({"path"})'
    BY <1>1, TailCalls
  <1>3. CASE call.of = "path"
    <2>1. WritePath(call.op, call.path, path # call.path) /\ query' = query
      BY <1>3 DEF Finish
    <2>2. call.path \in Seq(Segment)
      BY <1>2 DEF Call
    <2> HIDE DEF call
    <2>3. /\ HistoryInv' /\ entries'[at'].path = Located(Base \o call.path)
          /\ crossed' = (path # call.path) /\ QueryRead'
      BY <1>1, <2>1, <2>2, WritePathFacts
    <2>4. PathInUrl'
      BY <1>1, <2>3 DEF PathInUrl
    <2>5. QED
      BY <1>1, <1>2, <2>1, <2>3, <2>4 DEF UrlInv, QueryInUrl, IsQuery
  <1>4. CASE call.of = "query"
    <2>1. WriteQuery(call.op, path, call.params, query # call.left) /\ query' = query
      BY <1>4 DEF Finish
    <2>2. IsQuery(call.params)
      BY <1>2, QueryIsParams DEF Call
    <2>3. query # call.left \/ SameParams(query', call.params)
      BY <1>2, <2>1
    <2> HIDE DEF call
    <2>4. HistoryInv' /\ entries'[at'].path = Located(Base \o path) /\ QueryRead'
      BY <1>1, <2>1, <2>2, <2>3, WriteQueryFacts
    <2>5. QED
      BY <1>1, <1>2, <2>1, <2>4 DEF UrlInv, PathInUrl, QueryInUrl, IsQuery
  <1>5. CASE call.of = "popstate"
    <2> DEFINE s == entries[at].search
    <2>1. query' = SetMap(query, Parse(s)) /\ entries' = entries /\ at' = at /\ crossed' = crossed
      BY <1>5 DEF Finish, SyncQuery, historyVars
    <2>2. IsQuery(Parse(s))
      BY <1>1, EntryFacts DEF HistoryInv
    <2>3. IsQuery(query') /\ SameParams(query', Parse(s))
      BY <1>1, <2>1, <2>2, SetMapSame
    <2>4. HistoryInv'
      BY <1>1, <2>1 DEF HistoryInv
    <2>5. PathInUrl'
      BY <1>1, <1>2, <1>5, <2>1 DEF UrlInv, PathInUrl
    <2>6. QED
      BY <1>1, <1>2, <2>1, <2>3, <2>4, <2>5 DEF UrlInv, QueryInUrl, QueryRead, IsQuery
  <1>6. QED
    BY <1>2, <1>3, <1>4, <1>5 DEF Call

\* A page load.
LEMMA ReloadKeepsUrl ==
  ASSUME UrlInv, RouterAssumption, SpellingAssumption, Reload
  PROVE  UrlInv'
  <1>1. /\ at' = at /\ entries' = entries /\ writing' = <<>>
        /\ path' = StripBase(entries[at].path)
        /\ query' = Parse(entries[at].search)
    BY DEF Reload, Load
  <1>2. HistoryInv /\ at \in DOMAIN entries
    BY DEF UrlInv, HistoryInv
  <1>3. HistoryInv'
    BY <1>1, <1>2 DEF HistoryInv
  <1>4. /\ path' \in Seq(Segment) /\ entries[at].path = Located(Base \o path')
        /\ IsQuery(query')
    BY <1>1, <1>2, EntryFacts
  <1>5. WritingInv'
    BY <1>1 DEF WritingInv
  <1>6. QED
    BY <1>1, <1>3, <1>4, <1>5, SetMapSame DEF UrlInv, PathInUrl, QueryInUrl, QueryRead, IsQuery

\* A handler that navigates: only a page that redirects leaves the path, for one of its own.
LEMMA HandlerPath ==
  ASSUME RouterAssumption, path \in Seq(Segment), NEW r, NEW p \in AfterHandler(r)
  PROVE  /\ p \in Seq(Segment)
         /\ r \notin DOMAIN Redirects => p = path
         /\ p # path => r \in DOMAIN Redirects /\ Redirects[r] # path
         /\ r \in DOMAIN Redirects => Redirects[r] \in Seq(Segment)
  BY DEF AfterHandler, RouterAssumption

\* The URL after that.
LEMMA HandlerKeepsUrl ==
  ASSUME UrlInv, RouterAssumption, SpellingAssumption, NEW r, NEW p \in AfterHandler(r),
         HandlerNavigates(r, p), path' = p, query' = query, writing' = writing
  PROVE  UrlInv'
  <1>1. HistoryInv /\ path \in Seq(Segment) /\ IsQuery(query') /\ WritingInv'
    BY DEF UrlInv, WritingInv
  <1>2. path' \in Seq(Segment)
    BY <1>1, HandlerPath
  <1>3. CASE r \notin DOMAIN Redirects
    <2>1. entries' = entries /\ at' = at /\ behind' = behind /\ crossed' = crossed /\ path' = path
      BY <1>1, <1>3, HandlerPath DEF HandlerNavigates, historyVars
    <2>2. HistoryInv' /\ PathInUrl' /\ QueryInUrl'
      BY <2>1 DEF UrlInv, HistoryInv, PathInUrl, QueryInUrl, QueryRead, Notifying
    <2>3. QED
      BY <1>1, <1>2, <2>2 DEF UrlInv, IsQuery
  <1>4. CASE r \in DOMAIN Redirects
    <2>1. Redirects[r] \in Seq(Segment)
      BY <1>1, <1>4, HandlerPath
    <2>2. PICK op \in Ops : \E over \in BOOLEAN :
            WritePath(op, Redirects[r], over) /\ (over \/ p = Redirects[r])
      BY <1>4 DEF HandlerNavigates, Ops
    <2>3. PICK over \in BOOLEAN : WritePath(op, Redirects[r], over) /\ (over \/ p = Redirects[r])
      BY <2>2
    <2>4. /\ HistoryInv' /\ entries'[at'].path = Located(Base \o Redirects[r])
          /\ crossed' = over /\ QueryRead'
      BY <1>1, <2>1, <2>3, WritePathFacts
    <2>5. PathInUrl'
      BY <2>3, <2>4 DEF PathInUrl
    <2>6. QED
      BY <1>1, <1>2, <2>4, <2>5 DEF UrlInv, QueryInUrl, IsQuery
  <1>5. QED
    BY <1>3, <1>4

\* The first page load.
LEMMA UrlInvInit == RouterAssumption /\ SpellingAssumption /\ Init => UrlInv
  <1> SUFFICES ASSUME RouterAssumption, SpellingAssumption, Init PROVE UrlInv
    OBVIOUS
  <1>1. PICK p \in Paths, s \in Searches : entries = <<Url(p, s)>>
    BY DEF Init
  <1>2. p \in Seq(Segment) /\ s \in QueryString
    BY DEF RouterAssumption, QueryString
  <1>3. /\ Url(p, s) \in Location
        /\ \E r \in Seq(Segment) : Located(r) = r /\ Url(p, s).path = Base \o r
    BY <1>2, UrlIsLocation
  <1>4. /\ entries \in Seq(Location) /\ DOMAIN entries = 1..1 /\ at = 1
        /\ entries[1] = Url(p, s)
    BY <1>1, <1>3 DEF Init
  <1>5. HistoryInv
    <2>1. at \in DOMAIN entries /\ \A n \in DOMAIN entries : n = 1
      BY <1>4
    <2>2. QED
      BY <1>3, <1>4, <2>1 DEF HistoryInv
  <1>6. path = StripBase(entries[1].path) /\ query = Parse(entries[1].search) /\ writing = <<>>
    BY DEF Init
  <1>7. 1 \in DOMAIN entries
    BY <1>4
  <1>8. WritingInv
    BY <1>6 DEF WritingInv
  <1>9. QED
    BY <1>4, <1>5, <1>6, <1>7, <1>8, EntryFacts, SetMapSame DEF UrlInv, PathInUrl, QueryInUrl, QueryRead

\* What the other steps of a render leave alone.
UrlUnchanged == UNCHANGED <<entries, at, path, query, writing, behind, crossed>>

\* A step that touches neither the URL nor the router's copy keeps them in step.
LEMMA UrlInvUnchanged == UrlInv /\ UrlUnchanged => UrlInv'
  <1> SUFFICES ASSUME UrlInv, UrlUnchanged PROVE UrlInv'
    OBVIOUS
  <1>1. /\ entries' = entries /\ at' = at /\ path' = path /\ query' = query
        /\ writing' = writing /\ behind' = behind /\ crossed' = crossed
    BY DEF UrlUnchanged
  <1>2. HistoryInv' /\ WritingInv'
    BY <1>1 DEF UrlInv, HistoryInv, WritingInv
  <1>3. IsQuery(query)'
    BY <1>1 DEF UrlInv, IsQuery
  <1>4. PathInUrl' /\ QueryInUrl'
    BY <1>1 DEF UrlInv, PathInUrl, QueryInUrl, QueryRead, Notifying
  <1>5. QED
    BY <1>1, <1>2, <1>3, <1>4 DEF UrlInv

\* Every step keeps the URL and the router in step.
LEMMA UrlInvStep == RouterAssumption /\ SpellingAssumption /\ UrlInv /\ [Next]_vars => UrlInv'
  <1> SUFFICES ASSUME RouterAssumption, SpellingAssumption, UrlInv, [Next]_vars PROVE UrlInv'
    OBVIOUS
  <1>1. ASSUME NEW p \in Paths, Navigate(p) \/ NavigateReplace(p) \/ FollowLink(p) PROVE UrlInv'
    <2>1. p \in Seq(Segment)
      BY DEF RouterAssumption
    <2>2. \E op \in Ops : GoTo(op, p)
      BY <1>1 DEF Navigate, NavigateReplace, FollowLink, Ops
    <2>3. QED
      BY <2>1, <2>2, GoToKeepsUrl
  <1>2. ASSUME NEW pair \in Pairs, SetQueryParam(pair[1], pair[2]) PROVE UrlInv'
    <2>1. pair[1] \in STRING /\ pair[2] \in STRING
      BY DEF RouterAssumption
    <2>2. QED
      BY <1>2, <2>1, SetQueryKeepsUrl
  <1>3. CASE Finish
    BY <1>3, FinishKeepsUrl
  <1>4. CASE \E n \in 1..MaxEntries : Traverse(n)
    BY <1>4, TraverseKeepsUrl
  <1>5. CASE Reload
    BY <1>5, ReloadKeepsUrl
  <1>6. CASE StartPass
    BY <1>6, UrlInvUnchanged DEF StartPass, historyVars, signalVars, urlVars, UrlUnchanged
  <1>7. CASE RenderRoute
    <2>1. PICK r, shown, p, sub : RenderPage(r, shown, p, sub) /\ p \in AfterHandler(shown)
      BY <1>7, Zenon DEF RenderRoute
    <2>2. HandlerNavigates(shown, p) /\ path' = p /\ query' = query /\ writing' = writing
      BY <2>1 DEF RenderPage
    <2>3. QED
      BY <2>1, <2>2, HandlerKeepsUrl
  <1>8. CASE RenderRoutePanics
    BY <1>8, UrlInvUnchanged DEF RenderRoutePanics, historyVars, urlVars, UrlUnchanged
  <1>9. CASE RenderNested
    BY <1>9, UrlInvUnchanged DEF RenderNested, RenderSub, historyVars, urlVars, UrlUnchanged
  <1>10. ASSUME NEW i \in Side, RenderSide(i) PROVE UrlInv'
    BY <1>10, UrlInvUnchanged DEF RenderSide, RenderSub, historyVars, urlVars, UrlUnchanged
  <1>11. CASE UNCHANGED vars
    BY <1>11, UrlInvUnchanged DEF vars, historyVars, signalVars, urlVars, UrlUnchanged
  <1>12. QED
    BY <1>1, <1>2, <1>3, <1>4, <1>5, <1>6, <1>7, <1>8, <1>9, <1>10, <1>11 DEF Next

\* The URL and the router are in step in every reachable state.
THEOREM UrlInvAlways == Spec => []UrlInv
  <1>1. Init => UrlInv
    BY UrlInvInit, RouterAssumption, SpellingAssumption
  <1>2. UrlInv /\ [Next]_vars => UrlInv'
    BY UrlInvStep, RouterAssumption, SpellingAssumption
  <1>3. QED
    BY <1>1, <1>2, PTL DEF Spec

(* Whenever no navigation is under way the address bar holds the URL the   *)
(* browser makes of Path, unless it was written for a path that Path had   *)
(* left meanwhile, and Query is what its query string says, unless a       *)
(* navigation wrote none: for every history, base path, set of routes and  *)
(* spelling of segments, and whatever the subscribers do (Navigate,        *)
(* SetQueryParam, BindHistory).                                            *)
THEOREM UrlIsCurrentAlways == Spec => []UrlIsCurrent
  <1>1. UrlInv => UrlIsCurrent
    <2> SUFFICES ASSUME UrlInv, writing = <<>>
                 PROVE  /\ crossed \/ entries[at].path = Located(Base \o path)
                        /\ behind \/ SameParams(query, Parse(entries[at].search))
      BY DEF UrlIsCurrent
    <2>1. ~Notifying({"path"})
      BY DEF Notifying
    <2>2. QED
      BY <2>1 DEF UrlInv, PathInUrl, QueryInUrl, QueryRead
  <1>2. QED
    BY <1>1, UrlInvAlways, PTL
-----------------------------------------------------------------------------
(* The scopes *)

Waiting == dirty \union pass
Shown(s) == page[s] # NoPage

ScopeTypes ==
  /\ dirty \subseteq Scope /\ pass \subseteq Scope
  /\ page = [s \in Scope |-> page[s]]
  /\ hasRoute \in BOOLEAN /\ notFound \in BOOLEAN /\ failed \in BOOLEAN /\ missed \in BOOLEAN
  /\ nestedIn \in {NoPage} \union DOMAIN Nested /\ Len(prefix) \in Nat

\* An application without Route has no nested SubRoute either.
WithoutRoute ==
  ~hasRoute => /\ Route \notin Waiting /\ Inner \notin Waiting
               /\ ~Shown(Route) /\ ~Shown(Inner) /\ nestedIn = NoPage

\* Route is marked with every SubRoute, and renders before them.
RouteFirst ==
  /\ Route \in pass => Side \subseteq pass /\ dirty = {}
  /\ Route \in dirty => Side \subseteq dirty

SidesRender == \A i \in Side : Shown(i) \/ i \in Waiting

\* The first render of Route is in the first pass of all.
FirstRender ==
  Route \in Waiting /\ ~Shown(Route) =>
    /\ \A s \in Scope : ~Shown(s)
    /\ pass = {} \/ Route \in pass

LaterRender == Route \in Waiting /\ Shown(Route) => \A i \in Side : Shown(i)

MarksRoute == Shown(Route) /\ dirty # {} => Route \in dirty

InnerInRoute == Shown(Inner) \/ Inner \in Waiting => Shown(Route)

RouteRenders == hasRoute /\ ~Shown(Route) => Route \in Waiting \/ failed

\* The nested SubRoute renders on its own only when Route has panicked.
InnerAlone ==
  /\ Inner \in dirty => Route \in dirty
  /\ Inner \in pass => Route \in pass \/ failed

\* The SubRoutes that wait are the later ones.
InOrder == \A i, j \in Side : i < j => (i \in pass => j \in pass) /\ (i \in dirty => j \in dirty)

StructInv ==
  /\ InOrder
  /\ ScopeTypes /\ WithoutRoute /\ RouteFirst /\ SidesRender /\ FirstRender
  /\ LaterRender /\ MarksRoute /\ InnerInRoute /\ InnerAlone /\ RouteRenders

\* Route, the nested SubRoute and the standalone ones are different scopes, in this order.
LEMMA ScopeFacts ==
  /\ Route \in Scope /\ Inner \in Scope /\ Side \subseteq Scope
  /\ Route # Inner /\ Route \notin Side /\ Inner \notin Side
  /\ \A s \in Scope : s \in Side \/ s = Route \/ s = Inner
  /\ \A s \in Scope \ {Route} : ~(s <= Route)
  /\ \A s \in Side : ~(s <= Inner)
  <1>1. \A k : \A s \in 3..k : ~(s <= 1) /\ ~(s <= 2) /\ s # 1 /\ s # 2
    OBVIOUS
  <1>2. QED
    BY <1>1 DEF Scope, Route, Inner, Side

\* The mounted scopes are those that show something.
LEMMA MountedShown ==
  ASSUME WithoutRoute
  PROVE  Mounted = {s \in Scope : Shown(s)}
  BY ScopeFacts DEF Mounted, WithoutRoute, Shown

\* The page has just been loaded.
Fresh ==
  /\ hasRoute \in BOOLEAN
  /\ dirty = Scope \ (IF hasRoute THEN {Inner} ELSE {Inner, Route})
  /\ pass = {}
  /\ page = [s \in Scope |-> NoPage]
  /\ params = NoParams /\ lastKeys = [s \in Scope |-> {}]
  /\ notFound = FALSE /\ failed = FALSE /\ missed = FALSE
  /\ prefix = <<>> /\ nestedIn = NoPage

\* A page that has just been loaded is in order.
LEMMA FreshStruct ==
  ASSUME Fresh
  PROVE  StructInv
  <1>1. /\ dirty \subseteq Scope /\ pass = {} /\ Inner \notin dirty
        /\ Side \subseteq dirty
        /\ hasRoute => Route \in dirty
        /\ ~hasRoute => Route \notin dirty
        /\ \A s \in Scope : ~Shown(s)
    BY ScopeFacts DEF Fresh, Shown
  <1>2. ScopeTypes
    BY <1>1 DEF ScopeTypes, Fresh
  <1>3. InOrder
    BY <1>1 DEF InOrder
  <1>4. QED
    BY <1>1, <1>2, <1>3, ScopeFacts DEF StructInv, WithoutRoute, RouteFirst, SidesRender, FirstRender,
      LaterRender, MarksRoute, InnerInRoute, InnerAlone, RouteRenders, Waiting, Fresh

\* A navigation or a traversal, as the scopes see it.
PathStep ==
  /\ pass = {}
  /\ path' \in Seq(Segment)
  /\ dirty' = DirtyAfter(path', dirty)
  /\ UNCHANGED <<params, notFound, pass, page, lastKeys, prefix, nestedIn, hasRoute, failed, missed>>

\* A navigation marks the mounted scopes and keeps the order.
LEMMA PathStepStruct ==
  ASSUME StructInv, PathStep
  PROVE  StructInv'
  <1>1. /\ pass' = {} /\ pass = {} /\ page' = page /\ hasRoute' = hasRoute /\ notFound' = notFound
        /\ failed' = failed /\ missed' = missed /\ nestedIn' = nestedIn /\ prefix' = prefix
        /\ dirty' = dirty \/ dirty' = dirty \union {s \in Scope : Shown(s)}
    BY MountedShown DEF PathStep, DirtyAfter, StructInv
  <1>2. dirty' \subseteq Scope /\ Waiting = dirty /\ Waiting' = dirty'
    BY <1>1 DEF StructInv, ScopeTypes, Waiting
  <1>3. \A s : Shown(s)' <=> Shown(s)
    BY <1>1 DEF Shown
  <1>4. ScopeTypes'
    BY <1>1, <1>2 DEF StructInv, ScopeTypes
  <1>5. WithoutRoute'
    BY <1>1, <1>2, <1>3 DEF StructInv, WithoutRoute
  <1>6. MarksRoute'
    BY <1>1, <1>3, ScopeFacts DEF StructInv, MarksRoute
  <1>7. InnerInRoute'
    BY <1>1, <1>2, <1>3 DEF StructInv, InnerInRoute
  <1>8. RouteRenders'
    BY <1>1, <1>2, <1>3 DEF StructInv, RouteRenders
  <1>9. SidesRender'
    BY <1>1, <1>2, <1>3 DEF StructInv, SidesRender
  <1>10. FirstRender'
    BY <1>1, <1>2, <1>3 DEF StructInv, FirstRender
  <1>11. ASSUME Route \in dirty', Route \notin dirty PROVE Shown(Route) /\ dirty = {}
    BY <1>1, <1>11 DEF StructInv, MarksRoute
  <1>12. LaterRender'
    BY <1>1, <1>2, <1>3, <1>11 DEF StructInv, LaterRender, SidesRender
  <1>13. RouteFirst'
    <2>1. ASSUME Route \in dirty' PROVE Side \subseteq dirty'
      <3>1. CASE Route \in dirty
        BY <1>1, <3>1 DEF StructInv, RouteFirst
      <3>2. CASE Route \notin dirty
        BY <1>1, <1>2, <1>11, <2>1, <3>2, ScopeFacts DEF StructInv, SidesRender
      <3>3. QED
        BY <3>1, <3>2
    <2>2. QED
      BY <1>1, <2>1 DEF RouteFirst
  <1>14. InnerAlone'
    <2>1. ASSUME Inner \in dirty' PROVE Route \in dirty'
      <3>1. CASE Inner \in dirty
        BY <1>1, <3>1 DEF StructInv, InnerAlone
      <3>2. CASE Inner \notin dirty
        BY <1>1, <2>1, <3>2, ScopeFacts DEF StructInv, InnerInRoute
      <3>3. QED
        BY <3>1, <3>2
    <2>2. QED
      BY <1>1, <2>1 DEF InnerAlone
  <1>15. InOrder'
    <2>1. CASE dirty' = dirty
      BY <1>1, <2>1 DEF StructInv, InOrder
    <2>2. CASE dirty' = dirty \union {s \in Scope : Shown(s)}
      <3>1. Side \subseteq dirty'
        BY <1>2, <2>2, ScopeFacts DEF StructInv, SidesRender
      <3>2. QED
        BY <1>1, <3>1 DEF InOrder
    <2>3. QED
      BY <1>1, <2>1, <2>2
  <1>16. QED
    BY <1>4, <1>5, <1>6, <1>7, <1>8, <1>9, <1>10, <1>12, <1>13, <1>14, <1>15 DEF StructInv

\* So does the start of a pass.
LEMMA StartPassStruct ==
  ASSUME StructInv, StartPass
  PROVE  StructInv'
  <1>1. /\ pass = {} /\ pass' = dirty /\ dirty' = {} /\ page' = page /\ hasRoute' = hasRoute
        /\ notFound' = notFound /\ failed' = failed /\ missed' = missed
        /\ nestedIn' = nestedIn /\ prefix' = prefix
    BY DEF StartPass, AtRest, Idle, signalVars, userVars
  <1>2. Waiting' = Waiting /\ Waiting = dirty
    BY <1>1 DEF Waiting
  <1>3. \A s : Shown(s)' <=> Shown(s)
    BY <1>1 DEF Shown
  <1>4. ScopeTypes'
    BY <1>1 DEF StructInv, ScopeTypes
  <1>5. WithoutRoute' /\ SidesRender' /\ InnerInRoute' /\ RouteRenders'
    BY <1>1, <1>2, <1>3 DEF StructInv, WithoutRoute, SidesRender, InnerInRoute, RouteRenders
  <1>6. MarksRoute' /\ RouteFirst' /\ InnerAlone'
    BY <1>1 DEF StructInv, MarksRoute, RouteFirst, InnerAlone
  <1>7. FirstRender' /\ LaterRender'
    BY <1>1, <1>2, <1>3 DEF StructInv, FirstRender, LaterRender
  <1>8. InOrder'
    BY <1>1 DEF StructInv, InOrder
  <1>9. QED
    BY <1>4, <1>5, <1>6, <1>7, <1>8 DEF StructInv

\* A render of Route that came to its end.
RouteStep(shown, inner, p) ==
  /\ Route \in pass
  /\ shown # NoPage
  /\ page' = [page EXCEPT ![Route] = shown, ![Inner] = inner]
  /\ dirty' \in {dirty \ {Inner}, (dirty \union Mounted) \ {Inner}}
  /\ p # path => dirty' = (dirty \union Mounted) \ {Inner}
  /\ pass' = pass \ {Route, Inner}
  /\ failed' = FALSE /\ missed' = (p # path /\ Route \notin Mounted)
  /\ hasRoute' = hasRoute /\ notFound' \in BOOLEAN
  /\ nestedIn' \in {NoPage} \union DOMAIN Nested /\ Len(prefix') \in Nat

\* So does a render of Route, with a redirect and without.
LEMMA RouteStepStruct ==
  ASSUME StructInv, NEW shown, NEW inner, NEW p, RouteStep(shown, inner, p)
  PROVE  StructInv'
  <1>1. /\ Route \in pass /\ Side \subseteq pass /\ dirty = {} /\ pass \subseteq Scope
        /\ hasRoute /\ hasRoute'
    BY DEF RouteStep, StructInv, RouteFirst, WithoutRoute, Waiting, ScopeTypes
  <1>2. /\ dirty' = {} \/ dirty' = {s \in Scope \ {Inner} : Shown(s)}
        /\ pass' = pass \ {Route, Inner}
        /\ failed' = FALSE /\ missed' \in BOOLEAN /\ notFound' \in BOOLEAN
    BY <1>1, MountedShown DEF RouteStep, StructInv
  <1>3. /\ Shown(Route)'
        /\ \A i \in Side : Shown(i)' <=> Shown(i)
        /\ page' = [s \in Scope |-> page'[s]]
    BY ScopeFacts DEF RouteStep, StructInv, ScopeTypes, Shown
  <1>4. Side \subseteq pass' /\ Route \notin pass' /\ Inner \notin pass' /\ Inner \notin dirty'
    BY <1>1, <1>2, ScopeFacts
  <1>5. ASSUME dirty' # {} PROVE Shown(Route) /\ \A i \in Side : Shown(i)
    <2>1. PICK s \in Scope : Shown(s)
      BY <1>2, <1>5
    <2>2. Route \in Waiting
      BY <1>1 DEF Waiting
    <2>3. Shown(Route)
      BY <2>1, <2>2 DEF StructInv, FirstRender
    <2>4. QED
      BY <2>2, <2>3 DEF StructInv, LaterRender
  <1>6. dirty' # {} => Route \in dirty' /\ Side \subseteq dirty'
    BY <1>2, <1>5, ScopeFacts
  <1>7. ScopeTypes'
    BY <1>1, <1>2, <1>3 DEF RouteStep, StructInv, ScopeTypes
  <1>8. WithoutRoute' /\ RouteFirst' /\ MarksRoute' /\ InnerAlone'
    BY <1>1, <1>4, <1>6 DEF WithoutRoute, RouteFirst, MarksRoute, InnerAlone
  <1>9. SidesRender' /\ FirstRender' /\ InnerInRoute' /\ RouteRenders'
    BY <1>3, <1>4 DEF SidesRender, FirstRender, InnerInRoute, RouteRenders, Waiting
  <1>10. LaterRender'
    BY <1>3, <1>4, <1>5 DEF LaterRender, Waiting
  <1>11. InOrder'
    BY <1>4, <1>6 DEF InOrder
  <1>12. QED
    BY <1>7, <1>8, <1>9, <1>10, <1>11 DEF StructInv

\* So does a render of Route that panics.
LEMMA PanicStruct ==
  ASSUME StructInv, RenderRoutePanics, notFound' \in BOOLEAN
  PROVE  StructInv'
  <1>1. /\ Route \in pass /\ pass' = pass \ {Route} /\ dirty' = dirty /\ page' = page
        /\ hasRoute' = hasRoute /\ failed' = TRUE /\ missed' = missed
        /\ nestedIn' = nestedIn /\ prefix' = prefix
    BY DEF RenderRoutePanics, Turn
  <1>2. dirty = {} /\ Side \subseteq pass /\ Side \subseteq pass' /\ hasRoute
    BY <1>1, ScopeFacts DEF StructInv, RouteFirst, WithoutRoute, Waiting, ScopeTypes
  <1>3. \A s : Shown(s)' <=> Shown(s)
    BY <1>1 DEF Shown
  <1>4. Route \notin Waiting' /\ Waiting' \subseteq Waiting /\ Side \subseteq Waiting'
    BY <1>1, <1>2 DEF Waiting
  <1>5. ScopeTypes'
    BY <1>1 DEF StructInv, ScopeTypes
  <1>6. WithoutRoute' /\ RouteFirst' /\ MarksRoute' /\ InnerAlone'
    BY <1>1, <1>2 DEF WithoutRoute, RouteFirst, MarksRoute, InnerAlone
  <1>7. SidesRender' /\ FirstRender' /\ LaterRender' /\ RouteRenders'
    BY <1>1, <1>4 DEF SidesRender, FirstRender, LaterRender, RouteRenders
  <1>8. InnerInRoute'
    BY <1>3, <1>4 DEF StructInv, InnerInRoute
  <1>9. InOrder'
    BY <1>1, <1>2 DEF InOrder
  <1>10. QED
    BY <1>5, <1>6, <1>7, <1>8, <1>9 DEF StructInv

\* A SubRoute that renders on its own.
SubStep(s, handler) ==
  /\ Turn(s) /\ s \in Scope \ {Route}
  /\ s \in Side => handler # NoPage
  /\ page' = [page EXCEPT ![s] = handler]
  /\ pass' = pass \ {s} /\ dirty' = dirty
  /\ notFound' \in BOOLEAN
  /\ UNCHANGED <<hasRoute, failed, missed, nestedIn, prefix>>

\* So does a SubRoute that renders on its own.
LEMMA SubStepStruct ==
  ASSUME StructInv, NEW s, NEW handler, SubStep(s, handler)
  PROVE  StructInv'
  <1>1. /\ s \in pass /\ s \in Scope /\ s # Route /\ Route \notin pass
        /\ pass' = pass \ {s} /\ dirty' = dirty
        /\ hasRoute' = hasRoute /\ failed' = failed /\ missed' = missed
        /\ nestedIn' = nestedIn /\ prefix' = prefix
    BY ScopeFacts DEF SubStep, Turn
  <1>2. /\ page' = [x \in Scope |-> page'[x]]
        /\ \A x \in Scope \ {s} : Shown(x)' <=> Shown(x)
        /\ s \in Side => Shown(s)'
    BY <1>1 DEF SubStep, StructInv, ScopeTypes, Shown
  <1>3. Shown(Route)' <=> Shown(Route)
    BY <1>1, <1>2, ScopeFacts
  <1>4. ScopeTypes'
    BY <1>1, <1>2 DEF SubStep, StructInv, ScopeTypes
  <1>5. Waiting = Waiting' \union {s} /\ (Route \in Waiting' => Route \in dirty)
    BY <1>1 DEF Waiting
  <1>6. WithoutRoute'
    <2>1. CASE ~hasRoute
      <3>1. s # Inner
        BY <1>5, <2>1 DEF StructInv, WithoutRoute
      <3>2. Shown(Inner)' <=> Shown(Inner)
        BY <1>2, <3>1, ScopeFacts
      <3>3. QED
        BY <1>1, <1>3, <1>5, <3>2 DEF StructInv, WithoutRoute
    <2>2. QED
      BY <1>1, <2>1 DEF WithoutRoute
  <1>7. RouteFirst' /\ MarksRoute' /\ InnerAlone'
    BY <1>1, <1>3 DEF StructInv, RouteFirst, MarksRoute, InnerAlone
  <1>8. SidesRender'
    BY <1>2, <1>5, ScopeFacts DEF StructInv, SidesRender
  <1>9. FirstRender'
    <2>1. ASSUME Route \in Waiting', ~Shown(Route) PROVE FALSE
      BY <1>1, <1>5, <2>1 DEF StructInv, FirstRender
    <2>2. QED
      BY <1>3, <2>1 DEF FirstRender
  <1>10. LaterRender'
    <2>1. ASSUME Route \in Waiting', Shown(Route) PROVE \A i \in Side : Shown(i)'
      BY <1>2, <1>5, <2>1, ScopeFacts DEF StructInv, LaterRender
    <2>2. QED
      BY <1>3, <2>1 DEF LaterRender
  <1>11. InnerInRoute'
    <2>1. ASSUME Shown(Inner)' \/ Inner \in Waiting' PROVE Shown(Route)
      BY <1>2, <1>5, <2>1, ScopeFacts DEF StructInv, InnerInRoute
    <2>2. QED
      BY <1>3, <2>1 DEF InnerInRoute
  <1>12. RouteRenders'
    BY <1>1, <1>3, <1>5 DEF StructInv, RouteRenders
  <1>13. InOrder'
    <2>1. ASSUME NEW i \in Side, NEW j \in Side, i \in pass', i < j PROVE j # s
      <3>1. s <= i
        BY <1>1, <2>1 DEF SubStep, Turn
      <3>2. ~(j <= i)
        BY <2>1 DEF Side
      <3>3. QED
        BY <3>1, <3>2
    <2>2. QED
      BY <1>1, <2>1 DEF StructInv, InOrder
  <1>14. QED
    BY <1>4, <1>6, <1>7, <1>8, <1>9, <1>10, <1>11, <1>12, <1>13 DEF StructInv

-----------------------------------------------------------------------------
(* What the scopes show *)

\* The names that Route and the SubRoutes inside it capture.
RouteNames == Names(Routes) \union UNION {Names(Nested[r]) : r \in DOMAIN Nested}

\* The routes of every scope are patterns, none of which is a page without a handler.
LEMMA RoutesTypes ==
  ASSUME RouterAssumption, PagesAssumption
  PROVE  /\ Routes \in Seq(Pattern) /\ HasNoPage(Routes)
         /\ \A i \in Side : /\ Sides[i - 2].prefix \in Seq(STRING)
                            /\ Sides[i - 2].routes \in Seq(Pattern) /\ HasNoPage(Sides[i - 2].routes)
         /\ \A r \in DOMAIN Nested : /\ Nested[r] \in Seq(Pattern) /\ r # NoPage
                                     /\ Names(Nested[r]) \subseteq RouteNames
         /\ Names(Routes) \subseteq RouteNames
  <1>1. Routes \in Seq(Pattern) /\ HasNoPage(Routes)
    BY DEF RouterAssumption, PagesAssumption, Pattern, HasNoPage
  <1>2. ASSUME NEW i \in Side
        PROVE  /\ Sides[i - 2].prefix \in Seq(STRING)
               /\ Sides[i - 2].routes \in Seq(Pattern) /\ HasNoPage(Sides[i - 2].routes)
    <2> DEFINE Record == [prefix : Seq(STRING), routes : Seq(Seq(STRING))]
    <2>1. Sides \in Seq(Record)
      BY DEF RouterAssumption
    <2> HIDE DEF Record
    <2>2. PICK k \in DOMAIN Sides : k = i - 2
      BY <2>1 DEF Side
    <2> DEFINE s == Sides[i - 2]
    <2>3. s \in Record /\ s \in ToSet(Sides)
      <3>1. Sides[k] \in Record
        BY <2>1
      <3>2. Sides[k] \in ToSet(Sides)
        BY DEF ToSet
      <3>3. QED
        BY <2>2, <3>1, <3>2
    <2> HIDE DEF s
    <2>4. s.prefix \in Seq(STRING) /\ s.routes \in Seq(Pattern)
      BY <2>3 DEF Pattern, Record
    <2>5. HasNoPage(s.routes)
      BY <2>3 DEF PagesAssumption, HasNoPage
    <2>6. QED
      BY <2>4, <2>5 DEF s
  <1>3. \A r \in DOMAIN Nested : Nested[r] \in Seq(Pattern)
    BY DEF RouterAssumption, Pattern
  <1>4. \A r \in DOMAIN Nested : r # NoPage
    BY <1>1 DEF RouterAssumption, HasNoPage
  <1>5. /\ \A r \in DOMAIN Nested : Names(Nested[r]) \subseteq RouteNames
        /\ Names(Routes) \subseteq RouteNames
    BY DEF RouteNames
  <1>6. QED
    BY <1>1, <1>2, <1>3, <1>4, <1>5

\* A SubRoute resolves the rest of the path, or nothing when the path is not below its prefix.
LEMMA SubResolveFacts ==
  ASSUME NEW p \in Seq(Segment), NEW pre, Len(pre) \in Nat, NEW routes \in Seq(Pattern)
  PROVE  /\ SubResolve(p, pre, routes).missing \in BOOLEAN
         /\ HasNoPage(routes) => SubResolve(p, pre, routes).handler # NoPage
         /\ Captures(SubResolve(p, pre, routes).params, Names(routes))
  <1>1. CASE IsPrefix(pre, p)
    <2> DEFINE t == SubSeq(p, Len(pre) + 1, Len(p))
    <2>1. Len(pre) <= Len(p)
      BY <1>1 DEF IsPrefix
    <2>2. t \in Seq(Segment)
      BY <2>1
    <2>3. SubResolve(p, pre, routes) = Resolve(routes, t)
      BY <1>1 DEF SubResolve
    <2> HIDE DEF t
    <2>4. QED
      BY <2>2, <2>3, ResolveFacts
  <1>2. CASE ~IsPrefix(pre, p)
    <2>1. SubResolve(p, pre, routes) = Outside
      BY <1>2 DEF SubResolve
    <2>2. /\ Outside.handler # NoPage /\ Outside.missing = FALSE /\ Outside.params = NoParams
      BY DEF Outside, BuiltinPage, NoPage
    <2>3. QED
      BY <2>1, <2>2, NoParamsCaptures
  <1>3. QED
    BY <1>1, <1>2

\* So does a standalone SubRoute, with parameters of its own.
LEMMA SideFacts ==
  ASSUME RouterAssumption, PagesAssumption, path \in Seq(Segment), NEW i \in Side
  PROVE  /\ SideOutcome(i).missing \in BOOLEAN
         /\ SideOutcome(i).handler # NoPage
         /\ Captures(SideOutcome(i).params, SideNames(i))
  <1>1. /\ Sides[i - 2].prefix \in Seq(STRING)
        /\ Sides[i - 2].routes \in Seq(Pattern) /\ HasNoPage(Sides[i - 2].routes)
    BY RoutesTypes
  <1>3. Len(Sides[i - 2].prefix) \in Nat
    BY <1>1
  <1>2. QED
    BY <1>1, <1>3, SubResolveFacts DEF SideOutcome, SideNames

RouteParamsNow == IF hasRoute THEN Resolve(Routes, path).params ELSE NoParams
RouteOutcome == Over(NestedOutcome.params, RouteParamsNow)

\* g has what f has for k.
Holds(f, g, k) == k \in DOMAIN g /\ g[k] = f[k]

\* An assignment after another.
LEMMA Overrides ==
  ASSUME NEW f, NEW g
  PROVE  /\ DOMAIN Over(f, g) = DOMAIN f \union DOMAIN g
         /\ \A k \in DOMAIN f : Over(f, g)[k] = f[k]
         /\ \A k \in DOMAIN g \ DOMAIN f : Over(f, g)[k] = g[k]
         /\ Over(f, g) = [k \in DOMAIN f \union DOMAIN g |-> Over(f, g)[k]]
  BY DEF Over

\* Parameters added to parameters are parameters.
LEMMA OverrideCaptures ==
  ASSUME NEW f, NEW g, NEW A, NEW B, Captures(f, A), Captures(g, B)
  PROVE  Captures(Over(f, g), A \union B)
  <1> DEFINE h == Over(f, g)
  <1>1. /\ DOMAIN h = DOMAIN f \union DOMAIN g
        /\ \A k \in DOMAIN f : h[k] = f[k]
        /\ \A k \in DOMAIN g \ DOMAIN f : h[k] = g[k]
        /\ h = [k \in DOMAIN f \union DOMAIN g |-> h[k]]
    BY Overrides
  <1> HIDE DEF h
  <1>2. /\ \A k \in DOMAIN f : f[k] \in STRING \ {Blank}
        /\ \A k \in DOMAIN g : g[k] \in STRING \ {Blank}
        /\ DOMAIN f \subseteq A /\ DOMAIN g \subseteq B
        /\ IsFiniteSet(DOMAIN f) /\ IsFiniteSet(DOMAIN g)
    BY DEF Captures
  <1>3. \A k \in DOMAIN f \union DOMAIN g : h[k] \in STRING \ {Blank}
    BY <1>1, <1>2
  <1>4. h \in [DOMAIN h -> STRING \ {Blank}]
    BY <1>1, <1>3
  <1>5. IsFiniteSet(DOMAIN h)
    <2>1. IsFiniteSet(DOMAIN f \union DOMAIN g)
      BY <1>2, FS_Union
    <2>2. QED
      BY <1>1, <2>1
  <1>6. QED
    BY <1>1, <1>2, <1>4, <1>5 DEF Captures, h

\* merge takes away the old keys and adds the new ones, and touches nothing else.
LEMMA MergeFacts ==
  ASSUME NEW f, NEW keys, NEW g, NEW names, NEW A,
         Captures(f, A), Captures(g, names), names \subseteq A
  PROVE  /\ Captures(Merge(f, keys, g), A)
         /\ \A k \in DOMAIN g : Holds(g, Merge(f, keys, g), k)
         /\ \A k \in DOMAIN f \ (keys \union DOMAIN g) : Holds(f, Merge(f, keys, g), k)
         /\ \A k \in DOMAIN Merge(f, keys, g) :
              \/ Holds(Merge(f, keys, g), g, k)
              \/ k \notin keys /\ Holds(Merge(f, keys, g), f, k)
  <1> DEFINE r == [k \in DOMAIN f \ keys |-> f[k]]
             h == Over(g, r)
  <1>1. Merge(f, keys, g) = h
    BY DEF Merge
  <1>2. /\ f \in [DOMAIN f -> STRING \ {Blank}] /\ IsFiniteSet(DOMAIN f) /\ DOMAIN f \subseteq A
        /\ DOMAIN g \subseteq names
    BY DEF Captures
  <1>3. DOMAIN r = DOMAIN f \ keys /\ \A k \in DOMAIN r : r[k] = f[k]
    OBVIOUS
  <1>4. r \in [DOMAIN f \ keys -> STRING \ {Blank}]
    BY <1>2
  <1>5. IsFiniteSet(DOMAIN r)
    <2>1. DOMAIN r \in SUBSET DOMAIN f
      BY <1>3
    <2>2. QED
      BY <1>2, <2>1, FS_Subset
  <1> HIDE DEF r
  <1>6. Captures(r, A)
    BY <1>2, <1>3, <1>4, <1>5 DEF Captures
  <1>7. names \union A = A
    OBVIOUS
  <1>8. Captures(h, A)
    BY <1>6, <1>7, OverrideCaptures
  <1>9. /\ DOMAIN h = DOMAIN g \union DOMAIN r
        /\ \A k \in DOMAIN g : h[k] = g[k]
        /\ \A k \in DOMAIN r \ DOMAIN g : h[k] = r[k]
    <2>1. /\ DOMAIN Over(g, r) = DOMAIN g \union DOMAIN r
          /\ \A k \in DOMAIN g : Over(g, r)[k] = g[k]
          /\ \A k \in DOMAIN r \ DOMAIN g : Over(g, r)[k] = r[k]
          /\ Over(g, r) = [k \in DOMAIN g \union DOMAIN r |-> Over(g, r)[k]]
      BY Overrides
    <2>2. QED
      BY <2>1
  <1> HIDE DEF h
  <1>10. \A k \in DOMAIN g : Holds(g, h, k)
    BY <1>9 DEF Holds
  <1>11. \A k \in DOMAIN f \ (keys \union DOMAIN g) : Holds(f, h, k)
    BY <1>3, <1>9 DEF Holds
  <1>12. \A k \in DOMAIN h : Holds(h, g, k) \/ (k \notin keys /\ Holds(h, f, k))
    BY <1>3, <1>9 DEF Holds
  <1>13. QED
    BY <1>1, <1>8, <1>10, <1>11, <1>12

\* The nested SubRoute has the parameters of the routes inside Route.
LEMMA NestedFacts ==
  ASSUME RouterAssumption, PagesAssumption, path \in Seq(Segment), ScopeTypes
  PROVE  /\ NestedOutcome.missing \in BOOLEAN
         /\ Captures(NestedOutcome.params, RouteNames)
  <1>1. CASE nestedIn = NoPage
    <2>1. NestedOutcome.missing = FALSE /\ NestedOutcome.params = NoParams
      BY <1>1 DEF NestedOutcome, Outside
    <2>2. QED
      BY <2>1, NoParamsCaptures
  <1>2. CASE nestedIn # NoPage
    <2>1. nestedIn \in DOMAIN Nested /\ Len(prefix) \in Nat
      BY <1>2 DEF ScopeTypes
    <2>2. Nested[nestedIn] \in Seq(Pattern) /\ Names(Nested[nestedIn]) \subseteq RouteNames
      BY <2>1, RoutesTypes
    <2>3. NestedOutcome = SubResolve(path, prefix, Nested[nestedIn])
      BY <1>2 DEF NestedOutcome
    <2>4. /\ NestedOutcome.missing \in BOOLEAN
          /\ Captures(NestedOutcome.params, Names(Nested[nestedIn]))
      BY <2>1, <2>2, <2>3, SubResolveFacts
    <2>5. QED
      BY <2>2, <2>4 DEF Captures
  <1>3. QED
    BY <1>1, <1>2

AllNames == RouteNames \union UNION {SideNames(i) : i \in Side}

ParamTypes ==
  /\ Captures(params, AllNames)
  /\ lastKeys = [s \in Scope |-> lastKeys[s]]
  /\ \A i \in Side : lastKeys[i] \subseteq SideNames(i)

\* Route has rendered for the current path, and nothing went wrong.
RouteIsFit == hasRoute /\ Route \notin Waiting /\ ~failed /\ ~missed

SideFits(i) ==
  /\ page[i] = SideOutcome(i).handler
  /\ lastKeys[i] = DOMAIN SideOutcome(i).params
SidesFit == \A i \in Side \ Waiting : SideFits(i)

RoutePage == RouteIsFit => page[Route] \in GuardedPages(Resolve(Routes, path).handler)

\* Every parameter is what Route or a SubRoute captures, or a SubRoute will take it away.
NoneLeft ==
  \A k \in DOMAIN params :
    \/ Holds(params, RouteOutcome, k)
    \/ \E s \in Side \ Waiting : Holds(params, SideOutcome(s).params, k)
    \/ \E s \in Side \intersect Waiting : k \in lastKeys[s]

\* What Route or a SubRoute captures is there, or a later SubRoute has the name as well.
NoneMissing ==
  /\ \A k \in DOMAIN RouteOutcome : Holds(RouteOutcome, params, k) \/ k \in TakenAfter(Route)
  /\ \A s \in Side \ Waiting : \A k \in DOMAIN SideOutcome(s).params :
       Holds(SideOutcome(s).params, params, k) \/ k \in TakenAfter(s)

ParamsFit == RouteIsFit \/ ~hasRoute => NoneLeft /\ NoneMissing

MissFits ==
  RouteIsFit =>
    notFound = (\/ Resolve(Routes, path).missing
                \/ NestedOutcome.missing
                \/ \E i \in Side \ Waiting : SideOutcome(i).missing)

FitInv == ParamTypes /\ SidesFit /\ RoutePage /\ ParamsFit /\ MissFits

\* Parameters of some names are parameters of more names.
LEMMA WiderCaptures ==
  ASSUME NEW f, NEW A, NEW B, Captures(f, A), A \subseteq B
  PROVE  Captures(f, B)
  BY DEF Captures

\* The names a scope captures are among all of them, and those of a later SubRoute are taken.
LEMMA NamesFacts ==
  /\ RouteNames \subseteq AllNames
  /\ \A i \in Side : SideNames(i) \subseteq AllNames
  /\ \A i \in Side : SideNames(i) \subseteq TakenAfter(Route)
  /\ \A i, j \in Side : i < j => SideNames(j) \subseteq TakenAfter(i)
  <1>1. \A i \in Side : i > Route
    BY DEF Side, Route
  <1>2. \A s : \A i \in Side : i > s => SideNames(i) \subseteq TakenAfter(s)
    BY DEF TakenAfter
  <1>3. \A i, j \in Side : i < j => j > i
    BY DEF Side
  <1>4. QED
    BY <1>1, <1>2, <1>3 DEF AllNames

\* What a scope should show depends on the path and on how it was mounted.
LEMMA OutcomeSame ==
  ASSUME path' = path, nestedIn' = nestedIn, prefix' = prefix, hasRoute' = hasRoute
  PROVE  /\ \A i : SideOutcome(i)' = SideOutcome(i)
         /\ NestedOutcome' = NestedOutcome
         /\ RouteOutcome' = RouteOutcome
         /\ Resolve(Routes, path)' = Resolve(Routes, path)
  <1>1. Resolve(Routes, path)' = Resolve(Routes, path)
    OBVIOUS
  <1>2. \A i : SideOutcome(i)' = SideOutcome(i)
    BY DEF SideOutcome
  <1>3. NestedOutcome' = NestedOutcome
    BY DEF NestedOutcome
  <1>4. RouteParamsNow' = RouteParamsNow
    BY DEF RouteParamsNow
  <1>5. RouteOutcome' = RouteOutcome
    BY <1>3, <1>4 DEF RouteOutcome
  <1>6. QED
    BY <1>1, <1>2, <1>3, <1>5

\* Nothing a property reads has changed.
FitSame ==
  /\ UNCHANGED <<path, params, notFound, page, lastKeys, prefix, nestedIn, hasRoute, failed, missed>>
  /\ Waiting' = Waiting

\* Scopes that fit the path still do when nothing they depend on changes.
LEMMA FitSameFits ==
  ASSUME FitInv, FitSame
  PROVE  FitInv'
  <1>1. /\ path' = path /\ params' = params /\ notFound' = notFound /\ page' = page
        /\ lastKeys' = lastKeys /\ prefix' = prefix /\ nestedIn' = nestedIn
        /\ hasRoute' = hasRoute /\ failed' = failed /\ missed' = missed /\ Waiting' = Waiting
    BY DEF FitSame
  <1>2. /\ \A i : SideOutcome(i)' = SideOutcome(i)
        /\ NestedOutcome' = NestedOutcome
        /\ RouteOutcome' = RouteOutcome
        /\ Resolve(Routes, path)' = Resolve(Routes, path)
    BY <1>1, OutcomeSame
  <1>3. RouteIsFit' = RouteIsFit
    BY <1>1 DEF RouteIsFit
  <1>4. ParamTypes'
    BY <1>1 DEF FitInv, ParamTypes, Captures
  <1>5. SidesFit'
    <2>1. \A i : SideFits(i)' <=> SideFits(i)
      BY <1>1, <1>2 DEF SideFits
    <2>2. QED
      BY <1>1, <2>1 DEF FitInv, SidesFit
  <1>6. RoutePage'
    BY <1>1, <1>2, <1>3 DEF FitInv, RoutePage
  <1>7. ParamsFit'
    <2>1. NoneLeft' <=> NoneLeft
      BY <1>1, <1>2 DEF NoneLeft, Holds
    <2>2. NoneMissing' <=> NoneMissing
      BY <1>1, <1>2 DEF NoneMissing, Holds
    <2>3. QED
      BY <1>1, <1>3, <2>1, <2>2 DEF FitInv, ParamsFit
  <1>8. MissFits'
    BY <1>1, <1>2, <1>3 DEF FitInv, MissFits
  <1>9. QED
    BY <1>4, <1>5, <1>6, <1>7, <1>8 DEF FitInv

\* An application without Route has nothing of it to keep up with the path.
LEMMA NoRouteOutcome ==
  ASSUME ~hasRoute, nestedIn = NoPage
  PROVE  DOMAIN RouteOutcome = {}
  <1>1. NestedOutcome.params = NoParams /\ RouteParamsNow = NoParams
    BY DEF NestedOutcome, Outside, RouteParamsNow
  <1>2. DOMAIN NoParams = {}
    BY DEF NoParams
  <1>3. QED
    BY <1>1, <1>2 DEF RouteOutcome, Over

\* A page that has just been loaded shows nothing yet, which fits.
LEMMA FreshFits ==
  ASSUME Fresh
  PROVE  FitInv
  <1>1. /\ Side \subseteq dirty /\ hasRoute => Route \in dirty
        /\ hasRoute \in BOOLEAN
        /\ params = NoParams /\ nestedIn = NoPage /\ lastKeys = [s \in Scope |-> {}]
    BY ScopeFacts DEF Fresh
  <1>2. ParamTypes
    <2>1. Captures(params, AllNames)
      BY <1>1, NoParamsCaptures
    <2>2. QED
      BY <1>1, <2>1, ScopeFacts DEF ParamTypes
  <1>3. DOMAIN params = {}
    BY <1>1 DEF NoParams
  <1>4. ~RouteIsFit /\ Side \ Waiting = {}
    BY <1>1, ScopeFacts DEF RouteIsFit, Waiting, Fresh
  <1>5. ParamsFit
    <2>1. ASSUME ~hasRoute PROVE NoneLeft /\ NoneMissing
      <3>1. DOMAIN RouteOutcome = {}
        BY <1>1, <2>1, NoRouteOutcome
      <3>2. QED
        BY <1>3, <1>4, <3>1 DEF NoneLeft, NoneMissing
    <2>2. QED
      BY <1>4, <2>1 DEF ParamsFit
  <1>6. SidesFit /\ RoutePage /\ MissFits
    BY <1>4 DEF SidesFit, RoutePage, MissFits
  <1>7. QED
    BY <1>2, <1>5, <1>6 DEF FitInv

\* A navigation marks every scope that no longer fits the path.
LEMMA PathStepFits ==
  ASSUME StructInv, FitInv, PathStep
  PROVE  FitInv'
  <1>1. /\ pass = {} /\ pass' = pass /\ params' = params /\ notFound' = notFound /\ page' = page
        /\ lastKeys' = lastKeys /\ prefix' = prefix /\ nestedIn' = nestedIn
        /\ hasRoute' = hasRoute /\ failed' = failed /\ missed' = missed
        /\ dirty' = IF path' = path THEN dirty ELSE dirty \union {s \in Scope : Shown(s)}
    BY MountedShown DEF PathStep, DirtyAfter, StructInv
  <1>2. CASE path' = path
    <2>1. Waiting' = Waiting
      BY <1>1, <1>2 DEF Waiting
    <2>2. FitSame
      BY <1>1, <1>2, <2>1 DEF FitSame
    <2>3. QED
      BY <2>2, FitSameFits
  <1>3. CASE path' # path
    <2>1. Waiting' = dirty \union {s \in Scope : Shown(s)} /\ Waiting = dirty
      BY <1>1, <1>3 DEF Waiting
    <2>2. Side \ Waiting' = {}
      BY <2>1, ScopeFacts DEF StructInv, SidesRender
    <2>3. ~RouteIsFit'
      <3>1. ASSUME hasRoute, ~failed PROVE Route \in Waiting'
        BY <2>1, <3>1, ScopeFacts DEF StructInv, RouteRenders
      <3>2. QED
        BY <1>1, <3>1 DEF RouteIsFit
    <2>4. ParamTypes'
      BY <1>1 DEF FitInv, ParamTypes, Captures
    <2>5. SidesFit' /\ RoutePage' /\ MissFits'
      BY <2>2, <2>3 DEF SidesFit, RoutePage, MissFits
    <2>6. ParamsFit'
      <3>1. ASSUME ~hasRoute PROVE NoneLeft' /\ NoneMissing'
        <4>1. nestedIn = NoPage
          BY <3>1 DEF StructInv, WithoutRoute
        <4>2. DOMAIN RouteOutcome = {} /\ (DOMAIN RouteOutcome)' = {}
          <5>1. DOMAIN RouteOutcome = {}
            BY <3>1, <4>1, NoRouteOutcome
          <5>2. RouteOutcome' = RouteOutcome
            <6>1. NestedOutcome' = Outside /\ NestedOutcome = Outside
              BY <1>1, <4>1 DEF NestedOutcome
            <6>2. RouteParamsNow' = NoParams /\ RouteParamsNow = NoParams
              BY <1>1, <3>1 DEF RouteParamsNow
            <6>3. QED
              BY <6>1, <6>2 DEF RouteOutcome
          <5>3. QED
            BY <5>1, <5>2
        \* What a SubRoute captured it takes away when it renders again.
        <4>3. ASSUME NEW k \in DOMAIN params PROVE \E s \in Side \intersect Waiting' : k \in lastKeys[s]
          <5>1. \/ \E s \in Side \ Waiting : Holds(params, SideOutcome(s).params, k)
                \/ \E s \in Side \intersect Waiting : k \in lastKeys[s]
            BY <3>1, <4>2 DEF FitInv, ParamsFit, NoneLeft, Holds
          <5>2. \A s \in Side \ Waiting : lastKeys[s] = DOMAIN SideOutcome(s).params
            BY DEF FitInv, SidesFit, SideFits
          <5>3. QED
            BY <2>2, <5>1, <5>2 DEF Holds
        <4>4. QED
          BY <1>1, <2>2, <4>2, <4>3 DEF NoneLeft, NoneMissing
      <3>2. QED
        BY <1>1, <2>3, <3>1 DEF ParamsFit
    <2>7. QED
      BY <2>4, <2>5, <2>6 DEF FitInv
  <1>4. QED
    BY <1>2, <1>3

\* What Route resolves the path to.
LEMMA RouteResolves ==
  ASSUME RouterAssumption, PagesAssumption, path \in Seq(Segment)
  PROVE  /\ Resolve(Routes, path).missing \in BOOLEAN
         /\ Resolve(Routes, path).handler # NoPage
         /\ Captures(Resolve(Routes, path).params, RouteNames)
  <1>1. Routes \in Seq(Pattern) /\ HasNoPage(Routes) /\ Names(Routes) \subseteq RouteNames
    BY RoutesTypes
  <1>2. Captures(Resolve(Routes, path).params, Names(Routes))
    BY <1>1, ResolveFacts
  <1>3. QED
    BY <1>1, <1>2, ResolveFacts, WiderCaptures

\* What the SubRoute inside a page contributes.
InnerOutcome(shown, p) ==
  IF shown \in DOMAIN Nested THEN SubResolve(p, NestedPrefix(shown), Nested[shown]) ELSE Outside

\* What the SubRoute inside a page resolves the path to.
LEMMA InnerFacts ==
  ASSUME RouterAssumption, PagesAssumption, path \in Seq(Segment), NEW p \in Seq(Segment), NEW shown
  PROVE  /\ InnerOutcome(shown, p).missing \in BOOLEAN
         /\ Captures(InnerOutcome(shown, p).params, RouteNames)
         /\ shown \in DOMAIN Nested => Len(NestedPrefix(shown)) \in Nat /\ shown # NoPage
  <1>1. CASE shown \in DOMAIN Nested
    <2>1. Nested[shown] \in Seq(Pattern) /\ Names(Nested[shown]) \subseteq RouteNames /\ shown # NoPage
      BY <1>1, RoutesTypes
    <2>2. shown \in Pattern
      <3>1. shown \in ToSet(Routes) /\ Routes \in Seq(Pattern)
        BY <1>1, RoutesTypes DEF RouterAssumption
      <3>2. QED
        BY <3>1 DEF ToSet
    <2>3. Len(NestedPrefix(shown)) \in Nat
      <3>1. Len(Segments(shown)) \in Nat
        BY <2>2, SegmentsType
      <3>2. QED
        BY <3>1 DEF NestedPrefix
    <2> DEFINE pre == NestedPrefix(shown)
               routes == Nested[shown]
    <2>4. InnerOutcome(shown, p) = SubResolve(p, pre, routes)
      BY <1>1 DEF InnerOutcome
    <2> HIDE DEF pre, routes
    <2>5. Len(pre) \in Nat /\ routes \in Seq(Pattern) /\ Names(routes) \subseteq RouteNames
      BY <2>1, <2>3 DEF pre, routes
    <2>6. SubResolve(p, pre, routes).missing \in BOOLEAN /\ Captures(SubResolve(p, pre, routes).params, Names(routes))
      BY <2>5, SubResolveFacts
    <2>7. Captures(SubResolve(p, pre, routes).params, RouteNames)
      BY <2>5, <2>6, WiderCaptures
    <2>8. QED
      BY <2>1, <2>3, <2>4, <2>6, <2>7
  <1>2. CASE shown \notin DOMAIN Nested
    <2>1. InnerOutcome(shown, p) = Outside
      BY <1>2 DEF InnerOutcome
    <2>2. Outside.missing = FALSE /\ Outside.params = NoParams
      BY DEF Outside
    <2>3. QED
      BY <1>2, <2>1, <2>2, NoParamsCaptures
  <1>3. QED
    BY <1>1, <1>2

\* A render of Route and of the SubRoute inside it, as the properties see it.
RouteRender(shown, p) ==
  /\ RouteStep(shown, IF shown \in DOMAIN Nested THEN InnerOutcome(shown, p).handler ELSE NoPage, p)
  /\ path' = p /\ p \in Seq(Segment)
  /\ shown \in GuardedPages(Resolve(Routes, path).handler)
  /\ params' = Over(InnerOutcome(shown, p).params, Resolve(Routes, path).params)
  /\ notFound' = (Resolve(Routes, path).missing \/ InnerOutcome(shown, p).missing)
  /\ lastKeys' = [lastKeys EXCEPT ![Inner] = DOMAIN InnerOutcome(shown, p).params]
  /\ prefix' = IF shown \in DOMAIN Nested THEN NestedPrefix(shown) ELSE <<>>
  /\ nestedIn' = IF shown \in DOMAIN Nested THEN shown ELSE NoPage

\* After a render Route and the SubRoute inside it fit the path, unless the handler left it.
LEMMA RouteRenderFits ==
  ASSUME RouterAssumption, PagesAssumption, StructInv, FitInv, path \in Seq(Segment),
         NEW shown, NEW p, RouteRender(shown, p)
  PROVE  FitInv'
  <1> DEFINE r == Resolve(Routes, path)
             sub == InnerOutcome(shown, p)
  <1>1. /\ path' = p /\ p \in Seq(Segment)
        /\ params' = Over(sub.params, r.params)
        /\ notFound' = (r.missing \/ sub.missing)
        /\ lastKeys' = [lastKeys EXCEPT ![Inner] = DOMAIN sub.params]
        /\ prefix' = (IF shown \in DOMAIN Nested THEN NestedPrefix(shown) ELSE <<>>)
        /\ nestedIn' = (IF shown \in DOMAIN Nested THEN shown ELSE NoPage)
        /\ shown \in GuardedPages(r.handler)
    BY DEF RouteRender
  <1>2. /\ Captures(r.params, RouteNames) /\ Captures(sub.params, RouteNames)
        /\ shown \in DOMAIN Nested => shown # NoPage
    BY <1>1, RouteResolves, InnerFacts
  <1>3. /\ Route \in pass /\ pass' = pass \ {Route, Inner} /\ hasRoute' = hasRoute
        /\ p # path => dirty' = (dirty \union Mounted) \ {Inner}
        /\ missed' = (p # path /\ Route \notin Mounted)
        /\ page' = [page EXCEPT ![Route] = shown,
                                ![Inner] = IF shown \in DOMAIN Nested THEN sub.handler ELSE NoPage]
    BY DEF RouteRender, RouteStep
  <1>4. /\ Side \subseteq Waiting' /\ dirty = {} /\ hasRoute
    BY <1>3, ScopeFacts DEF StructInv, RouteFirst, WithoutRoute, Waiting
  <1>5. RouteIsFit' => p = path
    <2>1. ASSUME p # path, ~missed' PROVE Route \in Waiting'
      <3>1. Route \in Mounted
        BY <1>3, <2>1
      <3>2. QED
        BY <1>3, <2>1, <3>1, ScopeFacts DEF Waiting
    <2>2. QED
      BY <2>1 DEF RouteIsFit
  <1>6. Captures(params', RouteNames)
    <2>1. RouteNames \union RouteNames = RouteNames
      OBVIOUS
    <2> HIDE DEF r, sub
    <2>2. QED
      BY <1>1, <1>2, <2>1, OverrideCaptures
  <1>7. page'[Route] = shown
    BY <1>3, ScopeFacts DEF StructInv, ScopeTypes
  <1>8. NestedOutcome' = sub
    BY <1>1, <1>2 DEF NestedOutcome, InnerOutcome
  <1>9. p = path => Resolve(Routes, path)' = r /\ RouteOutcome' = params'
    BY <1>1, <1>3, <1>4, <1>8 DEF RouteOutcome, RouteParamsNow
  <1>10. ParamTypes'
    <2>1. Captures(params', AllNames)
      BY <1>6, NamesFacts, WiderCaptures
    <2>2. /\ lastKeys' = [s \in Scope |-> lastKeys'[s]]
          /\ \A i \in Side : lastKeys'[i] = lastKeys[i]
      <3> HIDE DEF sub
      <3> QED
        BY <1>1, ScopeFacts DEF FitInv, ParamTypes
    <2>3. QED
      BY <2>1, <2>2 DEF FitInv, ParamTypes, Captures
  <1>11. Side \ Waiting' = {}
    BY <1>4
  <1>12. SidesFit'
    BY <1>11 DEF SidesFit
  <1>13. RoutePage'
    BY <1>1, <1>5, <1>7, <1>9 DEF RoutePage
  <1>14. ParamsFit'
    <2>1. ASSUME p = path PROVE NoneLeft' /\ NoneMissing'
      BY <1>9, <1>11, <2>1 DEF NoneLeft, NoneMissing, Holds
    <2>2. QED
      BY <1>3, <1>4, <1>5, <2>1 DEF ParamsFit
  <1>15. MissFits'
    BY <1>1, <1>4, <1>5, <1>8, <1>9 DEF MissFits
  <1>16. QED
    BY <1>10, <1>12, <1>13, <1>14, <1>15 DEF FitInv

\* A render that panics leaves every SubRoute waiting, and parameters of Route only.
LEMMA PanicFits ==
  ASSUME RouterAssumption, PagesAssumption, StructInv, FitInv, path \in Seq(Segment), RenderRoutePanics
  PROVE  FitInv' /\ notFound' \in BOOLEAN
  <1> DEFINE r == Resolve(Routes, path)
  <1>1. /\ params' = r.params /\ notFound' = r.missing
        /\ Route \in pass /\ pass' = pass \ {Route} /\ failed' = TRUE
        /\ lastKeys' = lastKeys /\ hasRoute' = hasRoute
    BY DEF RenderRoutePanics, Turn, RouteParams, RouteMissing
  <1>2. Captures(r.params, RouteNames) /\ r.missing \in BOOLEAN
    BY RouteResolves
  <1> HIDE DEF r
  <1>3. Side \subseteq Waiting' /\ hasRoute
    BY <1>1, ScopeFacts DEF StructInv, RouteFirst, WithoutRoute, Waiting
  <1>4. ParamTypes'
    <2>1. Captures(params', AllNames)
      BY <1>1, <1>2, NamesFacts, WiderCaptures
    <2>2. QED
      BY <1>1, <2>1 DEF FitInv, ParamTypes, Captures
  <1>5. SidesFit'
    BY <1>3 DEF SidesFit
  <1>6. RoutePage' /\ ParamsFit' /\ MissFits'
    BY <1>1, <1>3 DEF RoutePage, ParamsFit, MissFits, RouteIsFit
  <1>7. QED
    BY <1>1, <1>2, <1>4, <1>5, <1>6 DEF FitInv

\* What a SubRoute that renders on its own does to the parameters.
LEMMA SubParams ==
  ASSUME FitInv, NEW s, NEW sub, RenderSub(s, sub), NEW names,
         Captures(sub.params, names), names \subseteq AllNames
  PROVE  /\ Captures(params', AllNames)
         /\ \A k \in DOMAIN sub.params : Holds(sub.params, params', k)
         /\ \A k \in DOMAIN params \ (lastKeys[s] \union DOMAIN sub.params) : Holds(params, params', k)
         /\ \A k \in DOMAIN params' :
              \/ Holds(params', sub.params, k)
              \/ k \notin lastKeys[s] /\ Holds(params', params, k)
  <1> DEFINE keys == lastKeys[s]
             g == sub.params
             m == Merge(params, keys, g)
  <1>1. params' = SetMap(params, m)
    BY DEF RenderSub
  <1>2. Captures(params, AllNames) /\ Captures(g, names)
    BY DEF FitInv, ParamTypes
  <1> HIDE DEF keys, g
  <1>3. /\ Captures(m, AllNames)
        /\ \A k \in DOMAIN g : Holds(g, m, k)
        /\ \A k \in DOMAIN params \ (keys \union DOMAIN g) : Holds(params, m, k)
        /\ \A k \in DOMAIN m : Holds(m, g, k) \/ (k \notin keys /\ Holds(m, params, k))
    BY <1>2, MergeFacts
  <1> HIDE DEF m
  <1>4. params' = m
    BY <1>1, <1>2, <1>3, SetMapSets
  <1>5. QED
    BY <1>3, <1>4 DEF keys, g

\* While Route fits the path nothing is marked: what marks a SubRoute marks Route.
LEMMA RouteIsClean ==
  ASSUME StructInv, RouteIsFit
  PROVE  dirty = {}
  BY DEF StructInv, RouteRenders, MarksRoute, RouteIsFit, Waiting

\* A standalone SubRoute that renders fits the path, and spoils no other scope.
LEMMA SideRenderFits ==
  ASSUME RouterAssumption, PagesAssumption, StructInv, FitInv, path \in Seq(Segment),
         NEW i \in Side, RenderSide(i)
  PROVE  StructInv' /\ FitInv'
  <1> DEFINE sub == SideOutcome(i)
  <1>1. Turn(i) /\ RenderSub(i, sub)
    BY DEF RenderSide
  <1>2. /\ sub.missing \in BOOLEAN /\ sub.handler # NoPage
        /\ Captures(sub.params, SideNames(i))
    BY SideFacts
  <1> HIDE DEF sub
  <1>3. /\ lastKeys' = [lastKeys EXCEPT ![i] = DOMAIN sub.params]
        /\ notFound' = (notFound \/ sub.missing)
        /\ page' = [page EXCEPT ![i] = sub.handler]
        /\ pass' = pass \ {i} /\ path' = path /\ dirty' = dirty
        /\ prefix' = prefix /\ nestedIn' = nestedIn /\ hasRoute' = hasRoute
        /\ failed' = failed /\ missed' = missed
    BY <1>1 DEF RenderSub, userVars
  <1>4. SubStep(i, sub.handler)
    BY <1>1, <1>2, <1>3, ScopeFacts DEF SubStep, StructInv, ScopeTypes
  <1>5. /\ i \in pass /\ Route \notin pass
        /\ i \in Waiting /\ (Waiting = Waiting' \/ Waiting = Waiting' \union {i})
        /\ Waiting' \subseteq Waiting /\ (dirty = {} => i \notin Waiting')
    BY <1>1, <1>3, ScopeFacts DEF Turn, Waiting
  <1>6. /\ \A j : SideOutcome(j)' = SideOutcome(j)
        /\ NestedOutcome' = NestedOutcome /\ RouteOutcome' = RouteOutcome
        /\ Resolve(Routes, path)' = Resolve(Routes, path)
    BY <1>3, OutcomeSame
  <1>7. RouteIsFit' => RouteIsFit
    BY <1>3, <1>5, ScopeFacts DEF RouteIsFit
  <1>8. /\ Captures(params', AllNames)
        /\ \A k \in DOMAIN sub.params : Holds(sub.params, params', k)
        /\ \A k \in DOMAIN params \ (lastKeys[i] \union DOMAIN sub.params) : Holds(params, params', k)
        /\ \A k \in DOMAIN params' :
             Holds(params', sub.params, k) \/ (k \notin lastKeys[i] /\ Holds(params', params, k))
    <2>1. SideNames(i) \subseteq AllNames
      BY NamesFacts
    <2>2. QED
      BY <1>1, <1>2, <2>1, SubParams
  <1>9. DOMAIN sub.params \union lastKeys[i] \subseteq SideNames(i)
    BY <1>2 DEF Captures, FitInv, ParamTypes
  \* The SubRoutes that do not wait are the earlier ones.
  <1>10. \A j \in Side \ Waiting : j < i
    <2>1. \A j \in Side : j < i \/ j = i \/ i < j
      BY DEF Side
    <2>2. QED
      BY <1>5, <2>1 DEF StructInv, InOrder, Waiting
  <1>11. /\ lastKeys' = [s \in Scope |-> lastKeys'[s]]
         /\ lastKeys'[i] = DOMAIN sub.params
         /\ \A j \in Side \ {i} : lastKeys'[j] = lastKeys[j]
    BY <1>3, ScopeFacts DEF FitInv, ParamTypes
  <1>12. /\ page'[i] = sub.handler /\ page'[Route] = page[Route]
         /\ \A j \in Side \ {i} : page'[j] = page[j]
    BY <1>3, ScopeFacts DEF StructInv, ScopeTypes
  <1>13. ParamTypes'
    <2>1. DOMAIN sub.params \subseteq SideNames(i)
      BY <1>2 DEF Captures
    <2>2. QED
      BY <1>8, <1>11, <2>1 DEF FitInv, ParamTypes, Captures
  <1>14. Side \ Waiting' \subseteq (Side \ Waiting) \union {i}
    BY <1>5
  <1>15. SidesFit'
    <2>1. ASSUME NEW j \in Side \ Waiting' PROVE SideFits(j)'
      <3>1. CASE j = i
        BY <1>6, <1>11, <1>12, <3>1 DEF SideFits, sub
      <3>2. CASE j # i
        <4>1. SideFits(j)
          BY <1>5, <3>2 DEF FitInv, SidesFit
        <4>2. QED
          BY <1>6, <1>11, <1>12, <3>2, <4>1 DEF SideFits
      <3>3. QED
        BY <3>1, <3>2
    <2>2. QED
      BY <2>1 DEF SidesFit
  <1>16. RoutePage'
    BY <1>6, <1>7, <1>12 DEF FitInv, RoutePage
  <1>17. ParamsFit'
    <2>1. ASSUME RouteIsFit \/ ~hasRoute PROVE NoneLeft' /\ NoneMissing'
      <3>1. NoneLeft /\ NoneMissing
        BY <2>1 DEF FitInv, ParamsFit
      <3>2. i \in Waiting' => i \in dirty
        BY <1>3 DEF Waiting
      <3>3. NoneLeft'
        <4>1. ASSUME NEW k \in DOMAIN params'
              PROVE  \/ Holds(params', RouteOutcome, k)
                     \/ \E s \in Side \ Waiting' : Holds(params', SideOutcome(s).params, k)
                     \/ \E s \in Side \intersect Waiting' : k \in lastKeys'[s]
          <5>1. CASE Holds(params', sub.params, k)
            <6>1. k \in lastKeys'[i]
              BY <1>11, <5>1 DEF Holds
            <6>2. i \notin Waiting' => Holds(params', SideOutcome(i).params, k)
              BY <5>1 DEF sub
            <6>3. QED
              BY <6>1, <6>2
          <5>2. CASE k \notin lastKeys[i] /\ Holds(params', params, k)
            <6>1. k \in DOMAIN params /\ params'[k] = params[k]
              BY <5>2 DEF Holds
            <6>2. CASE Holds(params, RouteOutcome, k)
              BY <6>1, <6>2 DEF Holds
            <6>3. CASE \E s \in Side \ Waiting : Holds(params, SideOutcome(s).params, k)
              BY <1>5, <6>1, <6>3 DEF Holds
            <6>4. CASE \E s \in Side \intersect Waiting : k \in lastKeys[s]
              <7>1. PICK s \in Side \intersect Waiting : k \in lastKeys[s]
                BY <6>4
              <7>2. s # i
                BY <5>2, <7>1
              <7>3. s \in Waiting' /\ k \in lastKeys'[s]
                BY <1>5, <1>11, <7>1, <7>2
              <7>4. QED
                BY <7>3
            <6>5. QED
              BY <3>1, <6>1, <6>2, <6>3, <6>4 DEF NoneLeft
          <5>3. QED
            BY <1>8, <5>1, <5>2
        <4>2. QED
          BY <1>6, <4>1 DEF NoneLeft, Holds
      \* What this SubRoute takes away, of an earlier scope, has one of its own names.
      <3>4. ASSUME NEW f, NEW k \in DOMAIN f, NEW taken, SideNames(i) \subseteq taken,
                   Holds(f, params, k) \/ k \in taken
            PROVE  Holds(f, params', k) \/ k \in taken
        BY <1>8, <1>9, <3>4 DEF Holds
      <3>5. \A k \in DOMAIN RouteOutcome : Holds(RouteOutcome, params', k) \/ k \in TakenAfter(Route)
        <4>1. SideNames(i) \subseteq TakenAfter(Route)
          BY NamesFacts
        <4> DEFINE f == RouteOutcome
                   taken == TakenAfter(Route)
        <4>2. ASSUME NEW k \in DOMAIN f PROVE Holds(f, params, k) \/ k \in taken
          BY <3>1 DEF NoneMissing
        <4> HIDE DEF f, taken
        <4>3. SideNames(i) \subseteq taken
          BY <4>1 DEF taken
        <4>4. \A k \in DOMAIN f : Holds(f, params', k) \/ k \in taken
          BY <3>4, <4>2, <4>3
        <4>5. QED
          BY <4>4 DEF f, taken
      <3>6. ASSUME NEW s \in Side \ Waiting'
            PROVE  \A k \in DOMAIN SideOutcome(s).params :
                     Holds(SideOutcome(s).params, params', k) \/ k \in TakenAfter(s)
        <4>1. CASE s = i
          BY <1>8, <4>1 DEF sub
        <4>2. CASE s # i
          <5>1. s \in Side \ Waiting /\ s < i
            BY <1>10, <1>14, <4>2
          <5> DEFINE f == SideOutcome(s).params
                     taken == TakenAfter(s)
          <5>2. SideNames(i) \subseteq taken
            BY <5>1, NamesFacts
          <5>3. ASSUME NEW k \in DOMAIN f PROVE Holds(f, params, k) \/ k \in taken
            BY <3>1, <5>1 DEF NoneMissing
          <5> HIDE DEF f, taken
          <5>4. \A k \in DOMAIN f : Holds(f, params', k) \/ k \in taken
            BY <3>4, <5>2, <5>3
          <5>5. QED
            BY <5>4 DEF f, taken
        <4>3. QED
          BY <4>1, <4>2
      <3>7. NoneMissing'
        BY <1>6, <3>5, <3>6 DEF NoneMissing, Holds
      <3>8. QED
        BY <3>3, <3>7
    <2>2. QED
      BY <1>3, <1>7, <2>1 DEF ParamsFit
  <1>18. MissFits'
    <2>1. ASSUME RouteIsFit
          PROVE  notFound' = (\/ Resolve(Routes, path).missing \/ NestedOutcome.missing
                              \/ \E j \in Side \ Waiting' : SideOutcome(j).missing)
      <3>1. notFound = (\/ Resolve(Routes, path).missing \/ NestedOutcome.missing
                        \/ \E j \in Side \ Waiting : SideOutcome(j).missing)
        BY <2>1 DEF FitInv, MissFits
      <3>2. Side \ Waiting' = (Side \ Waiting) \union {i}
        BY <1>5, <2>1, RouteIsClean
      <3>3. QED
        BY <1>3, <3>1, <3>2 DEF sub
    <2>2. QED
      BY <1>6, <1>7, <2>1 DEF MissFits
  <1>19. QED
    BY <1>4, <1>13, <1>15, <1>16, <1>17, <1>18, SubStepStruct DEF FitInv

\* A nested SubRoute renders on its own only after Route has panicked, and spoils no other scope.
LEMMA NestedRenderFits ==
  ASSUME RouterAssumption, PagesAssumption, StructInv, FitInv, path \in Seq(Segment), RenderNested
  PROVE  StructInv' /\ FitInv'
  <1> DEFINE sub == NestedOutcome
  <1>1. Turn(Inner) /\ RenderSub(Inner, sub)
    BY DEF RenderNested
  <1>2. sub.missing \in BOOLEAN /\ Captures(sub.params, RouteNames)
    BY NestedFacts DEF StructInv
  <1> HIDE DEF sub
  <1>3. /\ lastKeys' = [lastKeys EXCEPT ![Inner] = DOMAIN sub.params]
        /\ notFound' = (notFound \/ sub.missing)
        /\ page' = [page EXCEPT ![Inner] = sub.handler]
        /\ pass' = pass \ {Inner} /\ path' = path /\ dirty' = dirty
        /\ prefix' = prefix /\ nestedIn' = nestedIn /\ hasRoute' = hasRoute
        /\ failed' = failed /\ missed' = missed
    BY <1>1 DEF RenderSub, userVars
  <1>4. SubStep(Inner, sub.handler)
    BY <1>1, <1>2, <1>3, ScopeFacts DEF SubStep, StructInv, ScopeTypes
  <1>5. /\ Inner \in pass /\ Route \notin pass
        /\ Side \ Waiting' = Side \ Waiting
    BY <1>1, <1>3, ScopeFacts DEF Turn, Waiting
  \* Route has panicked: there is nothing of it to keep up.
  <1>6. ~RouteIsFit' /\ hasRoute'
    BY <1>3, <1>5 DEF StructInv, InnerAlone, WithoutRoute, Waiting, RouteIsFit
  <1>7. \A j : SideOutcome(j)' = SideOutcome(j)
    BY <1>3, OutcomeSame
  <1>8. Captures(params', AllNames)
    BY <1>1, <1>2, NamesFacts, SubParams
  <1>9. /\ lastKeys' = [s \in Scope |-> lastKeys'[s]]
        /\ \A j \in Side : lastKeys'[j] = lastKeys[j]
    BY <1>3, ScopeFacts DEF FitInv, ParamTypes
  <1>10. \A j \in Side : page'[j] = page[j]
    BY <1>3, ScopeFacts DEF StructInv, ScopeTypes
  <1>11. ParamTypes'
    BY <1>8, <1>9 DEF FitInv, ParamTypes, Captures
  <1>12. SidesFit'
    BY <1>5, <1>7, <1>9, <1>10 DEF FitInv, SidesFit, SideFits
  <1>13. RoutePage' /\ ParamsFit' /\ MissFits'
    BY <1>6 DEF RoutePage, ParamsFit, MissFits
  <1>14. QED
    BY <1>4, <1>11, <1>12, <1>13, SubStepStruct DEF FitInv

Inv == UrlInv /\ StructInv /\ FitInv

\* Navigations, query changes, the calls that waited and traversals are the same step for the
\* scopes.
LEMMA NavigationsArePathSteps ==
  ASSUME RouterAssumption, SpellingAssumption, UrlInv,
         \/ \E p \in Paths : Navigate(p) \/ NavigateReplace(p) \/ FollowLink(p)
         \/ \E pair \in Pairs : SetQueryParam(pair[1], pair[2])
         \/ Finish
         \/ \E n : Traverse(n)
  PROVE  PathStep
  <1>1. ASSUME NEW p \in Paths, Navigate(p) \/ NavigateReplace(p) \/ FollowLink(p) PROVE PathStep
    <2>1. p \in Seq(Segment)
      BY DEF RouterAssumption
    <2>2. QED
      BY <1>1, <2>1 DEF Navigate, NavigateReplace, FollowLink, GoTo, Idle, PathStep, userVars
  <1>2. CASE Finish \/ \E pair \in Pairs : SetQueryParam(pair[1], pair[2])
    <2>1. /\ pass = {} /\ path' = path
          /\ UNCHANGED <<params, notFound, scopeVars, userVars, failed, missed>>
      BY <1>2 DEF SetQueryParam, Finish, Idle
    <2>2. path \in Seq(Segment)
      BY DEF UrlInv
    <2>3. QED
      BY <2>1, <2>2 DEF PathStep, DirtyAfter, scopeVars, userVars
  <1>3. ASSUME NEW n, Traverse(n) PROVE PathStep
    <2>1. /\ n \in DOMAIN entries /\ pass = {} /\ path' = StripBase(entries[n].path)
          /\ dirty' = DirtyAfter(path', dirty)
          /\ UNCHANGED <<params, notFound, pass, page, lastKeys, prefix, nestedIn, userVars, failed, missed>>
      BY <1>3 DEF Traverse, Popstate, AtRest, Idle
    <2>2. path' \in Seq(Segment)
      BY <2>1, EntryFacts DEF UrlInv
    <2>3. QED
      BY <2>1, <2>2 DEF PathStep, userVars
  <1>4. QED
    BY <1>1, <1>2, <1>3

\* A reload loads the page afresh.
LEMMA FreshNext == Fresh' => StructInv' /\ FitInv'
  <1>1. Fresh => StructInv /\ FitInv
    BY FreshStruct, FreshFits
  <1>2. QED
    BY <1>1, PTL

\* Nothing changes.
LEMMA StutterFits ==
  ASSUME StructInv, FitInv, UNCHANGED vars
  PROVE  StructInv' /\ FitInv'
  <1>1. /\ path' = path /\ params' = params /\ notFound' = notFound /\ page' = page
        /\ lastKeys' = lastKeys /\ prefix' = prefix /\ nestedIn' = nestedIn
        /\ hasRoute' = hasRoute /\ failed' = failed /\ missed' = missed
        /\ dirty' = dirty /\ pass' = pass
    BY DEF vars, signalVars, scopeVars, userVars
  <1>2. FitSame
    BY <1>1 DEF FitSame, Waiting
  <1>3. \A s : Shown(s)' <=> Shown(s)
    BY <1>1 DEF Shown
  <1>4. Waiting' = Waiting
    BY <1>1 DEF Waiting
  <1>5. ScopeTypes' /\ WithoutRoute' /\ RouteFirst' /\ SidesRender'
    BY <1>1, <1>3, <1>4 DEF StructInv, ScopeTypes, WithoutRoute, RouteFirst, SidesRender
  <1>6. InOrder' /\ FirstRender' /\ LaterRender' /\ MarksRoute' /\ InnerInRoute' /\ InnerAlone' /\ RouteRenders'
    BY <1>1, <1>3, <1>4 DEF StructInv, InOrder, FirstRender, LaterRender, MarksRoute, InnerInRoute,
      InnerAlone, RouteRenders
  <1>7. QED
    BY <1>2, <1>5, <1>6, FitSameFits DEF StructInv

\* A render of Route, with the choices its handler has.
LEMMA RenderRouteFits ==
  ASSUME RouterAssumption, PagesAssumption, UrlInv, StructInv, FitInv, RenderRoute
  PROVE  StructInv' /\ FitInv'
  <1> DEFINE r == Resolve(Routes, path)
  <1>0. PICK shown \in GuardedPages(r.handler) :
          \E p \in AfterHandler(shown) : RenderPage(r, shown, p, InnerOutcome(shown, p))
    BY DEF RenderRoute, InnerOutcome
  <1>1. PICK p \in AfterHandler(shown) : RenderPage(r, shown, p, InnerOutcome(shown, p))
    BY <1>0
  <1>2. Turn(Route)
    BY DEF RenderRoute
  <1> DEFINE sub == InnerOutcome(shown, p)
  <1>3. path \in Seq(Segment)
    BY DEF UrlInv
  <1>4. p \in Seq(Segment) /\ (p # path => shown \in DOMAIN Redirects /\ Redirects[shown] # path)
    BY <1>3, HandlerPath
  <1>5. /\ r.missing \in BOOLEAN /\ r.handler # NoPage /\ Captures(r.params, RouteNames)
    BY <1>3, RouteResolves
  <1>6. /\ sub.missing \in BOOLEAN /\ Captures(sub.params, RouteNames)
        /\ shown \in DOMAIN Nested => Len(NestedPrefix(shown)) \in Nat /\ shown # NoPage
    BY <1>3, <1>4, InnerFacts
  <1>7. shown # NoPage
    BY <1>5 DEF GuardedPages, LoginPage, NoPage
  <1>8. Merge(RouteParams(r), {}, sub.params) = Over(sub.params, r.params)
    <2> DEFINE f == r.params
               g == sub.params
    <2>1. f \in [DOMAIN f -> STRING \ {Blank}]
      BY <1>5 DEF Captures
    <2> HIDE DEF f, g
    <2> DEFINE h == [k \in DOMAIN f \ {} |-> f[k]]
    <2>2. Merge(f, {}, g) = Over(g, h)
      BY DEF Merge
    <2>3. h = f
      BY <2>1
    <2> HIDE DEF h
    <2>4. Merge(f, {}, g) = Over(g, f)
      BY <2>2, <2>3
    <2>5. QED
      BY <2>4 DEF f, g, RouteParams
  <1> HIDE DEF r, sub
  <1>9. RenderPage(r, shown, p, sub)
    BY <1>1 DEF sub
  <1>10. RouteStep(shown, IF shown \in DOMAIN Nested THEN sub.handler ELSE NoPage, p)
    <2>1. /\ page' = [page EXCEPT ![Route] = shown,
                                  ![Inner] = IF shown \in DOMAIN Nested THEN sub.handler ELSE NoPage]
          /\ dirty' = MarkedBy(shown) \ {Inner}
          /\ pass' = pass \ {Route, Inner}
          /\ failed' = FALSE /\ missed' = (p # path /\ Route \notin Mounted)
          /\ hasRoute' = hasRoute
          /\ notFound' = (r.missing \/ sub.missing)
      BY <1>9 DEF RenderPage, RouteMissing
    <2>2. /\ prefix' = (IF shown \in DOMAIN Nested THEN NestedPrefix(shown) ELSE <<>>)
          /\ nestedIn' = (IF shown \in DOMAIN Nested THEN shown ELSE NoPage)
      BY <1>9 DEF RenderPage
    <2>3. Len(prefix') \in Nat /\ nestedIn' \in {NoPage} \union DOMAIN Nested
      BY <1>6, <2>2
    <2>4. Route \in pass
      BY <1>2 DEF Turn
    <2>5. /\ MarkedBy(shown) \in {dirty, dirty \union Mounted}
          /\ p # path => MarkedBy(shown) = dirty \union Mounted
      BY <1>4 DEF MarkedBy, DirtyAfter
    <2>6. /\ dirty' \in {dirty \ {Inner}, (dirty \union Mounted) \ {Inner}}
          /\ p # path => dirty' = (dirty \union Mounted) \ {Inner}
      BY <2>1, <2>5
    <2>7. QED
      BY <1>5, <1>6, <1>7, <2>1, <2>3, <2>4, <2>6 DEF RouteStep
  <1>11. RouteRender(shown, p)
    <2>1. /\ path' = p /\ params' = Merge(RouteParams(r), {}, sub.params)
          /\ notFound' = (r.missing \/ sub.missing)
          /\ lastKeys' = [lastKeys EXCEPT ![Inner] = DOMAIN sub.params]
          /\ prefix' = (IF shown \in DOMAIN Nested THEN NestedPrefix(shown) ELSE <<>>)
          /\ nestedIn' = (IF shown \in DOMAIN Nested THEN shown ELSE NoPage)
      BY <1>9 DEF RenderPage, RouteMissing
    <2>2. shown \in GuardedPages(r.handler)
      BY DEF r
    <2>3. QED
      BY <1>4, <1>8, <1>10, <2>1, <2>2 DEF RouteRender, r, sub
  <1>12. StructInv'
    BY <1>10, RouteStepStruct
  <1>13. FitInv'
    BY <1>3, <1>11, RouteRenderFits
  <1>14. QED
    BY <1>12, <1>13

\* The invariant holds when the page has been loaded.
LEMMA InvInit == RouterAssumption /\ SpellingAssumption /\ Init => Inv
  <1> SUFFICES ASSUME RouterAssumption, SpellingAssumption, Init PROVE Inv
    OBVIOUS
  <1>1. Fresh
    BY DEF Init, Fresh
  <1>2. QED
    BY <1>1, FreshStruct, FreshFits, UrlInvInit DEF Inv

\* Every step keeps the invariant.
LEMMA InvStep ==
  RouterAssumption /\ SpellingAssumption /\ PagesAssumption /\ Inv /\ [Next]_vars => Inv'
  <1> SUFFICES ASSUME RouterAssumption, SpellingAssumption, PagesAssumption, Inv, [Next]_vars
               PROVE  Inv'
    OBVIOUS
  <1>1. UrlInv /\ StructInv /\ FitInv /\ path \in Seq(Segment)
    BY DEF Inv, UrlInv
  <1>2. UrlInv'
    BY <1>1, UrlInvStep
  <1>3. ASSUME PathStep PROVE StructInv' /\ FitInv'
    BY <1>1, <1>3, PathStepStruct, PathStepFits
  <1>4. StructInv' /\ FitInv'
    <2>1. CASE \E p \in Paths : Navigate(p) \/ NavigateReplace(p) \/ FollowLink(p)
      BY <1>1, <1>3, <2>1, NavigationsArePathSteps
    <2>2. CASE \E pair \in Pairs : SetQueryParam(pair[1], pair[2])
      BY <1>1, <1>3, <2>2, NavigationsArePathSteps
    <2>3. CASE Finish \/ \E n \in 1..MaxEntries : Traverse(n)
      BY <1>1, <1>3, <2>3, NavigationsArePathSteps
    <2>4. CASE Reload
      <3>1. Fresh'
        BY <1>1, <2>4 DEF Reload, Load, Fresh, StructInv, ScopeTypes
      <3>2. QED
        BY <3>1, FreshNext
    <2>5. CASE StartPass
      <3>1. FitSame
        BY <2>5 DEF StartPass, AtRest, Idle, FitSame, Waiting, signalVars, userVars
      <3>2. QED
        BY <1>1, <2>5, <3>1, StartPassStruct, FitSameFits
    <2>6. CASE RenderRoute
      BY <1>1, <2>6, RenderRouteFits
    <2>7. CASE RenderRoutePanics
      BY <1>1, <2>7, PanicFits, PanicStruct
    <2>8. CASE RenderNested
      BY <1>1, <2>8, NestedRenderFits
    <2>9. CASE \E i \in Side : RenderSide(i)
      BY <1>1, <2>9, SideRenderFits
    <2>10. CASE UNCHANGED vars
      BY <1>1, <2>10, StutterFits
    <2>11. QED
      BY <2>1, <2>2, <2>3, <2>4, <2>5, <2>6, <2>7, <2>8, <2>9, <2>10 DEF Next
  <1>5. QED
    BY <1>2, <1>4 DEF Inv

(* The invariant holds of every reachable state: the URL and the router   *)
(* agree, the scopes are marked and rendered in order, and every scope    *)
(* that is not about to render fits the path (Navigate, popstate, flush,  *)
(* Route, SubRoute).                                                      *)
THEOREM InvAlways == Spec => []Inv
  <1>1. Init => Inv
    BY InvInit, RouterAssumption, SpellingAssumption
  <1>2. Inv /\ [Next]_vars => Inv'
    BY InvStep, RouterAssumption, SpellingAssumption, PagesAssumption
  <1>3. QED
    BY <1>1, <1>2, PTL DEF Spec

\* A pair of a function is a name and its value.
LEMMA PairingFacts ==
  ASSUME NEW f
  PROVE  /\ \A pair \in Pairing(f) : pair[1] \in DOMAIN f /\ pair = <<pair[1], f[pair[1]]>>
         /\ \A g : \A k \in DOMAIN f : Holds(f, g, k) => <<k, f[k]>> \in Pairing(g)
  BY DEF Pairing, Holds

\* Once everything has rendered, Route fits the path.
LEMMA SettledFits ==
  ASSUME Settled, ~failed, ~missed
  PROVE  Waiting = {} /\ (hasRoute => RouteIsFit)
  BY DEF Settled, Waiting, RouteIsFit

\* The invariant says what the parameters are.
LEMMA InvParams == Inv => ParamsFitPath
  <1> SUFFICES ASSUME Inv, Settled, ~failed, ~missed
               PROVE  /\ Pairing(params) \subseteq UNION {Pairing(CapturedBy(s)) : s \in Scope \ {Inner}}
                      /\ \A s \in Scope \ {Inner} : \A pair \in Pairing(CapturedBy(s)) :
                           pair \in Pairing(params) \/ pair[1] \in TakenAfter(s)
    BY DEF ParamsFitPath
  <1>1. Waiting = {} /\ (hasRoute => RouteIsFit)
    BY SettledFits
  <1>2. NoneLeft /\ NoneMissing /\ Side \ Waiting = Side
    BY <1>1 DEF Inv, FitInv, ParamsFit
  <1>3. CapturedBy(Route) = RouteOutcome /\ \A i \in Side : CapturedBy(i) = SideOutcome(i).params
    BY ScopeFacts DEF CapturedBy, RouteOutcome, RouteParamsNow
  <1>4. \A s \in Scope \ {Inner} : s = Route \/ s \in Side
    BY ScopeFacts
  <1>5. ASSUME NEW pair \in Pairing(params)
        PROVE  \E s \in Scope \ {Inner} : pair \in Pairing(CapturedBy(s))
    <2> DEFINE k == pair[1]
    <2>1. k \in DOMAIN params /\ pair = <<k, params[k]>>
      BY PairingFacts
    <2> HIDE DEF k
    <2>2. Holds(params, RouteOutcome, k) \/ \E s \in Side : Holds(params, SideOutcome(s).params, k)
      BY <1>1, <1>2, <2>1 DEF NoneLeft
    <2>3. PICK s \in Scope \ {Inner} : Holds(params, CapturedBy(s), k)
      BY <1>3, <2>2, ScopeFacts
    <2>4. <<k, params[k]>> \in Pairing(CapturedBy(s))
      BY <2>1, <2>3, PairingFacts
    <2>5. QED
      BY <2>1, <2>4
  <1>6. ASSUME NEW s \in Scope \ {Inner}, NEW pair \in Pairing(CapturedBy(s))
        PROVE  pair \in Pairing(params) \/ pair[1] \in TakenAfter(s)
    <2> DEFINE k == pair[1]
               f == CapturedBy(s)
    <2>1. k \in DOMAIN f /\ pair = <<k, f[k]>>
      BY PairingFacts
    <2>2. \A x \in DOMAIN f : Holds(f, params, x) \/ x \in TakenAfter(s)
      BY <1>2, <1>3, <1>4 DEF NoneMissing
    <2> HIDE DEF k, f
    <2>3. Holds(f, params, k) \/ k \in TakenAfter(s)
      BY <2>1, <2>2
    <2>4. Holds(f, params, k) => <<k, f[k]>> \in Pairing(params)
      BY <2>1, PairingFacts
    <2>5. QED
      BY <2>1, <2>3, <2>4 DEF k
  <1>7. QED
    BY <1>5, <1>6

\* The invariant says what NotFound answers.
LEMMA InvNotFound == Inv => NotFoundFits
  <1> SUFFICES ASSUME Inv, Settled, hasRoute, ~failed, ~missed
               PROVE  notFound = (\/ Resolve(Routes, path).missing
                                  \/ NestedOutcome.missing
                                  \/ \E i \in Side : SideOutcome(i).missing)
    BY DEF NotFoundFits
  <1>1. Waiting = {} /\ RouteIsFit
    BY SettledFits
  <1>2. Side \ Waiting = Side
    BY <1>1
  <1>3. QED
    BY <1>1, <1>2 DEF Inv, FitInv, MissFits

\* "/404" matches itself only.
LEMMA NotFoundIsText ==
  ASSUME RouterAssumption, NotFoundRoute \in Pattern, NEW p \in Seq(Segment), Matches(NotFoundRoute, p)
  PROVE  p = NotFoundRoute
  <1> DEFINE r == NotFoundRoute
  <1>1. r \in Seq(STRING) /\ Len(r) = 1 /\ r[1] = "404"
    <2>1. r = <<"404">>
      BY DEF NotFoundRoute
    <2> HIDE DEF r
    <2>2. Len(r) = 1 /\ r[1] = "404"
      BY <2>1
    <2>3. r \in Seq(STRING)
      BY DEF r, Pattern
    <2>4. QED
      BY <2>2, <2>3
  <1>2. "404" \notin Parameter /\ "404" # "*"
    BY DEF RouterAssumption
  <1> HIDE DEF r
  <1>3. ~IsWildcard(r)
    BY <1>1, <1>2 DEF IsWildcard, Last
  <1>4. DOMAIN r = 1..1
    BY <1>1
  <1>5. ToSet(r) \cap Parameter = {}
    BY <1>1, <1>2, <1>4 DEF ToSet
  <1>6. ~IsCompiled(r)
    BY <1>3, <1>5 DEF IsCompiled
  <1>7. r \in Pattern /\ p \in Seq(STRING)
    BY <1>1, PathIsPattern DEF Pattern
  <1>8. r = p
    BY <1>6, <1>7, MatchesText DEF r
  <1>9. QED
    BY <1>8 DEF r

\* The page that Route resolves the path to fits it.
LEMMA RouteFitsOutcome ==
  ASSUME RouterAssumption, PagesAssumption, path \in Seq(Segment),
         NEW shown \in GuardedPages(Resolve(Routes, path).handler)
  PROVE  RouteFits(shown)
  <1> DEFINE h == Resolve(Routes, path).handler
  <1>1. shown = h \/ shown = LoginPage
    BY DEF GuardedPages
  <1>2. Routes \in Seq(Pattern) /\ LoginPage \notin ToSet(Routes) /\ BuiltinPage \notin ToSet(Routes)
    BY RoutesTypes DEF HasNoPage
  <1>3. LoginPage # NotFoundRoute /\ LoginPage # BuiltinPage
    BY DEF LoginPage, NotFoundRoute, BuiltinPage
  <1>4. ASSUME shown \in ToSet(Routes) \ {NotFoundRoute}
        PROVE  /\ Matches(shown, path)
               /\ \A q \in ToSet(Routes) : Matches(q, path) => ~Beats(q, shown)
    <2>1. shown = h
      BY <1>1, <1>2, <1>4
    <2>2. Matched(Routes, path) # {}
      <3>1. ASSUME Matched(Routes, path) = {} PROVE h = Fallback(Routes)
        BY <3>1 DEF Resolve, Outcome
      <3>2. QED
        BY <1>2, <1>4, <2>1, <3>1 DEF Fallback
    <2>3. Matches(h, path)
      <3>1. PICK m \in Matched(Routes, path) : TRUE
        BY <2>2
      <3>2. Matched(Routes, path) = {m} /\ Matches(m, path)
        BY <1>2, MatchedMatches
      <3>3. (CHOOSE x \in {m} : TRUE) = m
        OBVIOUS
      <3>4. h = m
        BY <3>2, <3>3 DEF Resolve, Outcome
      <3>5. QED
        BY <3>2, <3>4
    <2>4. \A q \in ToSet(Routes) : Matches(q, path) => ~Beats(q, h)
      BY ResolveFits
    <2>5. QED
      BY <2>1, <2>3, <2>4
  <1>5. ASSUME shown \in {NotFoundRoute, BuiltinPage}, path # NotFoundRoute,
               NEW q \in ToSet(Routes), Matches(q, path)
        PROVE  FALSE
    <2>1. shown = h
      BY <1>1, <1>3, <1>5
    <2>2. h \in ToSet(Routes) /\ Matches(h, path)
      <3>1. PICK m \in ToSet(Routes) : h = m /\ Matches(m, path)
        BY <1>5, ResolveFits
      <3>2. QED
        BY <3>1
    <2>3. h = NotFoundRoute
      BY <1>2, <1>5, <2>1, <2>2
    <2>4. NotFoundRoute \in Pattern
      BY <1>2, <2>2, <2>3, ToSetFinite
    <2>5. QED
      BY <1>5, <2>2, <2>3, <2>4, NotFoundIsText
  <1>6. QED
    BY <1>4, <1>5 DEF RouteFits

\* The invariant says what the scopes show.
LEMMA InvShows == RouterAssumption /\ PagesAssumption /\ Inv => ShowsThePath
  <1> SUFFICES ASSUME RouterAssumption, PagesAssumption, Inv, Settled, ~failed, ~missed
               PROVE  /\ hasRoute => RouteFits(page[Route])
                      /\ \A i \in Side : page[i] = SideOutcome(i).handler
    BY DEF ShowsThePath
  <1>1. Waiting = {} /\ (hasRoute => RouteIsFit) /\ path \in Seq(Segment)
    BY SettledFits DEF Inv, UrlInv
  <1>2. \A i \in Side : page[i] = SideOutcome(i).handler
    BY <1>1 DEF Inv, FitInv, SidesFit, SideFits
  <1>3. ASSUME hasRoute PROVE RouteFits(page[Route])
    <2>1. page[Route] \in GuardedPages(Resolve(Routes, path).handler)
      BY <1>1, <1>3 DEF Inv, FitInv, RoutePage
    <2>2. QED
      BY <1>1, <2>1, RouteFitsOutcome
  <1>4. QED
    BY <1>2, <1>3

(* Once every scope has rendered, no parameter of an earlier path is left  *)
(* and none of the path is missing but one whose name a later SubRoute has *)
(* as well, for any routes and any number of SubRoutes, with names in      *)
(* common or not (setParams, merge).                                       *)
THEOREM ParamsFitPathAlways == Spec => []ParamsFitPath
  <1>1. Inv => ParamsFitPath
    BY InvParams
  <1>2. QED
    BY <1>1, InvAlways, PTL

(* Once every scope has rendered, NotFound tells whether a mounted Route  *)
(* or SubRoute misses the current path (Route, SubRoute).                 *)
THEOREM NotFoundFitsAlways == Spec => []NotFoundFits
  BY InvNotFound, InvAlways, PTL

(* Once every scope has rendered, each shows what the current path asks   *)
(* for, and Route the page of a pattern that no other matching pattern    *)
(* beats (compileRoutes, matchCompiled, Route, SubRoute, Guard).          *)
THEOREM ShowsThePathAlways == Spec => []ShowsThePath
  <1>1. Inv => ShowsThePath
    BY InvShows, RouterAssumption, PagesAssumption
  <1>2. QED
    BY <1>1, InvAlways, PTL
=============================================================================
