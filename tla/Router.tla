------------------------------- MODULE Router -------------------------------
(***************************************************************************)
(* The client router (router/router.go) and the browser history it is      *)
(* bound to (router/history_js.go, router/base.go).                        *)
(*                                                                         *)
(* The application mounts at most one Route and a list of SubRoutes after  *)
(* it; a route handler may mount a SubRoute of its own.  Each is a scope   *)
(* that depends on the Path signal: a navigation marks it dirty and a      *)
(* later flush renders it, the outermost and earliest first.               *)
(*                                                                         *)
(* A path is the sequence of its segments.  A pattern is a sequence of     *)
(* literals, parameters (":id") and a final "*".  A query string is a      *)
(* sequence of pairs.  Trailing slashes and dot segments are left out.     *)
(*                                                                         *)
(* A navigation sets Path and then writes the history.  Outside a Batch    *)
(* Path's subscribers run in between, and may navigate as well: the write  *)
(* waits in writing meanwhile.                                             *)
(***************************************************************************)
EXTENDS Naturals, SequencesExt

CONSTANTS
  Base,        \* the base path
  Paths,       \* paths the application navigates to
  Pairs,       \* <<name, value>> pairs of query parameters; the value may be Blank
  Searches,    \* query strings a page may be loaded with
  Escapes,     \* segment -> how a URL spells it, for those it spells differently
  Cuts,        \* segment with a "?" or a "#" in it -> [segment, search], where a URL cuts it;
               \* nothing is left of a fragment
  Merged,      \* the last value of a query string that another was appended to
  Parameter,   \* the pattern segments that capture
  Routes,      \* the patterns of Route in text order
  Sides,       \* the standalone SubRoutes: [prefix |-> path, routes |-> patterns]
  Nested,      \* pattern -> the patterns of the SubRoute its handler mounts
  Redirects,   \* pattern -> the path its handler navigates to
  Fallible,    \* patterns whose handler may panic
  LazyRoutes,  \* patterns whose handler is Lazy
  GuardedRoutes, \* patterns whose handler is wrapped by Guard
  MaxEntries,  \* bound: entries of the browser history
  MaxWaiting   \* bound: calls that wait at once for subscribers to write the history

NotFoundRoute == <<"404">>
NoPage == <<"#none">>
BuiltinPage == <<"#built-in">>  \* the built-in text, or a SubRoute's empty fragment
LoginPage == <<"#fallback">>    \* what Guard renders when its check fails

\* The scopes, in the order they render.
Route == 1
Inner == 2
Side == 3..(Len(Sides) + 2)
Scope == {Route, Inner} \union Side

Blank == ""

\* The segments of a path; no URL spells a pattern.
Segment == STRING \ ({Blank, "*"} \union Parameter)

ASSUME RouterAssumption ==
  /\ Base \in Seq(STRING) /\ Paths \subseteq Seq(Segment)
  /\ Redirects \in [DOMAIN Redirects -> Seq(Segment)]
  /\ Searches \subseteq Seq(STRING \X STRING) /\ Pairs \subseteq STRING \X STRING
  /\ Parameter \subseteq STRING \ {Blank, "*", "404"}
  /\ Routes \in Seq(Seq(STRING))
  /\ Sides \in Seq([prefix : Seq(STRING), routes : Seq(Seq(STRING))])
  /\ Nested \in [DOMAIN Nested -> Seq(Seq(STRING))]
  /\ DOMAIN Nested \subseteq {p \in ToSet(Routes) : p # <<>> /\ Last(p) = "*"}
  /\ MaxEntries \in Nat \ {0} /\ MaxWaiting \in Nat \ {0}

\* Where a URL cuts a path, the path ends: no slash follows in the query.  A spelling is spelled
\* as it is, and the base is given as URLs spell it.
Respelled == DOMAIN Escapes \union DOMAIN Cuts

ASSUME SpellingAssumption ==
  /\ Respelled \subseteq Segment /\ DOMAIN Escapes \cap DOMAIN Cuts = {}
  /\ Escapes \in [DOMAIN Escapes -> Segment \ Respelled]
  /\ Cuts \in [DOMAIN Cuts -> [segment : Segment \ Respelled, search : Seq(STRING \X STRING)]]
  /\ ToSet(Base) \cap Respelled = {}
  /\ \A p \in Paths \union {Redirects[r] : r \in DOMAIN Redirects} : \A i \in DOMAIN p :
       p[i] \in DOMAIN Cuts => i = Len(p)
  /\ Merged \in STRING

\* The three pages without a handler are no patterns.
ASSUME PagesAssumption ==
  \A routes \in {Routes} \union {s.routes : s \in ToSet(Sides)} :
    ToSet(routes) \cap {NoPage, BuiltinPage, LoginPage} = {}

VARIABLES
  entries,   \* the browser's history entries: [path, search]
  at,        \* the current entry
  path,      \* Router.Path
  query,     \* Router.Query
  params,    \* Router.params
  notFound,  \* Router.notFound
  dirty,     \* scopes marked dirty
  pass,      \* scopes of the current render pass, not rendered yet
  page,      \* what each scope shows
  lastKeys,  \* lastKeys of each SubRoute
  prefix,    \* the prefix of the mounted nested SubRoute
  nestedIn,  \* the pattern whose handler mounted it
  lazy,      \* sync.Once of each Lazy: "unused", "loaded" or "broken"
  hasRoute,  \* whether the application mounts a Route
  writing,   \* calls that wait to write the history, the innermost first
  behind,    \* history: the URL's query was written without Query, or not as it can be read
  crossed,   \* history: the URL was written for a path that Path had left meanwhile
  failed,    \* history: the last render of Route panicked
  missed     \* history: Path changed while Route rendered for the first time

historyVars == <<entries, at>>
signalVars == <<path, query, params, notFound>>
scopeVars == <<dirty, pass, page, lastKeys, prefix, nestedIn>>
userVars == <<lazy, hasRoute>>
urlVars == <<writing, behind, crossed>>
vars == <<historyVars, signalVars, scopeVars, userVars, urlVars, failed, missed>>

NoParams == [k \in {} |-> Blank]

\* The assignments of f after those of g.
Over(f, g) == [k \in DOMAIN f \union DOMAIN g |-> IF k \in DOMAIN f THEN f[k] ELSE g[k]]
Mounted == {s \in Scope : page[s] # NoPage} \ (IF hasRoute THEN {} ELSE {Route})
-----------------------------------------------------------------------------
(* Matching *)

IsWildcard(pattern) == pattern # <<>> /\ Last(pattern) = "*"
Segments(pattern) == IF IsWildcard(pattern) THEN Front(pattern) ELSE pattern

\* compileRoutes keeps the patterns that are not matched literally.
IsCompiled(pattern) == IsWildcard(pattern) \/ ToSet(pattern) \cap Parameter # {}

Literals(pattern) == Cardinality({i \in DOMAIN Segments(pattern) : pattern[i] \notin Parameter})

\* routeMatcher.match
Matches(pattern, p) ==
  /\ IF IsWildcard(pattern) THEN Len(Segments(pattern)) <= Len(p) ELSE Len(pattern) = Len(p)
  /\ \A i \in DOMAIN Segments(pattern) : pattern[i] \in Parameter \/ pattern[i] = p[i]

\* A later segment of the same name overwrites an earlier one.
Captured(pattern, p) ==
  [k \in ToSet(Segments(pattern)) \cap Parameter |->
     p[CHOOSE i \in DOMAIN Segments(pattern) :
         /\ pattern[i] = k
         /\ \A j \in DOMAIN Segments(pattern) : pattern[j] = k => j <= i]]

\* A mutant: the wildcard test comes first.
WildcardLast(routes, i, j) ==
  LET a == routes[i]
      b == routes[j]
  IN \/ ~IsWildcard(a) /\ IsWildcard(b)
     \/ IsWildcard(a) = IsWildcard(b) /\ i < j

\* compileRoutes' order: most literals, no wildcard, most segments, text.
Precedes(routes, i, j) ==
  LET a == routes[i]
      b == routes[j]
  IN \/ Literals(a) > Literals(b)
     \/ /\ Literals(a) = Literals(b)
        /\ \/ ~IsWildcard(a) /\ IsWildcard(b)
           \/ /\ IsWildcard(a) = IsWildcard(b)
              /\ \/ Len(a) > Len(b)
                 \/ Len(a) = Len(b) /\ i < j

\* matchCompiled: the first compiled pattern, in that order, that matches.
Candidates(routes, p) == {i \in DOMAIN routes : IsCompiled(routes[i]) /\ Matches(routes[i], p)}
MatchCompiled(routes, p) ==
  LET c == Candidates(routes, p)
  IN routes[CHOOSE i \in c : \A j \in c \ {i} : Precedes(routes, i, j)]

\* The names that some patterns capture.
Names(routes) == UNION {ToSet(Segments(r)) \cap Parameter : r \in ToSet(routes)}
SideNames(i) == Names(Sides[i - 2].routes)

\* What a Route or SubRoute does with a path: exact paths win, then the most
\* specific pattern, then "/404", then the built-in page.
Matched(routes, p) ==
  IF p \in ToSet(routes) THEN {p}
  ELSE IF Candidates(routes, p) = {} THEN {}
  ELSE {MatchCompiled(routes, p)}

Fallback(routes) == IF NotFoundRoute \in ToSet(routes) THEN NotFoundRoute ELSE BuiltinPage

Outcome(match, routes, p) ==
  IF match = {} THEN [handler |-> Fallback(routes), params |-> NoParams, missing |-> TRUE]
  ELSE [handler |-> CHOOSE m \in match : TRUE,
        params |-> Captured(CHOOSE m \in match : TRUE, p),
        missing |-> FALSE]

Resolve(routes, p) == Outcome(Matched(routes, p), routes, p)

\* A SubRoute whose prefix is not on the path renders nothing.
Outside == [handler |-> BuiltinPage, params |-> NoParams, missing |-> FALSE]

SubResolve(p, pre, routes) ==
  IF IsPrefix(pre, p) THEN Resolve(routes, SubSeq(p, Len(pre) + 1, Len(p))) ELSE Outside
-----------------------------------------------------------------------------
(* Queries and URLs *)

\* parseQuery: the last pair of a name counts, a pair without a name does not.
Parse(search) ==
  [k \in {search[i][1] : i \in DOMAIN search} \ {Blank} |->
     search[CHOOSE i \in DOMAIN search :
        /\ search[i][1] = k
        /\ \A j \in DOMAIN search : search[j][1] = k => j <= i][2]]

\* encodeQuery: one pair per name; the order of a map is any.
Encode(q) == SetToSeq({<<k, q[k]>> : k \in DOMAIN q})

\* sameParams looks a missing key up as Blank.
SameParams(a, b) ==
  /\ Cardinality(DOMAIN a) = Cardinality(DOMAIN b)
  /\ \A k \in DOMAIN a : a[k] = IF k \in DOMAIN b THEN b[k] ELSE Blank

\* Signal.Set keeps the current value when sameParams calls the two equal.
SetMap(current, new) == IF SameParams(current, new) THEN current ELSE new

\* stripBase
StripBase(p) == IF IsPrefix(Base, p) THEN SubSeq(p, Len(Base) + 1, Len(p)) ELSE p

\* copyParams and one assignment; the empty value deletes.
WithParam(q, name, value) ==
  [k \in IF value = Blank THEN DOMAIN q \ {name} ELSE DOMAIN q \union {name} |->
     IF k = name THEN value ELSE q[k]]

\* How the browser spells a segment that it is given in a URL, and a path.
Spelled(seg) ==
  IF seg \in DOMAIN Escapes THEN Escapes[seg]
  ELSE IF seg \in DOMAIN Cuts THEN Cuts[seg].segment
  ELSE seg
Located(p) == [i \in DOMAIN p |-> Spelled(p[i])]

\* A path whose end a URL takes for a query or a fragment, and the query.
IsCut(p) == p # <<>> /\ Last(p) \in DOMAIN Cuts
SearchIn(p) == IF IsCut(p) THEN Cuts[Last(p)].search ELSE <<>>

\* Another query after p: it is taken for a part of the last value, or of the fragment.
Joined(p, search) ==
  IF ~IsCut(p) THEN search
  ELSE IF SearchIn(p) = <<>> THEN <<>>
  ELSE Append(Front(SearchIn(p)), <<Last(SearchIn(p))[1], Merged>>)
         \o (IF search = <<>> THEN <<>> ELSE Tail(search))

\* What location.pathname and location.search read once the URL of p, which carries the base,
\* is in the address bar.
Url(p, search) == [path |-> Located(Base \o p), search |-> search]
PathUrl(p) == Url(p, SearchIn(p))
QueryUrl(p, q) == Url(p, Joined(p, Encode(q)))
-----------------------------------------------------------------------------
(* Navigation *)

\* Path.Set marks the scopes that depend on it when the path differs.
DirtyAfter(p, d) == IF p = path THEN d ELSE d \union Mounted

Idle == pass = {}

\* pushState drops the entries ahead, replaceState overwrites the current one.
PushState(url) ==
  /\ at < MaxEntries
  /\ entries' = Append(SubSeq(entries, 1, at), url)
  /\ at' = at + 1

ReplaceState(url) ==
  /\ entries' = [entries EXCEPT ![at] = url]
  /\ UNCHANGED at

\* navFn and replaceFn.
Ops == {"push", "replace"}
WriteState(op, url) == IF op = "push" THEN PushState(url) ELSE ReplaceState(url)

\* The entries that waiting calls will push have their place.
Room(op) == op = "push" => at + Len(SelectSeq(writing, LAMBDA w : w.op = "push")) < MaxEntries

\* A call that waits: [of, op, path, params, left], where left is what Query was set to.
PathCall(op, p) == [of |-> "path", op |-> op, path |-> p, params |-> NoParams, left |-> NoParams]
QueryCall(op, q, left) == [of |-> "query", op |-> op, path |-> <<>>, params |-> q, left |-> left]
PopCall == [of |-> "popstate", op |-> "none", path |-> <<>>, params |-> NoParams, left |-> NoParams]

\* Subscribers of Path, or of Query, run: a Set inside marks the signal dirty and returns.
Notifying(ofs) == \E i \in DOMAIN writing : writing[i].of \in ofs
MayWait(ofs) == Len(writing) < MaxWaiting /\ ~Notifying(ofs)

\* The URL of p is written; over says whether Path has another path by now.
WritePath(op, p, over) ==
  /\ WriteState(op, PathUrl(p))
  /\ behind' = (query # NoParams \/ SearchIn(p) # <<>>)
  /\ crossed' = over

\* The URL of p and q is written; over says whether Query has another value by now.
WriteQuery(op, p, q, over) ==
  /\ WriteState(op, QueryUrl(p, q))
  /\ behind' = (over \/ Blank \in DOMAIN q \/ IsCut(p))
  /\ crossed' = FALSE

\* In a Batch, or where no subscriber gets to run, the history is written at once.
GoTo(op, p) ==
  /\ Idle
  /\ Room(op)
  /\ path' = p
  /\ dirty' = DirtyAfter(p, dirty)
  /\ \/ WritePath(op, p, FALSE) /\ UNCHANGED writing
     \/ /\ p # path /\ MayWait({"path", "popstate"})
        /\ writing' = <<PathCall(op, p)>> \o writing
        /\ UNCHANGED <<historyVars, behind, crossed>>
  /\ UNCHANGED <<query, params, notFound, pass, page, lastKeys, prefix, nestedIn, userVars, failed, missed>>

Navigate(p) == GoTo("push", p)
NavigateReplace(p) == GoTo("replace", p)

\* A plain click on a Link, in the Batch of its handler; every other click is the browser's
\* (InAppClick).
FollowLink(p) == Navigate(p) /\ UNCHANGED writing

\* SetQueryParam and SetQueryParamPush
SetQueryParam(name, value) ==
  /\ Idle
  /\ \E q \in {WithParam(query, name, value)}, op \in Ops :
       /\ Room(op)
       /\ query' = SetMap(query, q)
       /\ \/ WriteQuery(op, path, q, FALSE) /\ UNCHANGED writing
          \/ /\ query' # query /\ MayWait({"query"})
             /\ writing' = <<QueryCall(op, q, query')>> \o writing
             /\ UNCHANGED <<historyVars, behind, crossed>>
  /\ UNCHANGED <<path, params, notFound, scopeVars, userVars, failed, missed>>

\* A mutant: popstate leaves the query alone.
KeepQuery(search) == UNCHANGED query

\* Popstate's second Set.
SyncQuery(search) == query' = SetMap(query, Parse(search))

\* The popstate listener: what the router shows follows the location.  It runs outside a
\* Batch, and Path's subscribers before the query is read.
Popstate(url) ==
  /\ path' = StripBase(url.path)
  /\ dirty' = DirtyAfter(StripBase(url.path), dirty)
  /\ crossed' = FALSE
  /\ IF StripBase(url.path) = path
     THEN SyncQuery(url.search) /\ behind' = FALSE /\ UNCHANGED writing
     ELSE writing' = <<PopCall>> /\ UNCHANGED <<query, behind>>
  /\ UNCHANGED <<params, notFound, pass, page, lastKeys, prefix, nestedIn, userVars, failed, missed>>

\* The subscribers have run: the innermost call writes the history, or reads the query.
Finish ==
  /\ writing # <<>>
  /\ Idle
  /\ LET call == Head(writing)
     IN CASE call.of = "path" ->
               WritePath(call.op, call.path, path # call.path) /\ UNCHANGED query
          [] call.of = "query" ->
               WriteQuery(call.op, path, call.params, query # call.left) /\ UNCHANGED query
          [] call.of = "popstate" ->
               SyncQuery(entries[at].search) /\ behind' = FALSE /\ UNCHANGED <<historyVars, crossed>>
  /\ writing' = Tail(writing)
  /\ UNCHANGED <<path, params, notFound, scopeVars, userVars, failed, missed>>

\* Nothing of the application is running: the browser and the flush have their turn.
AtRest == Idle /\ writing = <<>>

\* The browser moves in its history, for Back, Forward or a button of its own, and then fires
\* popstate.
Traverse(n) ==
  /\ AtRest
  /\ n \in DOMAIN entries /\ n # at
  /\ at' = n
  /\ UNCHANGED entries
  /\ Popstate(entries[n])

\* A page load at the current entry: New(CurrentPath()), BindHistory, mount.
Load(url) ==
  /\ path' = StripBase(url.path)
  /\ query' = Parse(url.search)
  /\ params' = NoParams
  /\ notFound' = FALSE
  /\ dirty' = Scope \ (IF hasRoute THEN {Inner} ELSE {Inner, Route})
  /\ pass' = {}
  /\ page' = [s \in Scope |-> NoPage]
  /\ lastKeys' = [s \in Scope |-> {}]
  /\ prefix' = <<>> /\ nestedIn' = NoPage
  /\ lazy' = [r \in LazyRoutes |-> "unused"]
  /\ writing' = <<>>
  /\ behind' = FALSE /\ crossed' = FALSE
  /\ failed' = FALSE /\ missed' = FALSE

Reload ==
  /\ AtRest
  /\ Load(entries[at])
  /\ UNCHANGED <<hasRoute, entries, at>>
-----------------------------------------------------------------------------
(* Rendering *)

\* The flush takes the dirty scopes of a pass.
StartPass ==
  /\ AtRest
  /\ dirty # {}
  /\ pass' = dirty
  /\ dirty' = {}
  /\ UNCHANGED <<historyVars, signalVars, page, lastKeys, prefix, nestedIn, userVars, urlVars, failed, missed>>

Turn(s) == s \in pass /\ \A t \in pass : s <= t

\* A mutant: a later render keeps the keys of an earlier one.
MergeAll(current, keys, sub) == Over(sub, current)

\* merge drops the sub-route's last keys before it adds its own.
Merge(current, keys, sub) ==
  Over(sub, [k \in DOMAIN current \ keys |-> current[k]])

\* Lazy: the first match loads, once, even when load panics; calling the nil
\* handler of a load that panicked panics too.
LazyCalls(r, panics) ==
  IF r \notin LazyRoutes
  THEN UNCHANGED lazy /\ (panics => r \in Fallible)
  ELSE \/ lazy[r] = "loaded" /\ ~panics /\ UNCHANGED lazy
       \/ lazy[r] = "broken" /\ panics /\ UNCHANGED lazy
       \/ lazy[r] = "unused" /\ lazy' = [lazy EXCEPT ![r] = IF panics THEN "broken" ELSE "loaded"]

\* Guard asks its check, which is the application's, when its route renders.
GuardedPages(r) == IF r \in GuardedRoutes THEN {r, LoginPage} ELSE {r}

\* What Path may be after a handler that redirects while it renders: a render is no Batch, so
\* Path's subscribers run, and one of them may navigate elsewhere.
AfterHandler(r) ==
  IF r \notin DOMAIN Redirects THEN {path}
  ELSE IF Redirects[r] = path THEN {path}
  ELSE {Redirects[r]} \union Paths

\* Whom the redirect's Path.Set marks, though a subscriber may have led back since.
MarkedBy(r) == IF r \in DOMAIN Redirects THEN DirtyAfter(Redirects[r], dirty) ELSE dirty

\* The handler replaces the current entry in any case, after that subscriber, which may have
\* pushed one of its own.
HandlerNavigates(r, p) ==
  IF r \notin DOMAIN Redirects THEN UNCHANGED <<historyVars, behind, crossed>>
  ELSE \/ WritePath("replace", Redirects[r], p # Redirects[r])
       \/ p # Redirects[r] /\ WritePath("push", Redirects[r], TRUE)

\* The prefix a handler gives its SubRoute: the part of the path its own
\* pattern matched, e.g. "/org/" + Param("org").
NestedPrefix(r) == SubSeq(path, 1, Len(Segments(r)))

RouteParams(r) == r.params

\* A mutant: NotFound is never cleared.
MissingSoFar(r) == notFound \/ r.missing

\* Route's Render clears notFound, then may set it.
RouteMissing(r) == r.missing

\* Route's Render, and the SubRoute its handler mounts, in the same walk; the
\* old nested scope is adopted, so its mark is dropped.
RenderPage(r, shown, p, sub) ==
  /\ LazyCalls(r.handler, FALSE)
  /\ HandlerNavigates(shown, p)
  /\ path' = p
  /\ params' = Merge(RouteParams(r), {}, sub.params)
  /\ notFound' = (RouteMissing(r) \/ sub.missing)
  /\ page' = [page EXCEPT ![Route] = shown,
                          ![Inner] = IF shown \in DOMAIN Nested THEN sub.handler ELSE NoPage]
  /\ lastKeys' = [lastKeys EXCEPT ![Inner] = DOMAIN sub.params]
  /\ prefix' = IF shown \in DOMAIN Nested THEN NestedPrefix(shown) ELSE <<>>
  /\ nestedIn' = IF shown \in DOMAIN Nested THEN shown ELSE NoPage
  /\ dirty' = MarkedBy(shown) \ {Inner}
  /\ pass' = pass \ {Route, Inner}
  /\ failed' = FALSE
  /\ missed' = (p # path /\ Route \notin Mounted)
  /\ UNCHANGED <<query, hasRoute, writing>>

RenderRoute ==
  /\ Turn(Route)
  /\ \E r \in {Resolve(Routes, path)} :
       \E shown \in GuardedPages(r.handler) : \E p \in AfterHandler(shown) :
         \E sub \in {IF shown \in DOMAIN Nested
                      THEN SubResolve(p, NestedPrefix(shown), Nested[shown]) ELSE Outside} :
           RenderPage(r, shown, p, sub)

\* The handler panics: the scope keeps what it shows, and the nested scope of
\* its earlier render is still mounted and renders on its own.
RenderRoutePanics ==
  /\ Turn(Route)
  /\ \E r \in {Resolve(Routes, path)} :
       /\ LazyCalls(r.handler, TRUE)
       /\ params' = RouteParams(r)
       /\ notFound' = RouteMissing(r)
  /\ pass' = pass \ {Route}
  /\ failed' = TRUE
  /\ UNCHANGED <<historyVars, path, query, dirty, page, lastKeys, prefix, nestedIn, hasRoute,
                 urlVars, missed>>

\* A SubRoute whose own scope is dirty.
RenderSub(s, sub) ==
  /\ params' = SetMap(params, Merge(params, lastKeys[s], sub.params))
  /\ lastKeys' = [lastKeys EXCEPT ![s] = DOMAIN sub.params]
  /\ notFound' = (notFound \/ sub.missing)
  /\ page' = [page EXCEPT ![s] = sub.handler]
  /\ pass' = pass \ {s}
  /\ UNCHANGED <<historyVars, path, query, dirty, prefix, nestedIn, userVars, urlVars, failed, missed>>

SideOutcome(i) == SubResolve(path, Sides[i - 2].prefix, Sides[i - 2].routes)
NestedOutcome == IF nestedIn = NoPage THEN Outside ELSE SubResolve(path, prefix, Nested[nestedIn])

RenderSide(i) ==
  /\ Turn(i)
  /\ \E sub \in {SideOutcome(i)} : RenderSub(i, sub)

RenderNested ==
  /\ Turn(Inner)
  /\ \E sub \in {NestedOutcome} : RenderSub(Inner, sub)
-----------------------------------------------------------------------------
Init ==
  /\ entries \in {<<Url(p, s)>> : p \in Paths, s \in Searches}  \* a URL that was typed
  /\ at = 1
  /\ hasRoute \in BOOLEAN
  /\ path = StripBase(entries[1].path)
  /\ query = Parse(entries[1].search)
  /\ params = NoParams /\ notFound = FALSE
  /\ dirty = Scope \ (IF hasRoute THEN {Inner} ELSE {Inner, Route})
  /\ pass = {}
  /\ page = [s \in Scope |-> NoPage]
  /\ lastKeys = [s \in Scope |-> {}]
  /\ prefix = <<>> /\ nestedIn = NoPage
  /\ lazy = [r \in LazyRoutes |-> "unused"]
  /\ writing = <<>> /\ behind = FALSE /\ crossed = FALSE
  /\ failed = FALSE /\ missed = FALSE

Next ==
  \/ \E p \in Paths : Navigate(p) \/ NavigateReplace(p) \/ FollowLink(p)
  \/ \E pair \in Pairs : SetQueryParam(pair[1], pair[2])
  \/ Finish
  \/ \E n \in 1..MaxEntries : Traverse(n)
  \/ Reload
  \/ StartPass
  \/ RenderRoute
  \/ RenderRoutePanics
  \/ RenderNested
  \/ \E i \in Side : RenderSide(i)

Spec == Init /\ [][Next]_vars
-----------------------------------------------------------------------------
(* Properties *)

Settled == pass = {} /\ dirty = {}

(* Whenever no navigation is under way the address bar and the router      *)
(* agree, whatever mixture of navigations, traversals, reloads and         *)
(* redirects led there and wherever subscribers of Path and Query navigate *)
(* as they are notified, so that a reload or a copied link shows the same  *)
(* page (Navigate, NavigateReplace, SetQueryParam, popstate, stripBase):   *)
(* the URL is the one the browser makes of Path, and Query is what its     *)
(* query string says, as sameParams compares.  Left out is a URL that was  *)
(* written after a subscriber had moved Path on, and a query that a        *)
(* navigation wrote without Query or that cannot be read back.             *)
UrlIsCurrent ==
  writing = <<>> =>
    /\ crossed \/ entries[at].path = Located(Base \o path)
    /\ behind \/ SameParams(query, Parse(entries[at].search))

(* Once every scope has rendered, the parameters are those that the        *)
(* patterns matching the current path capture: none is left from an        *)
(* earlier path, through whichever of Route, nested and standalone         *)
(* SubRoutes it came, and none is missing, but one whose name a standalone *)
(* SubRoute that renders later has as well (setParams, merge).             *)
Pairing(f) == {<<k, f[k]>> : k \in DOMAIN f}
CapturedBy(s) ==
  IF s = Route THEN Over(NestedOutcome.params, IF hasRoute THEN Resolve(Routes, path).params ELSE NoParams)
  ELSE SideOutcome(s).params
TakenAfter(s) == UNION {SideNames(i) : i \in {i \in Side : i > s}}
ParamsFitPath ==
  Settled /\ ~failed /\ ~missed =>
    /\ Pairing(params) \subseteq UNION {Pairing(CapturedBy(s)) : s \in Scope \ {Inner}}
    /\ \A s \in Scope \ {Inner} : \A pair \in Pairing(CapturedBy(s)) :
         pair \in Pairing(params) \/ pair[1] \in TakenAfter(s)

(* Once every scope has rendered, NotFound answers for the current path:   *)
(* some mounted Route or SubRoute matched nothing.  A server that answers  *)
(* with it must not see the miss of an earlier path (Route, SubRoute).     *)
NotFoundFits ==
  Settled /\ hasRoute /\ ~failed /\ ~missed =>
    notFound = (\/ Resolve(Routes, path).missing
                \/ NestedOutcome.missing
                \/ \E i \in Side : SideOutcome(i).missing)

(* Every scope shows the page of the current path, and Route the page of   *)
(* a pattern no other matching pattern beats: a literal segment beats a    *)
(* parameter and a closed pattern an open one (compileRoutes, Route).      *)
Beats(a, b) ==
  \/ Literals(a) > Literals(b)
  \/ Literals(a) = Literals(b) /\ ~IsWildcard(a) /\ IsWildcard(b)
RouteFits(shown) ==
  /\ shown \in ToSet(Routes) \ {NotFoundRoute} =>
       /\ Matches(shown, path)
       /\ \A q \in ToSet(Routes) : Matches(q, path) => ~Beats(q, shown)
  /\ shown \in {NotFoundRoute, BuiltinPage} /\ path # NotFoundRoute =>
       ~\E q \in ToSet(Routes) : Matches(q, path)
ShowsThePath ==
  Settled /\ ~failed /\ ~missed =>
    /\ hasRoute => RouteFits(page[Route])
    /\ \A i \in Side : page[i] = SideOutcome(i).handler
=============================================================================
