---------------------------- MODULE NetworkProofs ----------------------------
(***************************************************************************)
(* Proofs about a socket and a subscription that share the render loop,    *)
(* for any number of attempts, of drops and of callbacks that wait.        *)
(***************************************************************************)
EXTENDS Subscription, TLAPS

Goroutine == {"user", "closer", "loop"}
SocketEvent == {"open", "message", "close"}
StreamEventName == {"streamOpen", "streamEvent", "streamError"}
EventName == SocketEvent \union StreamEventName \union {"reconnect"}
Op == {"idle", "connect", "dial", "dialed", "drop", "OnOpen", "OnMessage", "OnClose"}
        \union StreamCallbacks
Entry == [event : EventName, gen : 0..MaxAttempts]

SocketTypes ==
  /\ closed \in BOOLEAN /\ open \in BOOLEAN
  /\ gen \in 0..MaxAttempts /\ conn \in 0..MaxAttempts
  /\ timer \in {"none", "armed", "fired"}
  /\ conns \in [Attempt -> {"none", "connecting", "open", "closing", "ended"}]
  /\ posted \in Seq(Entry)
  /\ pc \in [Goroutine -> [op : Op, gen : 0..MaxAttempts]]

Alive(g) == conns[g] \in {"connecting", "open"}
Dialing(g) == \E p \in Goroutine : pc[p].op = "dial" /\ pc[p].gen = g
Is(k, event, g) == posted[k].event = event /\ posted[k].gen = g
IsPosted(event, g) == \E k \in DOMAIN posted : Is(k, event, g)

\* A call that dials has an attempt nobody started, one that drops has one nobody wants.
CallsFit ==
  /\ \A p \in Goroutine : Calling(p) => pc[p].gen \in 1..gen
  /\ \A p \in Goroutine : pc[p].op = "dial" => conns[pc[p].gen] = "none"
  /\ \A p, q \in Goroutine :
       pc[p].op = "dial" /\ pc[q].op = "dial" /\ pc[p].gen = pc[q].gen => p = q
  /\ \A p \in Goroutine : pc[p].op \in {"dialed", "drop"} => conns[pc[p].gen] # "none"
  /\ \A p \in Goroutine : pc[p].op = "drop" => Unwanted(pc[p].gen)
  /\ pc["closer"].op \in {"idle", "drop"} /\ (~closed => pc["closer"].op = "idle")

AttemptsFit ==
  /\ \A g \in Attempt : g > gen => conns[g] = "none"
  /\ \A g \in Attempt : conns[g] = "closing" => Unwanted(g)

\* The connection kept is the newest one, or one that is over.
ConnFits ==
  conn # NoConn => /\ ~closed /\ conn <= gen
                   /\ conns[conn] # "none"
                   /\ Alive(conn) => conn = gen

\* A connection that is up is kept, or a call under way keeps it or drops it.
Owned ==
  \A g \in Attempt : Alive(g) =>
    conn = g \/ \E p \in Goroutine : pc[p].op \in {"dialed", "drop"} /\ pc[p].gen = g

\* No event of an attempt waits before it is dialed, and its close only once it is over.
EntryFits(e) ==
  /\ e.event \in SocketEvent => e.gen \in 1..gen /\ ~Dialing(e.gen)
  /\ e.event = "close" => /\ conns[e.gen] \in {"none", "ended"}
                          /\ e.gen < MaxAttempts \/ closed
EventsFit == \A k \in DOMAIN posted : EntryFits(posted[k])
CloseIsLast ==
  \A j, k \in DOMAIN posted :
    j < k /\ posted[j].event = "close" /\ posted[k].event \in SocketEvent =>
      posted[k].gen # posted[j].gen

\* Another attempt is planned, once, when the last one is over and its end is handled.
RedialFits ==
  ~closed =>
    /\ timer # "none" \/ pc["loop"].op = "connect" => gen < MaxAttempts /\ EndHandled
    /\ pc["user"].op = "connect" => gen = 0
    /\ pc["loop"].op = "connect" => timer = "none"
    /\ \A k \in DOMAIN posted : posted[k].event = "reconnect" => timer = "fired"
    /\ \A j, k \in DOMAIN posted :
         posted[j].event = "reconnect" /\ posted[k].event = "reconnect" => j = k

\* What the loop has handled of the newest attempt's events, and what it has yet to.
OpensOnce ==
  ~closed => /\ open => gen > 0 /\ ~IsPosted("open", gen)
             /\ \A j, k \in DOMAIN posted : Is(j, "open", gen) /\ Is(k, "open", gen) => j = k
MessagesFollowOpen ==
  ~closed => \A k \in DOMAIN posted :
    Is(k, "message", gen) => open \/ \E j \in 1..(k - 1) : Is(j, "open", gen)
QuietUnlessOpen ==
  ~closed /\ gen > 0 /\ (conns[gen] \in {"none", "connecting"} \/ EndHandled) =>
    ~open /\ ~IsPosted("open", gen) /\ ~IsPosted("message", gen)
OpenIsTold ==
  ~closed /\ gen > 0 => (conns[gen] = "open" => open \/ IsPosted("open", gen))

SocketInv ==
  /\ SocketTypes
  /\ CallsFit
  /\ AttemptsFit
  /\ ConnFits
  /\ Owned
  /\ EventsFit
  /\ CloseIsLast
  /\ RedialFits
  /\ OpensOnce
  /\ MessagesFollowOpen
  /\ QuietUnlessOpen
  /\ OpenIsTold
-----------------------------------------------------------------------------
(* The queue of the render loop *)
\* core.Schedule puts a callback behind those that wait.
LEMMA PostFacts ==
  ASSUME SocketTypes, NEW e \in EventName, NEW g \in 0..MaxAttempts, Post(e, g)
  PROVE  /\ posted' \in Seq(Entry) /\ Len(posted) \in Nat
         /\ DOMAIN posted' = 1..(Len(posted) + 1) /\ DOMAIN posted = 1..Len(posted)
         /\ \A k \in DOMAIN posted : posted'[k] = posted[k]
         /\ posted'[Len(posted) + 1].event = e /\ posted'[Len(posted) + 1].gen = g
         /\ \A k \in DOMAIN posted' : k = Len(posted) + 1 \/ k \in DOMAIN posted
  <1>1. [event |-> e, gen |-> g] \in Entry
    BY DEF Entry
  <1>2. QED
    BY <1>1 DEF SocketTypes, Post

\* The render loop takes the first callback; those behind it move up.
LEMMA TakeFacts ==
  ASSUME SocketTypes, NEW e, Take(e)
  PROVE  /\ posted' \in Seq(Entry) /\ 1 \in DOMAIN posted /\ Len(posted) \in Nat
         /\ pc["loop"] = Idle
         /\ Head(posted) = posted[1] /\ posted[1].event = e /\ posted[1] \in Entry
         /\ DOMAIN posted' = 1..(Len(posted) - 1) /\ DOMAIN posted = 1..Len(posted)
         /\ \A k \in DOMAIN posted' : k + 1 \in DOMAIN posted /\ posted'[k] = posted[k + 1]
         /\ \A k \in DOMAIN posted : k = 1 \/ (k - 1 \in DOMAIN posted' /\ posted'[k - 1] = posted[k])
  BY DEF SocketTypes, Take

\* Any callback but an Open leaves the Opens that wait as they are.
LEMMA PostedOpensOnce ==
  ASSUME SocketTypes, OpensOnce, NEW e \in EventName, NEW g \in 0..MaxAttempts, Post(e, g),
         e # "open", UNCHANGED <<closed, gen, open>>
  PROVE  OpensOnce'
  <1>1. \A k \in DOMAIN posted' : Is(k, "open", gen)' => k \in DOMAIN posted /\ Is(k, "open", gen)
    BY PostFacts DEF Is
  <1>2. QED
    BY <1>1 DEF OpensOnce, IsPosted


\* What waits still fits if the step changes nothing that matters to it.
LEMMA PostedStillFits ==
  ASSUME SocketTypes, EventsFit, NEW e \in EventName, NEW g \in 0..MaxAttempts, Post(e, g),
         \A x \in Entry : EntryFits(x) => EntryFits(x)', EntryFits([event |-> e, gen |-> g])'
  PROVE  EventsFit'
  BY PostFacts DEF EventsFit, SocketTypes, Post

\* So does what is left when the loop takes one.
LEMMA LeftStillFits ==
  ASSUME SocketTypes, EventsFit, NEW e, Take(e), \A x \in Entry : EntryFits(x) => EntryFits(x)'
  PROVE  EventsFit'
  BY TakeFacts DEF EventsFit, SocketTypes
-----------------------------------------------------------------------------

\* A step that takes no Close of the newest attempt and dials nothing handles no end.
LEMMA EndHandledUnchanged ==
  ASSUME SocketTypes, SocketTypes', NEW e, Take(e), e = "close" => posted[1].gen # gen,
         UNCHANGED <<gen, conns>>,
         \A p \in Goroutine : pc'[p].op = "dial" /\ pc'[p].gen = gen <=> pc[p].op = "dial" /\ pc[p].gen = gen
  PROVE  EndHandled' = EndHandled
  <1>1. EndHandled => EndHandled'
    BY TakeFacts DEF EndHandled, SocketTypes
  <1>2. EndHandled' => EndHandled
    BY TakeFacts DEF EndHandled, SocketTypes
  <1>3. QED
    BY <1>1, <1>2 DEF EndHandled

\* The Close of an attempt is still its last event when the loop has taken one.
LEMMA LeftCloseIsLast ==
  ASSUME SocketTypes, CloseIsLast, NEW e, Take(e) PROVE CloseIsLast'
  <1> SUFFICES ASSUME NEW j \in DOMAIN posted', NEW k \in DOMAIN posted', j < k,
                      posted'[j].event = "close", posted'[k].event \in SocketEvent
               PROVE  posted'[k].gen # posted'[j].gen
    BY DEF CloseIsLast
  <1>1. j + 1 < k + 1 /\ j + 1 \in DOMAIN posted /\ k + 1 \in DOMAIN posted
    BY TakeFacts
  <1>2. QED
    BY <1>1, TakeFacts DEF CloseIsLast

\* A new event of an attempt whose Close does not wait comes after no Close of it.
LEMMA PostedCloseIsLast ==
  ASSUME SocketTypes, CloseIsLast, NEW e \in EventName, NEW g \in 0..MaxAttempts, Post(e, g),
         e \in SocketEvent => \A k \in DOMAIN posted : posted[k].event = "close" => posted[k].gen # g
  PROVE  CloseIsLast'
  <1> SUFFICES ASSUME NEW j \in DOMAIN posted', NEW k \in DOMAIN posted', j < k,
                      posted'[j].event = "close", posted'[k].event \in SocketEvent
               PROVE  posted'[k].gen # posted'[j].gen
    BY DEF CloseIsLast
  <1>1. j \in DOMAIN posted /\ (k \in DOMAIN posted \/ k = Len(posted) + 1)
    BY PostFacts
  <1>2. QED
    BY <1>1, PostFacts DEF CloseIsLast

\* The loop has told the Open of a connection that is up, or still has it to tell.
LEMMA LeftOpenIsTold ==
  ASSUME SocketTypes, OpenIsTold, NEW e, Take(e), UNCHANGED <<closed, gen, conns>>,
         ~closed => open' \/ (~open /\ ~Is(1, "open", gen))
  PROVE  OpenIsTold'
  <1> SUFFICES ASSUME ~closed, gen > 0, conns[gen] = "open", ~open'
               PROVE  IsPosted("open", gen)'
    BY DEF OpenIsTold
  <1>1. PICK k \in DOMAIN posted : Is(k, "open", gen)
    BY DEF OpenIsTold, IsPosted
  <1>2. k - 1 \in DOMAIN posted' /\ posted'[k - 1] = posted[k]
    BY <1>1, TakeFacts
  <1>3. QED
    BY <1>1, <1>2 DEF IsPosted, Is

\* A message that waits still has an Open before it when the loop has taken another
\* event than the Open, or has run that.
LEMMA LeftMessagesFollowOpen ==
  ASSUME SocketTypes, MessagesFollowOpen, NEW e, Take(e), UNCHANGED <<closed, gen>>,
         ~closed => open' \/ (~open /\ ~Is(1, "open", gen))
  PROVE  MessagesFollowOpen'
  <1> SUFFICES ASSUME ~closed, ~open', NEW k \in DOMAIN posted', Is(k, "message", gen)'
               PROVE  \E j \in 1..(k - 1) : Is(j, "open", gen)'
    BY DEF MessagesFollowOpen
  <1>1. k + 1 \in DOMAIN posted /\ Is(k + 1, "message", gen) /\ k \in Nat
    BY TakeFacts DEF Is
  <1>2. PICK j \in 1..k : Is(j, "open", gen)
    BY <1>1 DEF MessagesFollowOpen
  <1>3. j - 1 \in 1..(k - 1) /\ posted'[j - 1] = posted[j]
    BY <1>1, <1>2, TakeFacts DEF Is
  <1>4. QED
    BY <1>2, <1>3 DEF Is

\* A message of a connection that is up waits behind its Open.
LEMMA PostedMessagesFollowOpen ==
  ASSUME SocketTypes, MessagesFollowOpen, UNCHANGED <<closed, gen, open>>,
         NEW e \in EventName, NEW g \in 0..MaxAttempts, Post(e, g),
         e = "message" /\ g = gen /\ ~closed => open \/ IsPosted("open", gen)
  PROVE  MessagesFollowOpen'
  <1> SUFFICES ASSUME ~closed, ~open, NEW k \in DOMAIN posted', Is(k, "message", gen)'
               PROVE  \E j \in 1..(k - 1) : Is(j, "open", gen)'
    BY DEF MessagesFollowOpen
  <1>1. CASE k \in DOMAIN posted
    <2>1. PICK j \in 1..(k - 1) : Is(j, "open", gen)
      BY <1>1, PostFacts DEF MessagesFollowOpen, Is
    <2>2. QED
      BY <1>1, <2>1, PostFacts DEF Is
  <1>2. CASE k = Len(posted) + 1
    <2>1. PICK j \in DOMAIN posted : Is(j, "open", gen)
      BY <1>2, PostFacts DEF Is, IsPosted
    <2>2. QED
      BY <1>2, <2>1, PostFacts DEF Is
  <1>3. QED
    BY <1>1, <1>2, PostFacts

\* So does taking a callback.
LEMMA LeftOpensOnce ==
  ASSUME SocketTypes, OpensOnce, NEW e, Take(e), UNCHANGED <<closed, gen, open>>
  PROVE  OpensOnce'
  <1>1. \A k \in DOMAIN posted' : Is(k, "open", gen)' => k + 1 \in DOMAIN posted /\ Is(k + 1, "open", gen)
    BY TakeFacts DEF Is
  <1>2. \A j, k \in DOMAIN posted' : j + 1 = k + 1 => j = k
    BY TakeFacts
  <1>3. QED
    BY <1>1, <1>2 DEF OpensOnce, IsPosted

\* A callback posted for an attempt handles no end, unless it is the Close of the newest.
LEMMA PostedEndHandled ==
  ASSUME SocketTypes, NEW e \in EventName, NEW g \in 0..MaxAttempts, Post(e, g),
         e = "close" => g # gen, UNCHANGED <<gen, pc>>,
         gen > 0 => (conns'[gen] \in {"none", "ended"} <=> conns[gen] \in {"none", "ended"})
  PROVE  EndHandled' = EndHandled
  <1>1. EndHandled => EndHandled'
    BY PostFacts DEF EndHandled
  <1>2. EndHandled' => EndHandled
    BY PostFacts DEF EndHandled
  <1>3. QED
    BY <1>1, <1>2 DEF EndHandled

\* What the plans for another attempt rest on, any event but reconnect leaves alone.
LEMMA PostedRedialFits ==
  ASSUME SocketTypes, RedialFits, NEW e \in EventName, NEW g \in 0..MaxAttempts, Post(e, g),
         e # "reconnect", UNCHANGED <<closed, gen, timer, pc>>, EndHandled' = EndHandled
  PROVE  RedialFits'
  <1>1. \A k \in DOMAIN posted' : posted'[k].event = "reconnect" =>
          k \in DOMAIN posted /\ posted[k].event = "reconnect"
    BY PostFacts
  <1>2. QED
    BY <1>1 DEF RedialFits

\* No Open and no message waits of an attempt that is not up, also with another event behind.
LEMMA PostedQuietUnlessOpen ==
  ASSUME SocketTypes, QuietUnlessOpen, NEW e \in EventName, NEW g \in 0..MaxAttempts, Post(e, g),
         e \notin {"open", "message"}, UNCHANGED <<closed, gen, open>>, EndHandled' = EndHandled,
         gen > 0 /\ conns'[gen] \in {"none", "connecting"} => conns[gen] = conns'[gen]
  PROVE  QuietUnlessOpen'
  <1>1. \A k \in DOMAIN posted', x \in {"open", "message"} :
          Is(k, x, gen)' => k \in DOMAIN posted /\ Is(k, x, gen)
    BY PostFacts DEF Is
  <1>2. QED
    BY <1>1 DEF QuietUnlessOpen, IsPosted

\* A connection that opens posts its Open, and others leave it where it waits.
LEMMA PostedOpenIsTold ==
  ASSUME SocketTypes, OpenIsTold, NEW e \in EventName, NEW g \in 0..MaxAttempts, Post(e, g),
         UNCHANGED <<closed, gen, open>>,
         gen > 0 /\ conns'[gen] = "open" => conns[gen] = "open" \/ (e = "open" /\ g = gen)
  PROVE  OpenIsTold'
  <1>1. IsPosted("open", gen) => IsPosted("open", gen)'
    BY PostFacts DEF IsPosted, Is
  <1>2. e = "open" /\ g = gen => IsPosted("open", gen)'
    BY PostFacts DEF IsPosted, Is
  <1>3. QED
    BY <1>1, <1>2 DEF OpenIsTold

\* The transport opens a connection (browser_js.go:152).
LEMMA TransportOpenKeepsInv ==
  ASSUME SocketInv, NEW g \in Attempt, TransportOpen(g) PROVE SocketInv' /\ EndHandled' = EndHandled
  <1>1. /\ g \in 1..gen /\ g \in 0..MaxAttempts /\ ~Dialing(g) /\ Post("open", g) /\ "open" \in EventName
        /\ conns[g] = "connecting" /\ conns' = [conns EXCEPT ![g] = "open"]
        /\ UNCHANGED <<closed, gen, conn, open, timer, pc>>
    BY SocketAssumption, PostFacts DEF TransportOpen, socketVars, SocketInv, SocketTypes, CallsFit,
           AttemptsFit, Dialing, Attempt, EventName, SocketEvent, Alive
  <1>2. EndHandled' = EndHandled
    BY <1>1, PostedEndHandled DEF SocketInv, SocketTypes
  <1>3. SocketTypes'
    BY SocketAssumption, <1>1, <1>2, PostFacts DEF SocketInv, SocketTypes
  <1>4. CallsFit'
    BY SocketAssumption, <1>1, <1>2, PostFacts, <1>3 DEF SocketInv, SocketTypes, CallsFit, Calling,
           Unwanted, Attempt, Goroutine, At, Idle, NoConn, EventsFit, EntryFits, Dialing
  <1>5. AttemptsFit'
    BY SocketAssumption, <1>1, <1>2, <1>3 DEF SocketInv, SocketTypes, AttemptsFit, Unwanted,
           Attempt, At
  <1>6. ConnFits'
    BY SocketAssumption, <1>1, <1>2, <1>3 DEF SocketInv, SocketTypes, ConnFits, Alive, Attempt
  <1>7. Owned'
    BY SocketAssumption, <1>1, <1>2, <1>3 DEF SocketInv, SocketTypes, Owned, Alive, Attempt,
           Goroutine, At, Idle, NoConn
  <1>8. EventsFit'
    <2>1. \A x \in Entry : EntryFits(x) => EntryFits(x)'
      BY SocketAssumption, <1>1 DEF Entry, EntryFits, Dialing, SocketEvent, SocketInv, SocketTypes
    <2>2. EntryFits([event |-> "open", gen |-> g])'
      BY SocketAssumption, <1>1 DEF EntryFits, Dialing, SocketEvent
    <2>3. QED
      BY <1>1, <2>1, <2>2, PostedStillFits DEF SocketInv
  <1>9. CloseIsLast'
    BY <1>1, PostedCloseIsLast DEF SocketInv, EventsFit, EntryFits, Alive
  <1>10. RedialFits'
    BY <1>1, <1>2, PostedRedialFits DEF SocketInv
  <1>11. OpensOnce'
    <2>1. CASE g # gen
      <3>1. \A k \in DOMAIN posted' : Is(k, "open", gen)' => k \in DOMAIN posted /\ Is(k, "open", gen)
        BY <1>1, <2>1, PostFacts DEF Is, SocketInv
      <3>2. QED
        BY <1>1, <3>1 DEF SocketInv, OpensOnce, IsPosted
    <2>2. CASE g = gen
      <3>1. ~closed => ~open /\ ~IsPosted("open", gen)
        BY <1>1, <2>2 DEF SocketInv, QuietUnlessOpen
      <3>2. ~closed => \A k \in DOMAIN posted' : Is(k, "open", gen)' => k = Len(posted) + 1
        BY <1>1, <3>1, PostFacts DEF Is, IsPosted, SocketInv
      <3>3. QED
        BY <1>1, <3>1, <3>2 DEF OpensOnce
    <2>3. QED
      BY <2>1, <2>2
  <1>12. MessagesFollowOpen'
    BY <1>1, PostedMessagesFollowOpen DEF SocketInv, OpenIsTold
  <1>13. QuietUnlessOpen'
    <2> SUFFICES ASSUME ~closed, gen > 0, conns'[gen] \in {"none", "connecting"} \/ EndHandled
                 PROVE  ~open /\ ~IsPosted("open", gen)' /\ ~IsPosted("message", gen)'
      BY <1>1, <1>2 DEF QuietUnlessOpen
    <2>1. g # gen /\ conns'[gen] = conns[gen]
      BY <1>1 DEF EndHandled, SocketInv, SocketTypes
    <2>2. ~open /\ ~IsPosted("open", gen) /\ ~IsPosted("message", gen)
      BY <1>1, <2>1 DEF SocketInv, QuietUnlessOpen
    <2>3. QED
      BY <1>1, <2>1, <2>2, PostFacts DEF SocketInv, IsPosted, Is
  <1>14. OpenIsTold'
    BY <1>1, PostedOpenIsTold DEF SocketInv, SocketTypes
  <1>15. QED
    BY <1>2, <1>3, <1>4, <1>5, <1>6, <1>7, <1>8, <1>9, <1>10, <1>11, <1>12, <1>13, <1>14
       DEF SocketInv

\* A message arrives (browser_js.go:156).
LEMMA TransportMessageKeepsInv ==
  ASSUME SocketInv, NEW g \in Attempt, TransportMessage(g) PROVE SocketInv' /\ EndHandled' = EndHandled
  <1>1. /\ g \in 1..gen /\ g \in 0..MaxAttempts /\ ~Dialing(g) /\ Post("message", g) /\ "message" \in EventName
        /\ conns[g] = "open" /\ UNCHANGED conns
        /\ UNCHANGED <<closed, gen, conn, open, timer, pc>>
    BY SocketAssumption, PostFacts DEF TransportMessage, socketVars, SocketInv, SocketTypes,
           CallsFit, AttemptsFit, Dialing, Attempt, EventName, SocketEvent, Alive
  <1>2. EndHandled' = EndHandled
    BY <1>1, PostedEndHandled DEF SocketInv, SocketTypes
  <1>3. SocketTypes'
    BY SocketAssumption, <1>1, <1>2, PostFacts DEF SocketInv, SocketTypes
  <1>4. CallsFit'
    BY SocketAssumption, <1>1, <1>2, PostFacts, <1>3 DEF SocketInv, SocketTypes, CallsFit, Calling,
           Unwanted, Attempt, Goroutine, At, Idle, NoConn, EventsFit, EntryFits, Dialing
  <1>5. AttemptsFit'
    BY SocketAssumption, <1>1, <1>2, <1>3 DEF SocketInv, SocketTypes, AttemptsFit, Unwanted,
           Attempt, At
  <1>6. ConnFits'
    BY SocketAssumption, <1>1, <1>2, <1>3 DEF SocketInv, SocketTypes, ConnFits, Alive, Attempt
  <1>7. Owned'
    BY SocketAssumption, <1>1, <1>2, <1>3 DEF SocketInv, SocketTypes, Owned, Alive, Attempt,
           Goroutine, At, Idle, NoConn
  <1>8. EventsFit'
    <2>1. \A x \in Entry : EntryFits(x) => EntryFits(x)'
      BY SocketAssumption, <1>1 DEF Entry, EntryFits, Dialing, SocketEvent, SocketInv, SocketTypes
    <2>2. EntryFits([event |-> "message", gen |-> g])'
      BY SocketAssumption, <1>1 DEF EntryFits, Dialing, SocketEvent
    <2>3. QED
      BY <1>1, <2>1, <2>2, PostedStillFits DEF SocketInv
  <1>9. CloseIsLast'
    BY <1>1, PostedCloseIsLast DEF SocketInv, EventsFit, EntryFits, Alive
  <1>10. RedialFits'
    BY <1>1, <1>2, PostedRedialFits DEF SocketInv
  <1>11. OpensOnce'
    BY <1>1, PostedOpensOnce DEF SocketInv, SocketEvent
  <1>12. MessagesFollowOpen'
    BY <1>1, PostedMessagesFollowOpen DEF SocketInv, OpenIsTold
  <1>13. QuietUnlessOpen'
    <2> SUFFICES ASSUME ~closed, gen > 0, conns'[gen] \in {"none", "connecting"} \/ EndHandled
                 PROVE  ~open /\ ~IsPosted("open", gen)' /\ ~IsPosted("message", gen)'
      BY <1>1, <1>2 DEF QuietUnlessOpen
    <2>1. g # gen /\ conns'[gen] = conns[gen]
      BY <1>1 DEF EndHandled, SocketInv, SocketTypes
    <2>2. ~open /\ ~IsPosted("open", gen) /\ ~IsPosted("message", gen)
      BY <1>1, <2>1 DEF SocketInv, QuietUnlessOpen
    <2>3. QED
      BY <1>1, <2>1, <2>2, PostFacts DEF SocketInv, IsPosted, Is
  <1>14. OpenIsTold'
    BY <1>1, PostedOpenIsTold DEF SocketInv, SocketTypes
  <1>15. QED
    BY <1>2, <1>3, <1>4, <1>5, <1>6, <1>7, <1>8, <1>9, <1>10, <1>11, <1>12, <1>13, <1>14
       DEF SocketInv

\* A connection drops, fails to open, or closes as asked (browser_js.go:168).
LEMMA TransportCloseKeepsInv ==
  ASSUME SocketInv, NEW g \in Attempt, TransportClose(g) PROVE SocketInv' /\ EndHandled' = EndHandled
  <1>1. /\ g \in 1..gen /\ g \in 0..MaxAttempts /\ ~Dialing(g) /\ Post("close", g) /\ "close" \in EventName
        /\ ((Alive(g) /\ g < MaxAttempts) \/ conns[g] = "closing") /\ conns' = [conns EXCEPT ![g] = "ended"]
        /\ UNCHANGED <<closed, gen, conn, open, timer, pc>>
    BY SocketAssumption, PostFacts DEF TransportClose, socketVars, SocketInv, SocketTypes,
           CallsFit, AttemptsFit, Dialing, Attempt, EventName, SocketEvent, Alive
  <1>2. EndHandled' = EndHandled
    <2>1. CASE g = gen
      <3>1. ~EndHandled /\ ~EndHandled'
        BY <1>1, <2>1, PostFacts DEF EndHandled, Alive, SocketInv
      <3>2. QED
        BY <3>1 DEF EndHandled
    <2>2. CASE g # gen
      <3>1. conns'[gen] = conns[gen]
        BY <1>1, <2>2 DEF SocketInv, SocketTypes
      <3>2. EndHandled => EndHandled'
        BY <1>1, <2>2, <3>1, PostFacts DEF EndHandled, SocketInv
      <3>3. EndHandled' => EndHandled
        BY <1>1, <2>2, <3>1, PostFacts DEF EndHandled, SocketInv
      <3>4. QED
        BY <3>2, <3>3 DEF EndHandled
    <2>3. QED
      BY <2>1, <2>2
  <1>3. SocketTypes'
    BY SocketAssumption, <1>1, <1>2, PostFacts DEF SocketInv, SocketTypes
  <1>4. CallsFit'
    BY SocketAssumption, <1>1, <1>2, PostFacts, <1>3 DEF SocketInv, SocketTypes, CallsFit, Calling,
           Unwanted, Attempt, Goroutine, At, Idle, NoConn, EventsFit, EntryFits, Dialing
  <1>5. AttemptsFit'
    BY SocketAssumption, <1>1, <1>2, <1>3 DEF SocketInv, SocketTypes, AttemptsFit, Unwanted,
           Attempt, At
  <1>6. ConnFits'
    BY SocketAssumption, <1>1, <1>2, <1>3 DEF SocketInv, SocketTypes, ConnFits, Alive, Attempt
  <1>7. Owned'
    BY SocketAssumption, <1>1, <1>2, <1>3 DEF SocketInv, SocketTypes, Owned, Alive, Attempt,
           Goroutine, At, Idle, NoConn
  <1>8. EventsFit'
    <2>1. \A x \in Entry : EntryFits(x) => EntryFits(x)'
      BY SocketAssumption, <1>1 DEF Entry, EntryFits, Dialing, SocketEvent, SocketInv, SocketTypes
    <2>2. EntryFits([event |-> "close", gen |-> g])'
      BY SocketAssumption, <1>1 DEF EntryFits, Dialing, SocketEvent, SocketInv, SocketTypes,
             Attempt, AttemptsFit, Unwanted
    <2>3. QED
      BY <1>1, <2>1, <2>2, PostedStillFits DEF SocketInv
  <1>9. CloseIsLast'
    BY <1>1, PostedCloseIsLast DEF SocketInv, EventsFit, EntryFits, Alive
  <1>10. RedialFits'
    BY <1>1, <1>2, PostedRedialFits DEF SocketInv
  <1>11. OpensOnce'
    BY <1>1, PostedOpensOnce DEF SocketInv, SocketEvent
  <1>12. MessagesFollowOpen'
    BY <1>1, PostedMessagesFollowOpen DEF SocketInv, OpenIsTold
  <1>13. QuietUnlessOpen'
    BY <1>1, <1>2, PostedQuietUnlessOpen DEF SocketInv, SocketTypes, SocketEvent
  <1>14. OpenIsTold'
    BY <1>1, PostedOpenIsTold DEF SocketInv, SocketTypes
  <1>15. QED
    BY <1>2, <1>3, <1>4, <1>5, <1>6, <1>7, <1>8, <1>9, <1>10, <1>11, <1>12, <1>13, <1>14
       DEF SocketInv

\* The reconnection timer fires and posts reconnect.
LEMMA TimerFiresKeepsInv ==
  ASSUME SocketInv, TimerFires PROVE SocketInv' /\ EndHandled' = EndHandled
  <1>1. /\ Post("reconnect", 0) /\ "reconnect" \in EventName /\ 0 \in 0..MaxAttempts
        /\ timer = "armed" /\ timer' = "fired" /\ UNCHANGED <<closed, gen, conn, open, conns, pc>>
    BY SocketAssumption, PostFacts DEF TimerFires, NoConn, EventName
  <1>2. EndHandled' = EndHandled
    BY <1>1, PostFacts DEF EndHandled, SocketInv
  <1>3. SocketTypes'
    BY SocketAssumption, <1>1, <1>2, PostFacts DEF SocketInv, SocketTypes
  <1>4. CallsFit'
    BY SocketAssumption, <1>1, <1>2, PostFacts, <1>3 DEF SocketInv, SocketTypes, CallsFit, Calling,
           Unwanted, Attempt, Goroutine, At, Idle, NoConn, EventsFit, EntryFits, Dialing
  <1>5. AttemptsFit'
    BY SocketAssumption, <1>1, <1>2, <1>3 DEF SocketInv, SocketTypes, AttemptsFit, Unwanted,
           Attempt, At
  <1>6. ConnFits'
    BY SocketAssumption, <1>1, <1>2, <1>3 DEF SocketInv, SocketTypes, ConnFits, Alive, Attempt
  <1>7. Owned'
    BY SocketAssumption, <1>1, <1>2, <1>3 DEF SocketInv, SocketTypes, Owned, Alive, Attempt,
           Goroutine, At, Idle, NoConn
  <1>8. EventsFit'
    <2>1. \A x \in Entry : EntryFits(x) => EntryFits(x)'
      BY SocketAssumption, <1>1 DEF Entry, EntryFits, Dialing, SocketEvent, SocketInv, SocketTypes
    <2>2. EntryFits([event |-> "reconnect", gen |-> 0])'
      BY DEF EntryFits, Dialing, SocketEvent
    <2>3. QED
      BY <1>1, <2>1, <2>2, PostedStillFits DEF SocketInv
  <1>9. CloseIsLast'
    BY <1>1, PostedCloseIsLast DEF SocketInv, SocketEvent
  <1>10. RedialFits'
    BY SocketAssumption, <1>1, <1>2, PostFacts, <1>3 DEF SocketInv, RedialFits, At, Idle,
           SocketTypes
  <1>11. OpensOnce'
    BY <1>1, PostedOpensOnce DEF SocketInv, SocketEvent
  <1>12. MessagesFollowOpen'
    BY <1>1, PostedMessagesFollowOpen DEF SocketInv, OpenIsTold
  <1>13. QuietUnlessOpen'
    BY <1>1, <1>2, PostedQuietUnlessOpen DEF SocketInv, SocketTypes, SocketEvent
  <1>14. OpenIsTold'
    BY <1>1, PostedOpenIsTold DEF SocketInv, SocketTypes
  <1>15. QED
    BY <1>2, <1>3, <1>4, <1>5, <1>6, <1>7, <1>8, <1>9, <1>10, <1>11, <1>12, <1>13, <1>14
       DEF SocketInv

\* The loop takes an event of an attempt that is not live.
LEMMA IgnoredKeepsInv ==
  ASSUME SocketInv, NEW e \in SocketEvent, Ignored(e) PROVE SocketInv' /\ (closed \/ EndHandled' = EndHandled)
  <1>1. /\ SocketTypes /\ Take(e) /\ pc["loop"] = Idle /\ posted[1] \in Entry /\ posted[1].event = e
        /\ ~Live(posted[1].gen) /\ UNCHANGED <<closed, gen, conn, open, timer, conns, pc>>
    BY SocketAssumption, TakeFacts DEF Ignored, Live, SocketInv, socketVars, Goto, NoConn
  <1>2. SocketTypes'
    BY SocketAssumption, <1>1, TakeFacts DEF SocketInv, SocketTypes, Attempt
  <1>3. closed \/ EndHandled' = EndHandled
    <2>1. ~closed => posted[1].gen # gen
      BY <1>1 DEF Live
    <2>2. QED
      BY <1>1, <1>2, <2>1, EndHandledUnchanged
  <1>4. CallsFit'
    BY SocketAssumption, <1>1, <1>3, TakeFacts, <1>2 DEF SocketInv, SocketTypes, CallsFit, Calling,
           Unwanted, Attempt, Goroutine, At, Idle, NoConn, EventsFit, EntryFits, Dialing
  <1>5. AttemptsFit'
    BY SocketAssumption, <1>1, <1>3, <1>2 DEF SocketInv, SocketTypes, AttemptsFit, Unwanted,
           Attempt, At
  <1>6. ConnFits'
    BY SocketAssumption, <1>1, <1>3, <1>2 DEF SocketInv, SocketTypes, ConnFits, Alive, Attempt
  <1>7. Owned'
    BY SocketAssumption, <1>1, <1>3, <1>2 DEF SocketInv, SocketTypes, Owned, Alive, Attempt,
           Goroutine, At, Idle, NoConn
  <1>8. EventsFit'
    <2>1. \A x \in Entry : EntryFits(x) => EntryFits(x)'
      BY <1>1 DEF Entry, EntryFits, Dialing, SocketInv
    <2>2. QED
      BY <1>1, <2>1, LeftStillFits DEF SocketInv
  <1>9. CloseIsLast'
    BY <1>1, LeftCloseIsLast DEF SocketInv
  <1>10. RedialFits'
    BY SocketAssumption, <1>1, <1>3, TakeFacts, <1>2 DEF SocketInv, RedialFits, At, Idle,
           SocketTypes
  <1>11. OpensOnce'
    BY <1>1, LeftOpensOnce DEF SocketInv
  <1>12. MessagesFollowOpen'
    BY <1>1, LeftMessagesFollowOpen DEF SocketInv, Is, OpensOnce, Live
  <1>13. QuietUnlessOpen'
    BY SocketAssumption, <1>1, <1>3, TakeFacts, <1>2 DEF SocketInv, QuietUnlessOpen, SocketTypes,
           Attempt, IsPosted, Is
  <1>14. OpenIsTold'
    BY <1>1, LeftOpenIsTold DEF SocketInv, Is, OpensOnce, Live
  <1>15. QED
    BY <1>3, <1>2, <1>4, <1>5, <1>6, <1>7, <1>8, <1>9, <1>10, <1>11, <1>12, <1>13, <1>14
       DEF SocketInv

\* opened, for the live attempt.
LEMMA OpenedKeepsInv ==
  ASSUME SocketInv, Opened PROVE SocketInv' /\ EndHandled' = EndHandled
  <1>1. /\ SocketTypes /\ Take("open") /\ pc["loop"] = Idle /\ posted[1] \in Entry /\ posted[1].event = "open"
        /\ ~closed /\ posted[1].gen = gen /\ open' = TRUE /\ pc' = [pc EXCEPT !["loop"] = At("OnOpen", gen)]
        /\ UNCHANGED <<closed, gen, conn, timer, conns>>
    <2>1. SocketTypes /\ Take("open") /\ Live(Head(posted).gen)
      BY DEF Opened, SocketInv
    <2>2. Head(posted) = posted[1] /\ pc["loop"] = Idle /\ posted[1] \in Entry /\ posted[1].event = "open"
      BY <2>1, TakeFacts
    <2>3. ~closed /\ posted[1].gen = gen
      BY <2>1, <2>2 DEF Live
    <2>4. QED
      BY <2>1, <2>2, <2>3 DEF Opened, Goto, NoConn, socketVars
  <1>2. SocketTypes'
    BY SocketAssumption, <1>1, TakeFacts DEF SocketInv, SocketTypes, Attempt, Goroutine, Op, At,
           Idle, NoConn, StreamCallbacks
  <1>3. EndHandled' = EndHandled
    BY <1>1, <1>2, EndHandledUnchanged DEF SocketTypes, Goroutine, At, Idle
  <1>4. CallsFit'
    BY SocketAssumption, <1>1, <1>3, TakeFacts, <1>2 DEF SocketInv, SocketTypes, CallsFit, Calling,
           Unwanted, Attempt, Goroutine, At, Idle, NoConn, EventsFit, EntryFits, Dialing
  <1>5. AttemptsFit'
    BY SocketAssumption, <1>1, <1>3, <1>2 DEF SocketInv, SocketTypes, AttemptsFit, Unwanted, Attempt
  <1>6. ConnFits'
    BY SocketAssumption, <1>1, <1>3, <1>2 DEF SocketInv, SocketTypes, ConnFits, Alive, Attempt
  <1>7. Owned'
    BY SocketAssumption, <1>1, <1>3, <1>2 DEF SocketInv, SocketTypes, Owned, Alive, Attempt,
           Goroutine, At, Idle, NoConn
  <1>8. EventsFit'
    <2>1. \A x \in Entry : EntryFits(x) => EntryFits(x)'
      BY <1>1 DEF Entry, EntryFits, Dialing, SocketInv, SocketTypes, At, Goroutine, socketVars, Idle
    <2>2. QED
      BY <1>1, <2>1, LeftStillFits DEF SocketInv
  <1>9. CloseIsLast'
    BY <1>1, LeftCloseIsLast DEF SocketInv
  <1>10. RedialFits'
    BY SocketAssumption, <1>1, <1>3, TakeFacts, <1>2 DEF SocketInv, RedialFits, At, Idle,
           SocketTypes
  <1>11. OpensOnce'
    <2>1. gen \in 1..MaxAttempts
      BY <1>1, TakeFacts DEF SocketInv, EventsFit, EntryFits, SocketEvent, SocketTypes
    <2>2. \A k \in DOMAIN posted' : ~Is(k, "open", gen)'
      <3> SUFFICES ASSUME NEW k \in DOMAIN posted', Is(k, "open", gen)' PROVE FALSE
        OBVIOUS
      <3>1. k + 1 \in DOMAIN posted /\ Is(k + 1, "open", gen) /\ Is(1, "open", gen) /\ 1 \in DOMAIN posted
        BY <1>1, TakeFacts DEF Is
      <3>2. k + 1 = 1
        BY <1>1, <3>1 DEF SocketInv, OpensOnce
      <3>3. QED
        BY <1>1, <3>2, TakeFacts
    <2>3. QED
      BY <1>1, <2>1, <2>2 DEF OpensOnce, IsPosted
  <1>12. MessagesFollowOpen'
    BY <1>1, LeftMessagesFollowOpen DEF SocketInv, Is, OpensOnce, Live
  <1>13. QuietUnlessOpen'
    BY SocketAssumption, <1>1, <1>3, TakeFacts, <1>2 DEF SocketInv, QuietUnlessOpen, SocketTypes,
           Attempt, IsPosted, Is
  <1>14. OpenIsTold'
    BY <1>1, LeftOpenIsTold DEF SocketInv, Is, OpensOnce, Live
  <1>15. QED
    BY <1>3, <1>2, <1>4, <1>5, <1>6, <1>7, <1>8, <1>9, <1>10, <1>11, <1>12, <1>13, <1>14
       DEF SocketInv

\* message, for the live attempt.
LEMMA MessagedKeepsInv ==
  ASSUME SocketInv, Messaged PROVE SocketInv' /\ EndHandled' = EndHandled
  <1>1. /\ SocketTypes /\ Take("message") /\ pc["loop"] = Idle /\ posted[1] \in Entry /\ posted[1].event = "message"
        /\ ~closed /\ posted[1].gen = gen /\ pc' = [pc EXCEPT !["loop"] = At("OnMessage", gen)]
        /\ UNCHANGED <<closed, gen, conn, open, timer, conns>>
    <2>1. SocketTypes /\ Take("message") /\ Live(Head(posted).gen)
      BY DEF Messaged, SocketInv
    <2>2. Head(posted) = posted[1] /\ pc["loop"] = Idle /\ posted[1] \in Entry /\ posted[1].event = "message"
      BY <2>1, TakeFacts
    <2>3. ~closed /\ posted[1].gen = gen
      BY <2>1, <2>2 DEF Live
    <2>4. QED
      BY <2>1, <2>2, <2>3 DEF Messaged, Goto, NoConn, socketVars
  <1>2. SocketTypes'
    BY SocketAssumption, <1>1, TakeFacts DEF SocketInv, SocketTypes, Attempt, Goroutine, Op, At,
           Idle, NoConn, StreamCallbacks
  <1>3. EndHandled' = EndHandled
    BY <1>1, <1>2, EndHandledUnchanged DEF SocketTypes, Goroutine, At, Idle
  <1>4. CallsFit'
    BY SocketAssumption, <1>1, <1>3, TakeFacts, <1>2 DEF SocketInv, SocketTypes, CallsFit, Calling,
           Unwanted, Attempt, Goroutine, At, Idle, NoConn, EventsFit, EntryFits, Dialing
  <1>5. AttemptsFit'
    BY SocketAssumption, <1>1, <1>3, <1>2 DEF SocketInv, SocketTypes, AttemptsFit, Unwanted, Attempt
  <1>6. ConnFits'
    BY SocketAssumption, <1>1, <1>3, <1>2 DEF SocketInv, SocketTypes, ConnFits, Alive, Attempt
  <1>7. Owned'
    BY SocketAssumption, <1>1, <1>3, <1>2 DEF SocketInv, SocketTypes, Owned, Alive, Attempt,
           Goroutine, At, Idle, NoConn
  <1>8. EventsFit'
    <2>1. \A x \in Entry : EntryFits(x) => EntryFits(x)'
      BY <1>1 DEF Entry, EntryFits, Dialing, SocketInv, SocketTypes, At, Goroutine, socketVars, Idle
    <2>2. QED
      BY <1>1, <2>1, LeftStillFits DEF SocketInv
  <1>9. CloseIsLast'
    BY <1>1, LeftCloseIsLast DEF SocketInv
  <1>10. RedialFits'
    BY SocketAssumption, <1>1, <1>3, TakeFacts, <1>2 DEF SocketInv, RedialFits, At, Idle,
           SocketTypes
  <1>11. OpensOnce'
    BY <1>1, LeftOpensOnce DEF SocketInv
  <1>12. MessagesFollowOpen'
    BY <1>1, LeftMessagesFollowOpen DEF SocketInv, Is, OpensOnce, Live
  <1>13. QuietUnlessOpen'
    BY SocketAssumption, <1>1, <1>3, TakeFacts, <1>2 DEF SocketInv, QuietUnlessOpen, SocketTypes,
           Attempt, IsPosted, Is
  <1>14. OpenIsTold'
    BY <1>1, LeftOpenIsTold DEF SocketInv, Is, OpensOnce, Live
  <1>15. QED
    BY <1>3, <1>2, <1>4, <1>5, <1>6, <1>7, <1>8, <1>9, <1>10, <1>11, <1>12, <1>13, <1>14
       DEF SocketInv

\* ended, for the live attempt: the timer is armed for the next one.
LEMMA EndedKeepsInv ==
  ASSUME SocketInv, Ended PROVE SocketInv' /\ (~EndHandled /\ EndHandled')
  <1>1. /\ SocketTypes /\ Take("close") /\ pc["loop"] = Idle /\ posted[1] \in Entry /\ posted[1].event = "close"
        /\ ~closed /\ posted[1].gen = gen /\ pc' = [pc EXCEPT !["loop"] = At("OnClose", gen)]
        /\ conn' = NoConn /\ open' = FALSE /\ (timer' = "armed" \/ timer' = timer)
        /\ UNCHANGED <<closed, gen, conns>>
    <2>1. SocketTypes /\ Take("close") /\ Live(Head(posted).gen)
      BY DEF Ended, SocketInv
    <2>2. Head(posted) = posted[1] /\ pc["loop"] = Idle /\ posted[1] \in Entry /\ posted[1].event = "close"
      BY <2>1, TakeFacts
    <2>3. ~closed /\ posted[1].gen = gen
      BY <2>1, <2>2 DEF Live
    <2>4. QED
      BY <2>1, <2>2, <2>3 DEF Ended, Goto, NoConn, socketVars
  <1>2. SocketTypes'
    <2>1. posted' \in Seq(Entry)
      BY <1>1, TakeFacts
    <2>2. At("OnClose", gen) \in [op : Op, gen : 0..MaxAttempts]
      BY <1>1 DEF At, Op, SocketTypes
    <2>3. pc' \in [Goroutine -> [op : Op, gen : 0..MaxAttempts]]
      BY <1>1, <2>2 DEF SocketTypes
    <2>4. conn' \in 0..MaxAttempts
      BY SocketAssumption, <1>1 DEF NoConn
    <2>5. open' \in BOOLEAN
      BY <1>1
    <2>6. timer' \in {"none", "armed", "fired"}
      BY <1>1 DEF SocketTypes
    <2>7. QED
      BY <1>1, <2>1, <2>3, <2>4, <2>5, <2>6 DEF SocketTypes
  <1>3. /\ ~EndHandled /\ EndHandled'
        /\ \A k \in DOMAIN posted' : posted'[k].event \in SocketEvent => posted'[k].gen # gen
    <2>1. EntryFits(posted[1]) /\ gen \in 1..MaxAttempts
      BY <1>1, TakeFacts DEF SocketInv, EventsFit, EntryFits, SocketEvent, SocketTypes
    <2>2. ~EndHandled
      BY <1>1, TakeFacts DEF EndHandled
    <2>3. \A k \in DOMAIN posted' : posted'[k].event \in SocketEvent => posted'[k].gen # gen
      BY <1>1, TakeFacts DEF SocketInv, CloseIsLast
    <2>4. EndHandled'
      <3>1. \A p \in Goroutine : ~(pc'[p].op = "dial" /\ pc'[p].gen = gen)
        BY <1>1, <2>1 DEF EntryFits, Dialing, SocketEvent, SocketTypes, At, Goroutine
      <3>2. QED
        BY <1>1, <1>2, <2>1, <2>3, <3>1 DEF EndHandled, EntryFits, SocketEvent, SocketTypes
    <2>5. QED
      BY <2>2, <2>3, <2>4
  <1>4. CallsFit'
    BY SocketAssumption, <1>1, <1>3, TakeFacts, <1>2 DEF SocketInv, SocketTypes, CallsFit, Calling,
           Unwanted, Attempt, Goroutine, At, Idle, NoConn, EventsFit, EntryFits, Dialing
  <1>5. AttemptsFit'
    BY SocketAssumption, <1>1, <1>3, <1>2 DEF SocketInv, SocketTypes, AttemptsFit, Unwanted,
           Attempt, At
  <1>6. ConnFits'
    BY SocketAssumption, <1>1, <1>3, <1>2 DEF SocketInv, SocketTypes, ConnFits, Alive, Attempt
  <1>7. Owned'
    <2>1. ~(conn \in Attempt /\ Alive(conn))
      BY <1>1, <1>3 DEF SocketInv, ConnFits, EndHandled, Alive, NoConn, Attempt
    <2>2. QED
      BY <1>1, <1>2, <2>1 DEF SocketInv, SocketTypes, Owned, Alive, Goroutine, At, Idle
  <1>8. EventsFit'
    <2>1. \A x \in Entry : EntryFits(x) => EntryFits(x)'
      BY <1>1 DEF Entry, EntryFits, Dialing, SocketInv, SocketTypes, At, Goroutine, socketVars, Idle
    <2>2. QED
      BY <1>1, <2>1, LeftStillFits DEF SocketInv
  <1>9. CloseIsLast'
    BY <1>1, LeftCloseIsLast DEF SocketInv
  <1>10. RedialFits'
    <2>1. gen < MaxAttempts /\ gen > 0
      BY <1>1, <1>3, TakeFacts DEF SocketInv, EventsFit, EntryFits, EndHandled
    <2>2. timer = "none" /\ \A k \in DOMAIN posted : posted[k].event # "reconnect"
      BY <1>1, <1>3 DEF SocketInv, RedialFits
    <2>3. pc'["user"] = pc["user"] /\ pc'["loop"].op = "OnClose"
      BY <1>1 DEF SocketTypes, Goroutine, At
    <2>4. QED
      BY <1>1, <1>3, <2>1, <2>2, <2>3, TakeFacts DEF SocketInv, RedialFits
  <1>11. OpensOnce'
    BY <1>1, <1>3 DEF OpensOnce, IsPosted, Is, SocketEvent
  <1>12. MessagesFollowOpen'
    BY <1>1, <1>3 DEF MessagesFollowOpen, Is, SocketEvent
  <1>13. QuietUnlessOpen'
    BY <1>1, <1>3 DEF QuietUnlessOpen, IsPosted, Is, SocketEvent
  <1>14. OpenIsTold'
    BY <1>1, <1>3 DEF OpenIsTold, EndHandled
  <1>15. QED
    BY <1>3, <1>2, <1>4, <1>5, <1>6, <1>7, <1>8, <1>9, <1>10, <1>11, <1>12, <1>13, <1>14
       DEF SocketInv

\* reconnect, on the loop once the timer has fired.
LEMMA ReconnectKeepsInv ==
  ASSUME SocketInv, Reconnect PROVE SocketInv' /\ EndHandled' = EndHandled
  <1>1. /\ SocketTypes /\ Take("reconnect") /\ pc["loop"] = Idle /\ posted[1] \in Entry /\ posted[1].event = "reconnect"
        /\ \/ closed /\ UNCHANGED <<timer, pc>>
           \/ ~closed /\ timer' = "none" /\ pc' = [pc EXCEPT !["loop"] = At("connect", NoConn)]
        /\ UNCHANGED <<closed, gen, conn, open, conns>>
    BY SocketAssumption, TakeFacts DEF Reconnect, Live, SocketInv, socketVars, Goto, NoConn
  <1>2. SocketTypes'
    BY SocketAssumption, <1>1, TakeFacts DEF SocketInv, SocketTypes, Attempt, Goroutine, Op, At,
           Idle, NoConn, StreamCallbacks
  <1>3. EndHandled' = EndHandled
    BY <1>1, <1>2, EndHandledUnchanged DEF SocketTypes, Goroutine, At, Idle
  <1>4. CallsFit'
    BY SocketAssumption, <1>1, <1>3, TakeFacts, <1>2 DEF SocketInv, SocketTypes, CallsFit, Calling,
           Unwanted, Attempt, Goroutine, At, Idle, NoConn, EventsFit, EntryFits, Dialing
  <1>5. AttemptsFit'
    BY SocketAssumption, <1>1, <1>3, <1>2 DEF SocketInv, SocketTypes, AttemptsFit, Unwanted, Attempt
  <1>6. ConnFits'
    BY SocketAssumption, <1>1, <1>3, <1>2 DEF SocketInv, SocketTypes, ConnFits, Alive, Attempt
  <1>7. Owned'
    BY SocketAssumption, <1>1, <1>3, <1>2 DEF SocketInv, SocketTypes, Owned, Alive, Attempt,
           Goroutine, At, Idle, NoConn
  <1>8. EventsFit'
    <2>1. \A x \in Entry : EntryFits(x) => EntryFits(x)'
      BY <1>1 DEF Entry, EntryFits, Dialing, SocketInv, SocketTypes, At, Goroutine, socketVars, Idle
    <2>2. QED
      BY <1>1, <2>1, LeftStillFits DEF SocketInv
  <1>9. CloseIsLast'
    BY <1>1, LeftCloseIsLast DEF SocketInv
  <1>10. RedialFits'
    BY SocketAssumption, <1>1, <1>3, TakeFacts, <1>2 DEF SocketInv, RedialFits, At, Idle,
           SocketTypes, Goroutine
  <1>11. OpensOnce'
    BY SocketAssumption, <1>1, <1>3, TakeFacts, <1>2 DEF SocketInv, OpensOnce, QuietUnlessOpen,
           IsPosted, Is, SocketTypes, Attempt
  <1>12. MessagesFollowOpen'
    BY <1>1, LeftMessagesFollowOpen DEF SocketInv, Is, OpensOnce, Live
  <1>13. QuietUnlessOpen'
    BY SocketAssumption, <1>1, <1>3, TakeFacts, <1>2 DEF SocketInv, QuietUnlessOpen, SocketTypes,
           Attempt, IsPosted, Is
  <1>14. OpenIsTold'
    BY <1>1, LeftOpenIsTold DEF SocketInv, Is, OpensOnce, Live
  <1>15. QED
    BY <1>3, <1>2, <1>4, <1>5, <1>6, <1>7, <1>8, <1>9, <1>10, <1>11, <1>12, <1>13, <1>14
       DEF SocketInv

\* connect starts an attempt: the one before it is over and its end is handled.
LEMMA ConnectKeepsInv ==
  ASSUME SocketInv, NEW p \in Goroutine, Connect(p) PROVE SocketInv' /\ (~closed => ~EndHandled')
  <1>1. CASE closed
    <2>1. pc[p].op = "connect" /\ pc' = [pc EXCEPT ![p] = Idle] /\ UNCHANGED <<socketVars, conns, posted>>
      BY <1>1 DEF Connect, Goto, socketVars
    <2>2. SocketTypes'
      <3>1. Idle \in [op : Op, gen : 0..MaxAttempts]
        BY SocketAssumption DEF Idle, At, NoConn, Op
      <3>2. QED
        BY <2>1, <3>1 DEF socketVars, SocketInv, SocketTypes
    <2>3. CallsFit' /\ AttemptsFit' /\ ConnFits' /\ Owned'
      BY <2>1 DEF socketVars, SocketInv, SocketTypes, CallsFit, Calling, AttemptsFit, ConnFits,
             Owned, Alive, Unwanted, Idle, At
    <2>4. EventsFit' /\ CloseIsLast'
      BY <2>1 DEF socketVars, SocketInv, SocketTypes, EventsFit, EntryFits, CloseIsLast, Dialing,
             Idle, At
    <2>5. RedialFits' /\ OpensOnce' /\ MessagesFollowOpen' /\ QuietUnlessOpen' /\ OpenIsTold'
      BY <1>1, <2>1 DEF socketVars, RedialFits, OpensOnce, MessagesFollowOpen, QuietUnlessOpen,
             OpenIsTold
    <2>6. QED
      BY <1>1, <2>2, <2>3, <2>4, <2>5 DEF SocketInv
  <1>2. CASE ~closed
    <2> DEFINE g == gen + 1
    <2>1. /\ pc[p].op = "connect" /\ p \in {"user", "loop"} /\ g \in Attempt /\ gen \in Nat
          /\ gen' = g /\ pc' = [pc EXCEPT ![p] = At("dial", g)]
          /\ UNCHANGED <<closed, conn, open, timer, conns, posted>>
      BY <1>2, SocketAssumption DEF Connect, Goto, SocketInv, SocketTypes, CallsFit, RedialFits,
             Attempt, Goroutine
    <2>2. timer = "none" /\ (p = "user" => gen = 0) /\ (p = "loop" => EndHandled)
      BY <1>2, <2>1 DEF SocketInv, SocketTypes, RedialFits, EndHandled, Goroutine
    <2>3. ~open
      BY <1>2, <2>1, <2>2 DEF SocketInv, SocketTypes, OpensOnce, QuietUnlessOpen, EndHandled
    <2>4. conns[g] = "none" /\ \A k \in DOMAIN posted : posted[k].event \in SocketEvent => posted[k].gen # g
      BY <2>1 DEF SocketInv, SocketTypes, AttemptsFit, EventsFit, EntryFits
    <2>5. \A k \in DOMAIN posted : posted[k].event # "reconnect"
      BY <1>2, <2>2 DEF SocketInv, RedialFits
    <2>6. \A q \in Goroutine : Calling(q) => pc[q].gen \in 1..gen
      BY DEF SocketInv, CallsFit
    <2>7. pc' \in [Goroutine -> [op : Op, gen : 0..MaxAttempts]] /\ pc'[p] = At("dial", g)
          /\ \A q \in Goroutine : q # p => pc'[q] = pc[q]
      <3>1. At("dial", g) \in [op : Op, gen : 0..MaxAttempts]
        BY <2>1 DEF At, Op, Attempt
      <3>2. QED
        BY <2>1, <3>1 DEF SocketInv, SocketTypes
    <2>8. SocketTypes'
      BY <2>1, <2>7 DEF SocketInv, SocketTypes, Attempt
    <2>9. CallsFit'
      BY <2>1, <2>4 DEF SocketInv, SocketTypes, CallsFit, Calling, Unwanted, At
    <2>10. AttemptsFit'
      BY <2>1, <2>4 DEF SocketInv, SocketTypes, AttemptsFit, Unwanted, Attempt
    <2>11. ConnFits'
      <3>1. conn # NoConn => conn # g /\ conn \in Attempt /\ ~Alive(conn)
        BY <2>1, <2>2 DEF SocketInv, SocketTypes, ConnFits, Alive, EndHandled, NoConn, Attempt,
               Goroutine
      <3>2. QED
        BY <1>2, <2>1, <3>1 DEF SocketInv, SocketTypes, ConnFits, Alive, NoConn
    <2>12. Owned'
      BY <2>1, <2>7 DEF SocketInv, SocketTypes, Owned, Alive
    <2>13. EventsFit'
      <3>1. \A x : x # g /\ Dialing(x)' => Dialing(x)
        BY <2>7 DEF Dialing, At
      <3>2. \A k \in DOMAIN posted : EntryFits(posted[k])'
        BY <2>1, <2>4, <3>1 DEF SocketInv, EventsFit, EntryFits
      <3>3. QED
        BY <2>1, <3>2 DEF EventsFit
    <2>14. CloseIsLast'
      BY <2>1 DEF SocketInv, CloseIsLast
    <2>15. RedialFits'
      BY <1>2, <2>1, <2>7 DEF SocketInv, RedialFits, At, EndHandled, Goroutine
    <2>16. OpensOnce' /\ MessagesFollowOpen' /\ QuietUnlessOpen' /\ OpenIsTold'
      BY <2>1, <2>3, <2>4 DEF OpensOnce, MessagesFollowOpen, QuietUnlessOpen, OpenIsTold, IsPosted,
             Is, SocketEvent
    <2>17. ~EndHandled'
      BY <2>1, <2>7 DEF EndHandled, At
    <2>18. QED
      BY <2>8, <2>9, <2>10, <2>11, <2>12, <2>13, <2>14, <2>15, <2>16, <2>17 DEF SocketInv
  <1>3. QED
    BY <1>1, <1>2

\* connect stores the connection Dial returned, or is to drop it if Close ran.
LEMMA KeepConnKeepsInv ==
  ASSUME SocketInv, NEW p \in Goroutine, KeepConn(p) PROVE SocketInv' /\ (EndHandled' = EndHandled)
  <1>1. SocketTypes'
    <2>1. pc' \in [Goroutine -> [op : Op, gen : 0..MaxAttempts]]
      <3>1. Idle \in [op : Op, gen : 0..MaxAttempts]
        BY SocketAssumption DEF Idle, At, NoConn, Op
      <3>2. At("drop", pc[p].gen) \in [op : Op, gen : 0..MaxAttempts]
        BY DEF At, Op, SocketInv, SocketTypes
      <3>3. QED
        BY <3>1, <3>2 DEF KeepConn, Goto, SocketInv, SocketTypes
    <2>2. conn' \in 0..MaxAttempts
      BY DEF KeepConn, SocketInv, SocketTypes
    <2>3. QED
      BY <2>1, <2>2 DEF KeepConn, SocketInv, SocketTypes
  <1>2. EndHandled' = EndHandled
    <2>1. conns'[gen] \in {"none", "ended"} <=> conns[gen] \in {"none", "ended"}
      BY DEF KeepConn, SocketInv, SocketTypes, CallsFit, Calling
    <2>2. \A q \in Goroutine : pc'[q].op = "dial" /\ pc'[q].gen = gen <=> pc[q].op = "dial" /\ pc[q].gen = gen
      BY DEF KeepConn, Goto, At, Idle, SocketInv, SocketTypes, Goroutine, StreamCallbacks
    <2>3. DOMAIN pc = Goroutine /\ DOMAIN pc' = Goroutine
      BY <1>1 DEF SocketInv, SocketTypes
    <2>4. QED
      BY <2>1, <2>2, <2>3 DEF KeepConn, EndHandled, socketVars
  <1>3. CallsFit'
    BY SocketAssumption DEF KeepConn, Goto, At, Idle, SocketInv, SocketTypes, CallsFit, Calling,
           Unwanted, NoConn, Goroutine
  <1>4. AttemptsFit'
    BY SocketAssumption DEF KeepConn, Goto, At, Idle, SocketInv, SocketTypes, AttemptsFit,
           Unwanted, Attempt, NoConn, Goroutine
  <1>5. ConnFits'
    BY SocketAssumption DEF KeepConn, Goto, At, Idle, SocketInv, SocketTypes, ConnFits, Unwanted,
           Alive, NoConn, Goroutine, CallsFit, Calling
  <1>6. Owned'
    BY SocketAssumption DEF KeepConn, Goto, At, Idle, SocketInv, SocketTypes, Owned, Unwanted,
           Alive, Attempt, NoConn, Goroutine, CallsFit, Calling, ConnFits
  <1>7. EventsFit'
    <2>1. UNCHANGED <<closed, gen, conns, posted>>
      BY DEF KeepConn
    <2>2. ASSUME NEW g PROVE Dialing(g)' <=> Dialing(g)
      BY DEF KeepConn, Goto, At, Idle, Dialing, SocketInv, SocketTypes, Goroutine
    <2>3. \A k \in DOMAIN posted : EntryFits(posted[k]) => EntryFits(posted[k])'
      BY <2>1, <2>2 DEF EntryFits
    <2>4. QED
      BY <2>1, <2>3 DEF SocketInv, EventsFit
  <1>8. CloseIsLast'
    BY SocketAssumption DEF KeepConn, Goto, At, Idle, SocketInv, SocketTypes, CloseIsLast,
           Unwanted, NoConn, Goroutine, SocketEvent
  <1>9. RedialFits'
    BY SocketAssumption, <1>2 DEF KeepConn, Goto, At, Idle, SocketInv, SocketTypes, RedialFits,
           Unwanted, NoConn, Goroutine
  <1>10. OpensOnce'
    BY SocketAssumption DEF KeepConn, Goto, At, Idle, SocketInv, SocketTypes, OpensOnce, Unwanted,
           Is, IsPosted, NoConn
  <1>11. MessagesFollowOpen'
    BY SocketAssumption DEF KeepConn, Goto, At, Idle, SocketInv, SocketTypes, MessagesFollowOpen,
           Unwanted, Is, NoConn, Goroutine
  <1>12. QuietUnlessOpen'
    BY SocketAssumption, <1>2 DEF KeepConn, SocketInv, SocketTypes, QuietUnlessOpen, Unwanted, Is,
           IsPosted, NoConn, Goroutine
  <1>13. OpenIsTold'
    BY SocketAssumption DEF KeepConn, Goto, At, Idle, SocketInv, SocketTypes, OpenIsTold, Unwanted,
           Is, IsPosted, NoConn
  <1>14. QED
    BY <1>2, <1>1, <1>3, <1>4, <1>5, <1>6, <1>7, <1>8, <1>9, <1>10, <1>11, <1>12, <1>13
       DEF SocketInv

\* conn.Close, outside the lock.
LEMMA DropKeepsInv ==
  ASSUME SocketInv, NEW p \in Goroutine, Drop(p) PROVE SocketInv' /\ (EndHandled' = EndHandled)
  <1>1. SocketTypes'
    <2>1. Idle \in [op : Op, gen : 0..MaxAttempts]
      BY SocketAssumption DEF Idle, At, NoConn, Op
    <2>2. conns' \in [Attempt -> {"none", "connecting", "open", "closing", "ended"}]
      BY DEF Drop, SocketInv, SocketTypes
    <2>3. QED
      BY <2>1, <2>2 DEF Drop, Goto, socketVars, SocketInv, SocketTypes
  <1>2. EndHandled' = EndHandled
    <2>1. conns'[gen] \in {"none", "ended"} <=> conns[gen] \in {"none", "ended"}
      BY DEF Drop, SocketInv, SocketTypes, CallsFit, Calling
    <2>2. \A q \in Goroutine : pc'[q].op = "dial" /\ pc'[q].gen = gen <=> pc[q].op = "dial" /\ pc[q].gen = gen
      BY DEF Drop, Goto, At, Idle, SocketInv, SocketTypes, Goroutine, StreamCallbacks
    <2>3. DOMAIN pc = Goroutine /\ DOMAIN pc' = Goroutine
      BY <1>1 DEF SocketInv, SocketTypes
    <2>4. QED
      BY <2>1, <2>2, <2>3 DEF Drop, EndHandled, socketVars
  <1>3. CallsFit'
    BY SocketAssumption DEF Drop, Goto, At, Idle, socketVars, SocketInv, SocketTypes, CallsFit,
           Calling, Unwanted, NoConn
  <1>4. AttemptsFit'
    BY SocketAssumption DEF Drop, Goto, At, Idle, socketVars, SocketInv, SocketTypes, AttemptsFit,
           Unwanted, Attempt, NoConn, Goroutine, CallsFit
  <1>5. ConnFits'
    BY SocketAssumption DEF Drop, Goto, At, Idle, socketVars, SocketInv, SocketTypes, ConnFits,
           Alive, NoConn, Goroutine
  <1>6. Owned'
    BY SocketAssumption DEF Drop, Goto, At, Idle, socketVars, SocketInv, SocketTypes, Owned, Alive,
           Attempt, NoConn
  <1>7. EventsFit'
    BY SocketAssumption DEF Drop, Goto, At, Idle, socketVars, SocketInv, SocketTypes, EventsFit,
           EntryFits, Dialing, NoConn, Goroutine, SocketEvent, CallsFit, Calling
  <1>8. CloseIsLast'
    BY SocketAssumption DEF Drop, Goto, SocketInv, SocketTypes, CloseIsLast, NoConn, Goroutine,
           SocketEvent
  <1>9. RedialFits'
    BY SocketAssumption, <1>2 DEF Drop, Goto, At, Idle, socketVars, SocketInv, SocketTypes,
           RedialFits, NoConn, Goroutine
  <1>10. OpensOnce'
    BY SocketAssumption DEF Drop, Goto, At, Idle, socketVars, SocketInv, SocketTypes, OpensOnce,
           Is, IsPosted, NoConn
  <1>11. MessagesFollowOpen'
    BY SocketAssumption DEF Drop, Goto, At, Idle, socketVars, SocketInv, SocketTypes,
           MessagesFollowOpen, Is, NoConn, Goroutine
  <1>12. QuietUnlessOpen'
    BY SocketAssumption, <1>2 DEF Drop, socketVars, SocketInv, SocketTypes, QuietUnlessOpen, Is,
           IsPosted, NoConn, Goroutine
  <1>13. OpenIsTold'
    BY SocketAssumption DEF Drop, Goto, At, Idle, socketVars, SocketInv, SocketTypes, OpenIsTold,
           Is, IsPosted, NoConn
  <1>14. QED
    BY <1>2, <1>1, <1>3, <1>4, <1>5, <1>6, <1>7, <1>8, <1>9, <1>10, <1>11, <1>12, <1>13
       DEF SocketInv

\* Close: from now on nobody wants any connection.
LEMMA CloseKeepsInv ==
  ASSUME SocketInv, Close PROVE SocketInv'
  <1>1. SocketTypes'
    <2>1. pc' \in [Goroutine -> [op : Op, gen : 0..MaxAttempts]]
      BY DEF Close, Goto, At, Idle, NoConn, Op, SocketInv, SocketTypes
    <2>2. conn' \in 0..MaxAttempts
      BY SocketAssumption DEF Close, NoConn
    <2>3. closed' \in BOOLEAN /\ open' \in BOOLEAN /\ timer' \in {"none", "armed", "fired"}
      BY DEF Close
    <2>4. QED
      BY <2>1, <2>2, <2>3 DEF Close, SocketInv, SocketTypes
  <1>2. CallsFit'
    BY SocketAssumption DEF Close, Goto, At, Idle, SocketInv, SocketTypes, CallsFit, Calling,
           Unwanted, NoConn, Goroutine, ConnFits, Attempt
  <1>3. AttemptsFit'
    BY SocketAssumption DEF Close, Goto, At, Idle, SocketInv, SocketTypes, AttemptsFit, Unwanted,
           Attempt, NoConn, Goroutine
  <1>4. ConnFits'
    BY SocketAssumption DEF Close, Goto, At, Idle, SocketInv, SocketTypes, ConnFits, Alive, NoConn
  <1>5. Owned'
    BY SocketAssumption DEF Close, Goto, At, Idle, SocketInv, SocketTypes, Owned, Alive, Attempt,
           NoConn, Goroutine, CallsFit
  <1>6. EventsFit'
    BY SocketAssumption DEF Close, Goto, At, Idle, SocketInv, SocketTypes, EventsFit, EntryFits,
           Dialing, NoConn, Goroutine
  <1>7. CloseIsLast'
    BY SocketAssumption DEF Close, Goto, At, Idle, SocketInv, SocketTypes, CloseIsLast, NoConn,
           Goroutine
  <1>8. RedialFits'
    BY SocketAssumption DEF Close, Goto, At, Idle, SocketInv, SocketTypes, RedialFits, EndHandled,
           NoConn
  <1>9. OpensOnce'
    BY SocketAssumption DEF Close, Goto, SocketTypes, OpensOnce, Is, IsPosted, NoConn, Goroutine
  <1>10. MessagesFollowOpen'
    BY SocketAssumption DEF Close, Goto, At, Idle, SocketInv, SocketTypes, MessagesFollowOpen, Is,
           NoConn
  <1>11. QuietUnlessOpen'
    BY SocketAssumption DEF Close, Goto, At, Idle, SocketInv, SocketTypes, QuietUnlessOpen, Is,
           IsPosted, EndHandled, NoConn
  <1>12. OpenIsTold'
    BY SocketAssumption DEF Close, Goto, SocketTypes, OpenIsTold, Is, IsPosted, NoConn, Goroutine
  <1>13. QED
    BY <1>1, <1>2, <1>3, <1>4, <1>5, <1>6, <1>7, <1>8, <1>9, <1>10, <1>11, <1>12 DEF SocketInv

\* The user's callback of a socket or of a stream returns.
LoopReturns ==
  /\ pc["loop"].op \in {"OnOpen", "OnMessage", "OnClose"} \union StreamCallbacks
  /\ Goto("loop", Idle)
  /\ UNCHANGED <<socketVars, conns, posted>>

\* A callback of the user returns to the loop.
LEMMA LoopReturnsKeepsInv ==
  ASSUME SocketInv, LoopReturns PROVE SocketInv' /\ EndHandled' = EndHandled
  <1>1. SocketTypes'
    BY SocketAssumption DEF LoopReturns, StreamCallbacks, Goto, At, Idle, socketVars, SocketInv,
           SocketTypes, Attempt, NoConn, Goroutine, Op, EventName, SocketEvent, StreamEventName
  <1>2. EndHandled' = EndHandled
    <2>1. conns'[gen] \in {"none", "ended"} <=> conns[gen] \in {"none", "ended"}
      BY DEF LoopReturns, SocketInv, SocketTypes, CallsFit, Calling
    <2>2. \A q \in Goroutine : pc'[q].op = "dial" /\ pc'[q].gen = gen <=> pc[q].op = "dial" /\ pc[q].gen = gen
      BY DEF LoopReturns, StreamCallbacks, Goto, At, Idle, SocketInv, SocketTypes, Goroutine
    <2>3. DOMAIN pc = Goroutine /\ DOMAIN pc' = Goroutine
      BY <1>1 DEF SocketInv, SocketTypes
    <2>4. QED
      BY <2>1, <2>2, <2>3 DEF LoopReturns, StreamCallbacks, EndHandled, socketVars
  <1>3. CallsFit'
    BY SocketAssumption DEF LoopReturns, StreamCallbacks, Goto, At, Idle, socketVars, SocketInv,
           SocketTypes, CallsFit, Calling, Unwanted, NoConn, Goroutine
  <1>4. AttemptsFit'
    BY SocketAssumption DEF LoopReturns, StreamCallbacks, socketVars, SocketInv, SocketTypes,
           AttemptsFit, Unwanted, Attempt, NoConn, Goroutine
  <1>5. ConnFits'
    BY SocketAssumption DEF LoopReturns, StreamCallbacks, Goto, At, Idle, socketVars, SocketInv,
           SocketTypes, ConnFits, Alive, NoConn
  <1>6. Owned'
    BY SocketAssumption DEF LoopReturns, StreamCallbacks, Goto, At, Idle, socketVars, SocketInv,
           SocketTypes, Owned, Alive, Attempt, NoConn, Goroutine
  <1>7. EventsFit'
    BY SocketAssumption DEF LoopReturns, StreamCallbacks, Goto, At, Idle, socketVars, SocketInv,
           SocketTypes, EventsFit, EntryFits, Dialing, NoConn, Goroutine
  <1>8. CloseIsLast'
    BY SocketAssumption DEF LoopReturns, StreamCallbacks, Goto, At, Idle, socketVars, SocketInv,
           SocketTypes, CloseIsLast, NoConn, Goroutine
  <1>9. RedialFits'
    BY SocketAssumption, <1>2 DEF LoopReturns, StreamCallbacks, Goto, At, Idle, socketVars,
           SocketInv, SocketTypes, RedialFits, NoConn
  <1>10. OpensOnce'
    BY SocketAssumption DEF LoopReturns, StreamCallbacks, socketVars, SocketInv, SocketTypes,
           OpensOnce, Is, IsPosted, NoConn, Goroutine
  <1>11. MessagesFollowOpen'
    BY SocketAssumption DEF LoopReturns, StreamCallbacks, Goto, At, Idle, socketVars, SocketInv,
           SocketTypes, MessagesFollowOpen, Is, NoConn
  <1>12. QuietUnlessOpen'
    BY SocketAssumption, <1>2 DEF LoopReturns, StreamCallbacks, Goto, At, Idle, socketVars,
           SocketInv, SocketTypes, QuietUnlessOpen, Is, IsPosted, NoConn
  <1>13. OpenIsTold'
    BY SocketAssumption DEF LoopReturns, StreamCallbacks, socketVars, SocketInv, SocketTypes,
           OpenIsTold, Is, IsPosted, NoConn, Goroutine
  <1>14. QED
    BY <1>2, <1>1, <1>3, <1>4, <1>5, <1>6, <1>7, <1>8, <1>9, <1>10, <1>11, <1>12, <1>13
       DEF SocketInv

\* What DialTransport does when the transport starts a connection, and when it fails.
DialStarts(p, g) ==
  /\ pc[p].op = "dial" /\ pc[p].gen = g
  /\ conns' = [conns EXCEPT ![g] = "connecting"]
  /\ Goto(p, At("dialed", g))
  /\ UNCHANGED <<socketVars, posted>>
DialFails(p, g) ==
  /\ pc[p].op = "dial" /\ pc[p].gen = g
  /\ g < MaxAttempts
  /\ Post("close", g)
  /\ Goto(p, Idle)
  /\ UNCHANGED <<socketVars, conns>>

\* Transport.Dial starts a connection.
LEMMA DialStartsKeepsInv ==
  ASSUME SocketInv, NEW p \in Goroutine, NEW g, DialStarts(p, g) PROVE SocketInv' /\ (EndHandled' = EndHandled)
  <1>1. SocketTypes'
    BY SocketAssumption DEF DialStarts, SocketInv, SocketTypes, Attempt, Goroutine, Op, EventName,
           SocketEvent, StreamEventName, StreamCallbacks, Goto, At, socketVars, CallsFit, Calling
  <1>2. EndHandled' = EndHandled
    <2>1. CASE g = gen
      <3>1. ~EndHandled
        BY <2>1 DEF DialStarts, EndHandled, SocketInv, SocketTypes
      <3>2. ~EndHandled'
        BY <2>1 DEF DialStarts, EndHandled, SocketInv, SocketTypes, CallsFit, Calling, socketVars,
               Attempt
      <3>3. QED
        BY <3>1, <3>2 DEF EndHandled
    <2>2. CASE g # gen
      <3>1. conns'[gen] = conns[gen]
        BY <2>2 DEF DialStarts, SocketInv, SocketTypes
      <3>2. \A q \in Goroutine : pc'[q].op = "dial" /\ pc'[q].gen = gen <=> pc[q].op = "dial" /\ pc[q].gen = gen
        BY <2>2 DEF DialStarts, Goto, At, SocketInv, SocketTypes, Goroutine
      <3>3. DOMAIN pc = Goroutine /\ DOMAIN pc' = Goroutine
        BY <1>1 DEF SocketInv, SocketTypes
      <3>4. QED
        BY <3>1, <3>2, <3>3 DEF DialStarts, EndHandled, socketVars
    <2>3. QED
      BY <2>1, <2>2
  <1>3. CallsFit'
    <2>1. /\ pc' = [pc EXCEPT ![p] = At("dialed", g)] /\ pc[p].op = "dial" /\ pc[p].gen = g /\ g \in 1..gen
          /\ conns' = [conns EXCEPT ![g] = "connecting"] /\ g \in Attempt /\ p # "closer"
          /\ UNCHANGED <<closed, gen>>
      BY DEF DialStarts, Goto, socketVars, SocketInv, SocketTypes, CallsFit, Calling, Attempt
    <2>2. \A q \in Goroutine : pc[q].op = "dial" /\ q # p => pc[q].gen # g
      BY <2>1 DEF SocketInv, CallsFit
    <2>3. QED
      BY <2>1, <2>2 DEF SocketInv, SocketTypes, CallsFit, Calling, Unwanted, At
  <1>4. AttemptsFit'
    BY SocketAssumption DEF DialStarts, SocketInv, SocketTypes, AttemptsFit, Unwanted, Attempt,
           Goroutine, Goto, At, socketVars, CallsFit, Calling
  <1>5. ConnFits'
    BY SocketAssumption DEF DialStarts, SocketInv, SocketTypes, ConnFits, Alive, NoConn, Goroutine,
           Goto, At, socketVars, CallsFit
  <1>6. Owned'
    BY SocketAssumption DEF DialStarts, SocketInv, SocketTypes, Owned, Alive, Attempt, Goroutine,
           Goto, At, socketVars, CallsFit
  <1>7. EventsFit'
    BY SocketAssumption DEF DialStarts, SocketInv, SocketTypes, EventsFit, EntryFits, Dialing,
           Goroutine, SocketEvent, Goto, At, socketVars, CallsFit, Calling
  <1>8. CloseIsLast'
    BY SocketAssumption DEF DialStarts, SocketInv, SocketTypes, CloseIsLast
  <1>9. RedialFits'
    BY SocketAssumption, <1>2 DEF DialStarts, SocketInv, SocketTypes, RedialFits, Goroutine, Goto,
           At, socketVars
  <1>10. OpensOnce'
    BY SocketAssumption DEF DialStarts, SocketInv, SocketTypes, OpensOnce, Is, IsPosted, Goroutine,
           Goto, At, socketVars
  <1>11. MessagesFollowOpen'
    BY SocketAssumption DEF DialStarts, SocketInv, SocketTypes, MessagesFollowOpen, Is, Goroutine,
           Goto, At, socketVars
  <1>12. QuietUnlessOpen'
    BY SocketAssumption, <1>2 DEF DialStarts, SocketInv, SocketTypes, QuietUnlessOpen, Is,
           IsPosted, Goroutine, Goto, At, socketVars, CallsFit, Calling
  <1>13. OpenIsTold'
    BY SocketAssumption DEF DialStarts, SocketInv, SocketTypes, OpenIsTold, Is, IsPosted,
           Goroutine, Goto, At, socketVars, CallsFit
  <1>14. QED
    BY <1>2, <1>1, <1>3, <1>4, <1>5, <1>6, <1>7, <1>8, <1>9, <1>10, <1>11, <1>12, <1>13
       DEF SocketInv

\* Transport.Dial fails, and connect posts the end of the attempt itself.
LEMMA DialFailsKeepsInv ==
  ASSUME SocketInv, NEW p \in Goroutine, NEW g, DialFails(p, g) PROVE SocketInv' /\ EndHandled' = EndHandled
  <1>1. /\ SocketTypes /\ pc[p].op = "dial" /\ pc[p].gen = g /\ g \in 1..gen /\ g < MaxAttempts /\ Dialing(g)
        /\ conns[g] = "none" /\ \A q \in Goroutine : pc[q].op = "dial" /\ pc[q].gen = g => q = p
        /\ Post("close", g) /\ "close" \in EventName /\ g \in 0..MaxAttempts
        /\ pc' = [pc EXCEPT ![p] = Idle] /\ UNCHANGED <<closed, gen, conn, open, timer, conns>>
    BY SocketAssumption, PostFacts DEF DialFails, Goto, socketVars, SocketInv, SocketTypes,
           CallsFit, Calling, EventName, SocketEvent, Dialing
  <1>2. EndHandled' = EndHandled
    <2>1. CASE g = gen
      <3>1. ~EndHandled
        BY <1>1, <2>1 DEF EndHandled, Dialing, SocketTypes
      <3>2. ~EndHandled'
        BY <1>1, <2>1, PostFacts DEF EndHandled
      <3>3. QED
        BY <3>1, <3>2 DEF EndHandled
    <2>2. CASE g # gen
      <3>1. \A q \in Goroutine : pc'[q].op = "dial" /\ pc'[q].gen = gen <=> pc[q].op = "dial" /\ pc[q].gen = gen
        BY <1>1, <2>2 DEF SocketTypes, Idle, At, Goroutine
      <3>2. DOMAIN pc = Goroutine /\ DOMAIN pc' = Goroutine
        BY <1>1 DEF SocketTypes
      <3>3. EndHandled => EndHandled'
        BY <1>1, <2>2, <3>1, <3>2, PostFacts DEF EndHandled
      <3>4. EndHandled' => EndHandled
        BY <1>1, <2>2, <3>1, <3>2, PostFacts DEF EndHandled
      <3>5. QED
        BY <3>3, <3>4 DEF EndHandled
    <2>3. QED
      BY <2>1, <2>2
  <1>3. SocketTypes'
    BY SocketAssumption, <1>1, <1>2, PostFacts DEF SocketInv, SocketTypes, Attempt, Goroutine, Op,
           At, Idle, NoConn
  <1>4. CallsFit'
    BY SocketAssumption, <1>1, <1>2, PostFacts, <1>3 DEF SocketInv, SocketTypes, CallsFit, Calling,
           Unwanted, Attempt, Goroutine, At, Idle, NoConn, EventsFit, EntryFits, Dialing
  <1>5. AttemptsFit'
    BY SocketAssumption, <1>1, <1>2, <1>3 DEF SocketInv, SocketTypes, AttemptsFit, Unwanted,
           Attempt, At
  <1>6. ConnFits'
    BY SocketAssumption, <1>1, <1>2, <1>3 DEF SocketInv, SocketTypes, ConnFits, Alive, Attempt
  <1>7. Owned'
    BY SocketAssumption, <1>1, <1>2, <1>3 DEF SocketInv, SocketTypes, Owned, Alive, Attempt,
           Goroutine, At, Idle, NoConn
  <1>8. EventsFit'
    <2>1. \A h : Dialing(h)' => Dialing(h) /\ h # g
      BY <1>1 DEF Dialing, SocketTypes, Idle, At
    <2>2. \A x \in Entry : EntryFits(x) => EntryFits(x)'
      BY <1>1, <2>1 DEF EntryFits
    <2>3. EntryFits([event |-> "close", gen |-> g])'
      BY <1>1, <2>1 DEF EntryFits
    <2>4. QED
      BY <1>1, <2>2, <2>3, PostedStillFits DEF SocketInv
  <1>9. CloseIsLast'
    BY <1>1, PostedCloseIsLast DEF SocketInv, EventsFit, EntryFits, Alive
  <1>10. RedialFits'
    <2>1. pc'["loop"].op = "connect" => pc["loop"].op = "connect"
      BY <1>1 DEF Idle, At, SocketTypes, Goroutine
    <2>2. pc'["user"].op = "connect" => pc["user"].op = "connect"
      BY <1>1 DEF Idle, At, SocketTypes, Goroutine
    <2>3. QED
      BY <1>1, <1>2, <2>1, <2>2, PostFacts DEF SocketInv, RedialFits
  <1>11. OpensOnce'
    BY <1>1, PostedOpensOnce DEF SocketInv
  <1>12. MessagesFollowOpen'
    BY <1>1, PostedMessagesFollowOpen DEF SocketInv, OpenIsTold
  <1>13. QuietUnlessOpen'
    <2> SUFFICES ASSUME ~closed, gen > 0, conns[gen] \in {"none", "connecting"} \/ EndHandled
                 PROVE  ~open /\ ~IsPosted("open", gen)' /\ ~IsPosted("message", gen)'
      BY <1>1, <1>2 DEF QuietUnlessOpen
    <2>1. ~open /\ ~IsPosted("open", gen) /\ ~IsPosted("message", gen)
      BY DEF SocketInv, QuietUnlessOpen
    <2>2. QED
      BY <1>1, <2>1, PostFacts DEF IsPosted, Is
  <1>14. OpenIsTold'
    BY SocketAssumption, <1>1, <1>2, PostFacts, <1>3 DEF SocketInv, OpenIsTold, SocketTypes,
           Attempt, IsPosted, Is
  <1>15. QED
    BY <1>2, <1>3, <1>4, <1>5, <1>6, <1>7, <1>8, <1>9, <1>10, <1>11, <1>12, <1>13, <1>14
       DEF SocketInv

\* The steps of the stream, as the socket sees them.
StreamPosts(e, g) == Post(e, g) /\ UNCHANGED <<socketVars, conns, pc>>
StreamTaken(e) ==
  /\ Take(e)
  /\ UNCHANGED pc \/ \E callback \in StreamCallbacks : Goto("loop", At(callback, NoConn))
  /\ UNCHANGED <<socketVars, conns>>

\* The stream posts one of its events: to the socket's it makes no difference.
LEMMA StreamPostsKeepsInv ==
  ASSUME SocketInv, NEW e \in StreamEventName, NEW g \in {Again, GaveUp}, StreamPosts(e, g) PROVE SocketInv' /\ EndHandled' = EndHandled
  <1>1. /\ SocketTypes /\ Post(e, g) /\ e \in EventName /\ e \notin SocketEvent /\ e # "reconnect" /\ g \in 0..MaxAttempts
        /\ UNCHANGED <<closed, gen, conn, open, timer, conns, pc>>
    BY SocketAssumption, PostFacts DEF StreamPosts, socketVars, SocketInv, EventName, SocketEvent,
           StreamEventName, Again, GaveUp
  <1>2. EndHandled' = EndHandled
    <2>1. EndHandled => EndHandled'
      BY <1>1, PostFacts DEF EndHandled, SocketEvent
    <2>2. EndHandled' => EndHandled
      BY <1>1, PostFacts DEF EndHandled
    <2>3. QED
      BY <2>1, <2>2 DEF EndHandled
  <1>3. SocketTypes'
    BY SocketAssumption, <1>1, <1>2, PostFacts DEF SocketInv, SocketTypes
  <1>4. CallsFit'
    BY SocketAssumption, <1>1, <1>2, PostFacts, <1>3 DEF SocketInv, SocketTypes, CallsFit, Calling,
           Unwanted, Attempt, Goroutine, At, Idle, NoConn, EventsFit, EntryFits, Dialing
  <1>5. AttemptsFit'
    BY SocketAssumption, <1>1, <1>2, <1>3 DEF SocketInv, SocketTypes, AttemptsFit, Unwanted,
           Attempt, At
  <1>6. ConnFits'
    BY SocketAssumption, <1>1, <1>2, <1>3 DEF SocketInv, SocketTypes, ConnFits, Alive, Attempt
  <1>7. Owned'
    BY SocketAssumption, <1>1, <1>2, <1>3 DEF SocketInv, SocketTypes, Owned, Alive, Attempt,
           Goroutine, At, Idle, NoConn
  <1>8. EventsFit'
    <2>1. \A x \in Entry : EntryFits(x) => EntryFits(x)'
      BY SocketAssumption, <1>1 DEF Entry, EntryFits, Dialing, SocketEvent, SocketInv, SocketTypes
    <2>2. EntryFits([event |-> e, gen |-> g])'
      BY SocketAssumption, <1>1 DEF EntryFits, Dialing, SocketEvent
    <2>3. QED
      BY <1>1, <2>1, <2>2, PostedStillFits DEF SocketInv
  <1>9. CloseIsLast'
    BY <1>1, PostedCloseIsLast DEF SocketInv, EventsFit, EntryFits, Alive
  <1>10. RedialFits'
    BY <1>1, <1>2, PostedRedialFits DEF SocketInv
  <1>11. OpensOnce'
    BY <1>1, PostedOpensOnce DEF SocketInv, SocketEvent
  <1>12. MessagesFollowOpen'
    BY <1>1, PostedMessagesFollowOpen DEF SocketInv, OpenIsTold, SocketEvent
  <1>13. QuietUnlessOpen'
    <2> SUFFICES ASSUME ~closed, gen > 0, conns[gen] \in {"none", "connecting"} \/ EndHandled
                 PROVE  ~open /\ ~IsPosted("open", gen)' /\ ~IsPosted("message", gen)'
      BY <1>1, <1>2 DEF QuietUnlessOpen
    <2>1. ~open /\ ~IsPosted("open", gen) /\ ~IsPosted("message", gen)
      BY DEF SocketInv, QuietUnlessOpen
    <2>2. QED
      BY <1>1, <2>1, PostFacts DEF IsPosted, Is, SocketEvent
  <1>14. OpenIsTold'
    BY <1>1, PostedOpenIsTold DEF SocketInv, SocketTypes
  <1>15. QED
    BY <1>2, <1>3, <1>4, <1>5, <1>6, <1>7, <1>8, <1>9, <1>10, <1>11, <1>12, <1>13, <1>14
       DEF SocketInv

\* The loop takes an event of the stream: the socket's own keep their order.
LEMMA StreamTakenKeepsInv ==
  ASSUME SocketInv, NEW e \in StreamEventName, StreamTaken(e) PROVE SocketInv' /\ EndHandled' = EndHandled
  <1>1. /\ SocketTypes /\ Take(e) /\ e \notin SocketEvent /\ e # "reconnect" /\ pc["loop"] = Idle
        /\ posted[1] \in Entry /\ posted[1].event = e /\ UNCHANGED <<closed, gen, conn, open, timer, conns>>
        /\ pc' = pc \/ \E callback \in StreamCallbacks : pc' = [pc EXCEPT !["loop"] = At(callback, NoConn)]
    BY SocketAssumption, TakeFacts DEF StreamTaken, socketVars, SocketInv, SocketEvent,
           StreamEventName, Goto
  <1>2. SocketTypes'
    <2>1. \A callback \in StreamCallbacks : At(callback, NoConn) \in [op : Op, gen : 0..MaxAttempts]
      BY SocketAssumption DEF At, NoConn, Op
    <2>2. pc' \in [Goroutine -> [op : Op, gen : 0..MaxAttempts]]
      BY <1>1, <2>1 DEF SocketTypes
    <2>3. QED
      BY <1>1, <2>2, TakeFacts DEF SocketTypes
  <1>3. \A p \in Goroutine : pc'[p] = pc[p] \/ (p = "loop" /\ pc'[p].op \in StreamCallbacks /\ pc[p].op = "idle")
    BY <1>1 DEF SocketTypes, At, Idle, Goroutine
  <1>4. EndHandled' = EndHandled
    BY <1>1, <1>2, <1>3, EndHandledUnchanged DEF StreamCallbacks, SocketEvent
  <1>5. CallsFit'
    <2>1. \A p \in Goroutine : pc'[p] = pc[p] \/ pc'[p].op \notin {"dial", "dialed", "drop"}
      BY <1>3 DEF StreamCallbacks
    <2>2. \A g : Unwanted(g)' <=> Unwanted(g)
      BY <1>1 DEF Unwanted
    <2>3. pc'["closer"] = pc["closer"]
      BY <1>3 DEF Goroutine
    <2>4. QED
      BY <1>1, <2>1, <2>2, <2>3 DEF SocketInv, CallsFit, Calling
  <1>6. AttemptsFit'
    BY <1>1 DEF SocketInv, AttemptsFit, Unwanted
  <1>7. ConnFits'
    BY SocketAssumption, <1>1, <1>4, <1>2 DEF SocketInv, SocketTypes, ConnFits, Alive, Attempt
  <1>8. Owned'
    BY SocketAssumption, <1>1, <1>4, <1>2 DEF SocketInv, SocketTypes, Owned, Alive, Attempt,
           Goroutine, At, Idle, NoConn
  <1>9. EventsFit'
    <2>1. \A h : Dialing(h)' => Dialing(h)
      BY <1>3 DEF Dialing, StreamCallbacks
    <2>2. \A x \in Entry : EntryFits(x) => EntryFits(x)'
      BY <1>1, <2>1 DEF EntryFits
    <2>3. QED
      BY <1>1, <2>2, LeftStillFits DEF SocketInv
  <1>10. CloseIsLast'
    BY <1>1, LeftCloseIsLast DEF SocketInv
  <1>11. RedialFits'
    BY <1>1, <1>4, <1>3, TakeFacts DEF SocketInv, RedialFits, StreamCallbacks, Goroutine
  <1>12. OpensOnce'
    BY <1>1, LeftOpensOnce DEF SocketInv
  <1>13. MessagesFollowOpen'
    BY <1>1, LeftMessagesFollowOpen DEF SocketEvent, SocketInv, Is, OpensOnce, Live
  <1>14. QuietUnlessOpen'
    BY SocketAssumption, <1>1, <1>4, TakeFacts, <1>2 DEF SocketInv, QuietUnlessOpen, SocketTypes,
           Attempt, IsPosted, Is
  <1>15. OpenIsTold'
    BY <1>1, LeftOpenIsTold DEF SocketEvent, SocketInv, Is, OpensOnce, Live
  <1>16. QED
    BY <1>4, <1>2, <1>5, <1>6, <1>7, <1>8, <1>9, <1>10, <1>11, <1>12, <1>13, <1>14, <1>15
       DEF SocketInv
-----------------------------------------------------------------------------
\* Dial has made a Socket, and nothing has happened yet.
LEMMA SocketInvInit == ASSUME NetworkInit PROVE SocketInv
  <1> USE SocketAssumption DEF NetworkInit, Init
  <1>1. SocketTypes
    <2>1. posted \in Seq(Entry)
      OBVIOUS
    <2>2. pc \in [Goroutine -> [op : Op, gen : 0..MaxAttempts]]
      BY DEF At, Idle, NoConn, Goroutine, Op
    <2>3. closed \in BOOLEAN /\ open \in BOOLEAN
      OBVIOUS
    <2>4. gen \in 0..MaxAttempts /\ conn \in 0..MaxAttempts
      BY DEF NoConn
    <2>5. conns \in [Attempt -> {"none", "connecting", "open", "closing", "ended"}]
      OBVIOUS
    <2>6. QED
      BY <2>1, <2>2, <2>3, <2>4, <2>5 DEF SocketTypes
  <1>2. CallsFit /\ AttemptsFit /\ ConnFits /\ Owned
    BY DEF CallsFit, Calling, AttemptsFit, ConnFits, Owned, Alive, At, Idle, NoConn, Goroutine
  <1>3. EventsFit /\ CloseIsLast
    BY DEF EventsFit, CloseIsLast
  <1>4. RedialFits
    BY DEF RedialFits, At, Idle, NoConn
  <1>5. OpensOnce /\ MessagesFollowOpen /\ QuietUnlessOpen /\ OpenIsTold
    BY DEF OpensOnce, MessagesFollowOpen, QuietUnlessOpen, OpenIsTold
  <1>6. QED
    BY <1>1, <1>2, <1>3, <1>4, <1>5 DEF SocketInv

\* A step of something else.
LEMMA SocketSame ==
  ASSUME SocketInv, UNCHANGED <<socketVars, conns, posted, pc>> PROVE SocketInv' /\ EndHandled' = EndHandled
  <1> USE DEF socketVars
  <1>1. EndHandled' = EndHandled
    BY DEF EndHandled
  <1>2. SocketTypes' /\ CallsFit' /\ AttemptsFit' /\ ConnFits' /\ Owned'
    BY DEF SocketInv, SocketTypes, CallsFit, Calling, AttemptsFit, ConnFits, Owned, Alive, Unwanted
  <1>3. EventsFit' /\ CloseIsLast'
    BY DEF SocketInv, EventsFit, EntryFits, CloseIsLast, Dialing
  <1>4. RedialFits' /\ OpensOnce' /\ MessagesFollowOpen' /\ QuietUnlessOpen' /\ OpenIsTold'
    BY <1>1 DEF SocketInv, RedialFits, OpensOnce, MessagesFollowOpen, QuietUnlessOpen, OpenIsTold,
           IsPosted, Is
  <1>5. QED
    BY <1>1, <1>2, <1>3, <1>4 DEF SocketInv


\* Whatever the stream does, the socket's callbacks and its connections are untouched.
LEMMA StreamStepKeepsInv ==
  ASSUME SocketInv, StreamStep, UNCHANGED <<socketVars, conns>>
  PROVE  SocketInv' /\ EndHandled' = EndHandled /\ CallbackRunning' = CallbackRunning
  <1>1. CASE \E e \in StreamEventName, g \in {Again, GaveUp} : StreamPosts(e, g)
    <2>1. CallbackRunning' = CallbackRunning
      BY <1>1 DEF StreamPosts, CallbackRunning
    <2>2. QED
      BY <1>1, <2>1, StreamPostsKeepsInv
  <1>2. CASE \E e \in StreamEventName : StreamTaken(e)
    <2>1. PICK e \in StreamEventName : StreamTaken(e)
      BY <1>2
    <2>2. pc["loop"].op = "idle" /\ DOMAIN pc = Goroutine
      BY <2>1, TakeFacts DEF StreamTaken, SocketInv, SocketTypes, Idle, At
    <2>3. pc'["loop"].op \in StreamCallbacks \union {"idle"}
      BY <2>1, <2>2 DEF StreamTaken, Goto, At, Goroutine
    <2>4. CallbackRunning = "none" /\ CallbackRunning' = "none"
      BY <2>2, <2>3 DEF CallbackRunning, StreamCallbacks
    <2>5. QED
      BY <2>1, <2>4, StreamTakenKeepsInv
  <1>3. CASE StreamReturns
    <2>1. CallbackRunning = "none" /\ CallbackRunning' = "none"
      BY <1>3 DEF StreamReturns, CallbackRunning, StreamCallbacks, Goto, Idle, At, SocketInv,
             SocketTypes, Goroutine
    <2>2. QED
      BY <1>3, <2>1, LoopReturnsKeepsInv DEF LoopReturns, StreamReturns
  <1>4. CASE UNCHANGED <<posted, pc>>
    BY <1>4, SocketSame DEF CallbackRunning
  <1>5. QED
    <2>1. CASE SubCall /\ UNCHANGED pc
      <3>1. UNCHANGED posted \/ Post("streamError", GaveUp)
        BY <2>1 DEF SubCall, SubscribeTransport, StoreStream, CloseStream, Fails
      <3>2. QED
        BY <1>1, <1>4, <2>1, <3>1 DEF StreamPosts, StreamEventName
    <2>2. CASE CloseSubscription /\ UNCHANGED pc
      BY <1>4, <2>2 DEF CloseSubscription
    <2>3. CASE (StreamOpens \/ StreamEvent \/ StreamDrops \/ StreamFails) /\ UNCHANGED pc
      <3>1. \E e \in StreamEventName, g \in {Again, GaveUp} : Post(e, g)
        BY <2>3 DEF StreamOpens, StreamEvent, StreamDrops, StreamFails, StreamEventName
      <3>2. QED
        BY <1>1, <2>3, <3>1 DEF StreamPosts
    <2>4. CASE StreamHandle
      <3>1. StreamReturns \/ \E e \in StreamEventName : StreamTaken(e)
        BY <2>4 DEF StreamHandle, StreamIgnored, StreamCalls, StreamTaken, StreamEventName,
               StreamCallbacks
      <3>2. QED
        BY <1>2, <1>3, <3>1
    <2>5. QED
      BY <2>1, <2>2, <2>3, <2>4 DEF StreamStep

\* Every step, of the socket or of the subscription, keeps the invariant.
LEMMA SocketInvNext ==
  ASSUME SocketInv, [NetworkNext]_networkVars PROVE SocketInv'
  <1>1. CASE \E p \in Goroutine : Connect(p) \/ KeepConn(p) \/ Drop(p)
    BY <1>1, ConnectKeepsInv, KeepConnKeepsInv, DropKeepsInv
  <1>2. CASE \E p \in Goroutine : DialTransport(p)
    <2>1. PICK p \in Goroutine : DialTransport(p)
      BY <1>2
    <2>2. DialStarts(p, pc[p].gen) \/ DialFails(p, pc[p].gen)
      BY <2>1 DEF DialTransport, DialStarts, DialFails
    <2>3. QED
      BY <2>2, DialStartsKeepsInv, DialFailsKeepsInv
  <1>3. CASE Close \/ TimerFires
    BY <1>3, CloseKeepsInv, TimerFiresKeepsInv
  <1>4. CASE \E g \in Attempt : TransportOpen(g) \/ TransportMessage(g) \/ TransportClose(g)
    BY <1>4, TransportOpenKeepsInv, TransportMessageKeepsInv, TransportCloseKeepsInv
  <1>5. CASE Handle
    <2>1. Ignored("open") \/ Ignored("message") \/ Ignored("close") => SocketInv'
      BY IgnoredKeepsInv DEF SocketEvent
    <2>2. Callback => SocketInv'
      BY LoopReturnsKeepsInv DEF LoopReturns, Callback
    <2>3. QED
      BY <1>5, <2>1, <2>2, OpenedKeepsInv, MessagedKeepsInv, EndedKeepsInv, ReconnectKeepsInv
         DEF Handle
  <1>6. CASE StreamStep /\ UNCHANGED <<socketVars, conns>>
    BY <1>6, StreamStepKeepsInv
  <1>7. CASE UNCHANGED networkVars
    BY <1>7, SocketSame DEF networkVars, vars
  <1>8. QED
    BY <1>1, <1>2, <1>3, <1>4, <1>5, <1>6, <1>7 DEF NetworkNext, Next, Call, Goroutine


\* The invariant of a socket holds whatever its calls, its transport, its timer, the loop
\* and a subscription on the same loop do (net/socket.go).
THEOREM SocketInvariant == NetworkSpec => []SocketInv
  <1>1. NetworkInit => SocketInv
    BY SocketInvInit
  <1>2. SocketInv /\ [NetworkNext]_networkVars => SocketInv'
    BY SocketInvNext
  <1>3. QED
    BY <1>1, <1>2, PTL DEF NetworkSpec
-----------------------------------------------------------------------------
(* Nothing stays connected. *)

\* A stream is closed by whoever finds it last: Close, or Subscribe once it has stored it.
StreamInv ==
  /\ subClosed \in BOOLEAN /\ stream \in BOOLEAN
  /\ subPc = "subscribe" => source = "none" /\ ~stream
  /\ subPc \in {"subscribe", "store"} => ~subClosed
  /\ subPc \in {"closeStream", "closed"} \/ source = "closed" => subClosed
  /\ subPc = "idle" => stream \/ source = "none"
  /\ subPc = "closed" => source \notin {"connecting", "open"}

\* Every step keeps the invariant of the stream.
LEMMA StreamInvNext ==
  ASSUME StreamInv, [NetworkNext]_networkVars PROVE StreamInv'
  <1>1. CASE UNCHANGED <<subClosed, stream, source, subPc>>
    BY <1>1 DEF StreamInv
  <1>2. CASE SubCall \/ CloseSubscription
    <2>1. CASE SubscribeTransport
      BY <2>1 DEF StreamInv, SubscribeTransport
    <2>2. CASE StoreStream
      BY <2>2 DEF StreamInv, StoreStream
    <2>3. CASE CloseStream
      BY <2>3 DEF StreamInv, CloseStream
    <2>4. CASE CloseSubscription
      <3>1. subClosed' \in BOOLEAN /\ stream' \in BOOLEAN
        BY <2>4 DEF CloseSubscription
      <3>2. QED
        BY <2>4, <3>1 DEF StreamInv, CloseSubscription, HasStream
    <2>5. QED
      BY <1>2, <2>1, <2>2, <2>3, <2>4 DEF SubCall
  <1>3. CASE StreamOpens \/ StreamEvent \/ StreamDrops \/ StreamFails
    BY <1>3 DEF StreamInv, StreamOpens, StreamEvent, StreamDrops, StreamFails
  <1>4. QED
    BY <1>1, <1>2, <1>3 DEF NetworkNext, StreamStep, StreamHandle, StreamIgnored, StreamCalls,
           StreamReturns, subVars, networkVars

\* Nothing stays connected after Close, not even what Dial or Subscribe was still opening
\* when Close ran (socket.go:144-149, subscribe.go).
THEOREM NothingStaysConnectedAlways == NetworkSpec => []NothingStaysConnected
  <1>1. NetworkInit => StreamInv
    BY DEF NetworkInit, SubInit, StreamInv
  <1>2. StreamInv /\ [NetworkNext]_networkVars => StreamInv'
    BY StreamInvNext
  <1>3. SocketInv /\ StreamInv => NothingStaysConnected
    BY DEF SocketInv, SocketTypes, ConnFits, Owned, Alive, StreamInv, NothingStaysConnected,
           NoConnectionLeft, Calling, NoConn, Attempt
  <1>4. QED
    BY <1>1, <1>2, <1>3, SocketInvariant, PTL DEF NetworkSpec
-----------------------------------------------------------------------------
(* The callbacks of a socket. *)
\* Every step is one of SocketEvents, or leaves the callbacks as they are.
LEMMA EventsNext ==
  ASSUME SocketInv, [NetworkNext]_networkVars PROVE [Events!Next]_(Events!vars)
  <1> DEFINE Same == State' = State /\ CallbackRunning' = CallbackRunning
  <1>1. Same => UNCHANGED Events!vars
    BY DEF Events!vars
  <1>2. ASSUME NEW p \in Goroutine, Connect(p) PROVE [Events!Next]_(Events!vars)
    <2> USE DEF Goroutine
    <2>1. CASE closed
      BY <1>1, <1>2, <2>1 DEF Connect, State, CallbackRunning, Goto, Idle, At, SocketInv,
             SocketTypes
    <2>2. CASE ~closed /\ p = "user"
      <3>1. State = "connecting" /\ State' = "connecting"
        BY <1>2, <2>2, ConnectKeepsInv DEF Connect, State, SocketInv, RedialFits, OpensOnce,
               EndHandled
      <3>2. QED
        BY <1>1, <1>2, <2>2, <3>1 DEF Connect, CallbackRunning, Goto, SocketInv, SocketTypes
    <2>3. CASE ~closed /\ p = "loop"
      <3>1. State = "over" /\ State' = "connecting"
        BY <1>2, <2>3, ConnectKeepsInv DEF Connect, State, SocketInv, RedialFits, QuietUnlessOpen,
               EndHandled
      <3>2. CallbackRunning = "none" /\ CallbackRunning' = "none"
        BY <1>2, <2>3 DEF Connect, CallbackRunning, Goto, At, SocketInv, SocketTypes
      <3>3. QED
        BY <3>1, <3>2 DEF Events!Next, Events!Reconnect
    <2>4. p # "closer"
      BY <1>2 DEF Connect, SocketInv, CallsFit
    <2>5. QED
      BY <2>1, <2>2, <2>3, <2>4 DEF Goroutine
  <1>3. ASSUME NEW p \in Goroutine, KeepConn(p) \/ Drop(p) PROVE Same
    <2>1. State' = State
      BY <1>3, KeepConnKeepsInv, DropKeepsInv DEF KeepConn, Drop, State, socketVars
    <2>2. CallbackRunning' = CallbackRunning
      BY <1>3 DEF KeepConn, Drop, CallbackRunning, Goto, Idle, At, SocketInv, SocketTypes, Goroutine
    <2>3. QED
      BY <2>1, <2>2
  <1>4. ASSUME NEW p \in Goroutine, DialTransport(p) PROVE Same
    <2>1. DialStarts(p, pc[p].gen) \/ DialFails(p, pc[p].gen)
      BY <1>4 DEF DialTransport, DialStarts, DialFails
    <2>2. State' = State
      BY <1>4, <2>1, DialStartsKeepsInv, DialFailsKeepsInv DEF DialTransport, State, socketVars
    <2>3. CallbackRunning' = CallbackRunning
      BY <1>4 DEF DialTransport, CallbackRunning, Goto, Idle, At, SocketInv, SocketTypes, Goroutine
    <2>4. QED
      BY <2>2, <2>3
  <1>5. ASSUME Close PROVE [Events!Next]_(Events!vars)
    <2>1. State' = "closed" /\ CallbackRunning' = CallbackRunning
      BY <1>5 DEF Close, State, CallbackRunning, Goto, SocketInv, SocketTypes
    <2>2. QED
      BY <2>1 DEF Events!Next, Events!Close
  <1>6. ASSUME NEW g \in Attempt, TransportOpen(g) \/ TransportMessage(g) \/ TransportClose(g)
        PROVE  Same
    BY <1>6, TransportOpenKeepsInv, TransportMessageKeepsInv, TransportCloseKeepsInv
       DEF TransportOpen, TransportMessage, TransportClose, State, CallbackRunning, socketVars
  <1>7. ASSUME TimerFires PROVE Same
    BY <1>7, TimerFiresKeepsInv DEF TimerFires, State, CallbackRunning
  <1>8. ASSUME Handle PROVE [Events!Next]_(Events!vars)
    <2>1. ASSUME NEW e \in SocketEvent, Ignored(e) PROVE Same
      BY <2>1, IgnoredKeepsInv DEF Ignored, State, CallbackRunning, socketVars
    <2>2. CASE Opened
      <3>1. /\ Take("open") /\ SocketTypes /\ Live(Head(posted).gen) /\ open' = TRUE /\ UNCHANGED closed
            /\ pc' = [pc EXCEPT !["loop"] = At("OnOpen", Head(posted).gen)]
        BY <2>2 DEF Opened, Goto, SocketInv
      <3>2. Is(1, "open", gen) /\ 1 \in DOMAIN posted /\ ~closed /\ pc["loop"] = Idle
        BY <3>1, TakeFacts DEF Live, Is
      <3>3. gen > 0
        BY <3>1, <3>2 DEF SocketInv, EventsFit, EntryFits, SocketEvent, SocketTypes, Is
      <3>4. State = "connecting" /\ State' = "open"
        BY <3>1, <3>2, <3>3 DEF State, SocketInv, OpensOnce, QuietUnlessOpen, IsPosted
      <3>5. CallbackRunning = "none" /\ CallbackRunning' = "OnOpen"
        BY <3>1, <3>2 DEF CallbackRunning, Idle, At, SocketTypes, Goroutine
      <3>6. QED
        BY <3>4, <3>5 DEF Events!Next, Events!Start
    <2>3. CASE Messaged
      <3>1. /\ Take("message") /\ SocketTypes /\ Live(Head(posted).gen) /\ UNCHANGED <<closed, open>>
            /\ pc' = [pc EXCEPT !["loop"] = At("OnMessage", Head(posted).gen)]
        BY <2>3 DEF Messaged, Goto, SocketInv, socketVars
      <3>2. Is(1, "message", gen) /\ 1 \in DOMAIN posted /\ ~closed /\ pc["loop"] = Idle
        BY <3>1, TakeFacts DEF Live, Is
      <3>3. open
        BY <3>2 DEF SocketInv, MessagesFollowOpen
      <3>4. State = "open" /\ State' = "open"
        BY <3>1, <3>2, <3>3 DEF State
      <3>5. CallbackRunning = "none" /\ CallbackRunning' = "OnMessage"
        BY <3>1, <3>2 DEF CallbackRunning, Idle, At, SocketTypes, Goroutine
      <3>6. QED
        BY <3>4, <3>5 DEF Events!Next, Events!Start
    <2>4. CASE Ended
      <3>1. /\ Take("close") /\ SocketTypes /\ Live(Head(posted).gen) /\ open' = FALSE /\ UNCHANGED closed
            /\ pc' = [pc EXCEPT !["loop"] = At("OnClose", Head(posted).gen)]
        BY <2>4 DEF Ended, Goto, SocketInv
      <3>2. ~closed /\ pc["loop"] = Idle
        BY <3>1, TakeFacts DEF Live
      <3>3. State \in {"connecting", "open"} /\ State' = "over"
        BY <2>4, <3>1, <3>2, EndedKeepsInv DEF State
      <3>4. CallbackRunning = "none" /\ CallbackRunning' = "OnClose"
        BY <3>1, <3>2 DEF CallbackRunning, Idle, At, SocketTypes, Goroutine
      <3>5. QED
        BY <3>3, <3>4 DEF Events!Next, Events!Start
    <2>5. CASE Reconnect
      <3>1. pc["loop"] = Idle
        BY <2>5, TakeFacts DEF Reconnect, SocketInv
      <3>2. CallbackRunning = "none" /\ CallbackRunning' = "none"
        BY <2>5, <3>1 DEF Reconnect, CallbackRunning, Goto, Idle, At, SocketInv, SocketTypes,
               Goroutine
      <3>3. State' = State
        BY <2>5, ReconnectKeepsInv DEF Reconnect, State
      <3>4. QED
        BY <1>1, <3>2, <3>3
    <2>6. CASE Callback
      <3>1. State' = State
        BY <2>6, LoopReturnsKeepsInv DEF LoopReturns, Callback, State, socketVars
      <3>2. CallbackRunning # "none" /\ CallbackRunning' = "none"
        BY <2>6 DEF Callback, CallbackRunning, Goto, Idle, At, SocketInv, SocketTypes, Goroutine
      <3>3. QED
        BY <3>1, <3>2 DEF Events!Next, Events!Return
    <2>7. QED
      BY <1>1, <1>8, <2>1, <2>2, <2>3, <2>4, <2>5, <2>6 DEF Handle, SocketEvent
  <1>9. ASSUME StreamStep, UNCHANGED <<socketVars, conns>> PROVE Same
    <2>1. EndHandled' = EndHandled
      BY <1>9, StreamStepKeepsInv
    <2>2. State' = State
      BY <1>9, <2>1 DEF State, socketVars
    <2>3. CallbackRunning' = CallbackRunning
      BY <1>9, StreamStepKeepsInv
    <2>4. QED
      BY <2>2, <2>3
  <1>10. ASSUME UNCHANGED networkVars PROVE Same
    BY <1>10, SocketSame DEF networkVars, vars, socketVars, State, CallbackRunning
  <1>11. QED
    BY <1>1, <1>2, <1>3, <1>4, <1>5, <1>6, <1>7, <1>8, <1>9, <1>10 DEF NetworkNext, Next, Call,
           Goroutine

\* The callbacks of a socket are those of SocketEvents: per connection one OnOpen at most,
\* then messages, then one OnClose, and none for a closed socket.
THEOREM SocketImplementsEvents == NetworkSpec => EventsSpec
  <1>1. NetworkInit => Events!Init
    BY DEF NetworkInit, Init, Events!Init, State, CallbackRunning, EndHandled, Idle, At
  <1>2. SocketInv /\ SocketInv' /\ [NetworkNext]_networkVars => [Events!Next]_(Events!vars)
    BY EventsNext
  <1>3. QED
    BY <1>1, <1>2, SocketInvariant, PTL DEF NetworkSpec, EventsSpec, Events!Spec
-----------------------------------------------------------------------------
(* The callbacks of a subscription *)

StreamState == {"connecting", "open", "failed"}

\* What the user will have heard once the loop has run all that waits.
SourceState ==
  IF source \in {"connecting", "open"} THEN source
  ELSE IF subPc = "subscribe" THEN "connecting" ELSE "failed"

\* Callback e takes what the user has heard from s to t.
Tells(e, s, t) ==
  /\ e.event = "streamOpen" => s = "connecting" /\ t = "open"
  /\ e.event = "streamEvent" => s = "open" /\ t = s
  /\ e.event = "streamError" => s # "failed" /\ t = IF e.gen = Again THEN "connecting" ELSE "failed"
  /\ e.event \notin StreamEventName => t = s

\* The callbacks that wait lead there from what the user has heard, by legal steps.
LeadsFrom(h, f) ==
  /\ f \in [0..Len(posted) -> StreamState]
  /\ f[0] = h /\ f[Len(posted)] = SourceState
  /\ \A k \in DOMAIN posted : Tells(posted[k], f[k - 1], f[k])
StreamTold == ~subClosed => \E f : LeadsFrom(heard, f)

\* A callback the source posts as it changes leads from the state before to the one after.
LEMMA PostedStreamTold ==
  ASSUME SocketTypes, StreamTold, NEW e \in EventName, NEW g \in 0..MaxAttempts, Post(e, g),
         UNCHANGED <<subClosed, heard>>,
         Tells([event |-> e, gen |-> g], SourceState, SourceState'), SourceState' \in StreamState
  PROVE  StreamTold'
  <1> SUFFICES ASSUME ~subClosed PROVE \E f : LeadsFrom(heard, f)'
    BY DEF StreamTold
  <1>1. PICK f : LeadsFrom(heard, f)
    BY DEF StreamTold
  <1> DEFINE n == Len(posted)
  <1>2. PICK h : h = [k \in 0..(n + 1) |-> IF k = n + 1 THEN SourceState' ELSE f[k]]
    OBVIOUS
  <1>3. n \in Nat /\ Len(posted') = n + 1 /\ DOMAIN posted' = 1..(n + 1) /\ DOMAIN posted = 1..n
    BY PostFacts DEF SocketTypes
  <1>4. h \in [0..(n + 1) -> StreamState] /\ h[0] = heard /\ h[n + 1] = SourceState'
    BY <1>2, <1>1, <1>3 DEF LeadsFrom
  <1>5. ASSUME NEW k \in 1..(n + 1) PROVE Tells(posted'[k], h[k - 1], h[k])
    <2>1. CASE k = n + 1
      <3>1. posted'[k] = [event |-> e, gen |-> g]
        BY <2>1 DEF Post, SocketTypes
      <3>2. h[n] = f[n] /\ h[n + 1] = SourceState'
        <4>1. n \in 0..(n + 1) /\ n + 1 \in 0..(n + 1) /\ n # n + 1
          <5>1. n \in Nat
            BY <1>3
          <5>2. QED
            BY <5>1
        <4>2. QED
          BY <1>2, <4>1, Zenon
      <3>3. k - 1 = n /\ f[n] = SourceState
        BY <1>1, <1>3, <2>1 DEF LeadsFrom
      <3>4. QED
        BY <2>1, <3>1, <3>2, <3>3
    <2>2. CASE k # n + 1
      <3>1. k \in DOMAIN posted /\ posted'[k] = posted[k]
        BY <1>3, <2>2, PostFacts
      <3>2. h[k - 1] = f[k - 1] /\ h[k] = f[k]
        BY <1>2, <1>3, <2>2
      <3>3. QED
        BY <1>1, <3>1, <3>2 DEF LeadsFrom
    <2>3. QED
      BY <2>1, <2>2
  <1>6. LeadsFrom(heard, h)'
    BY <1>3, <1>4, <1>5 DEF LeadsFrom
  <1>7. QED
    BY <1>6

\* What waits behind the callback that is taken leads on from what it told.
LEMMA LeftStreamTold ==
  ASSUME SocketTypes, StreamTold, NEW e, Take(e), UNCHANGED <<subClosed, SourceState>>,
         ~subClosed => \A t \in StreamState : Tells(posted[1], heard, t) => heard' = t
  PROVE  StreamTold'
  <1> SUFFICES ASSUME ~subClosed, ~subClosed' PROVE \E f : LeadsFrom(heard, f)'
    BY DEF StreamTold
  <1>1. PICK f : LeadsFrom(heard, f)
    BY DEF StreamTold
  <1> DEFINE n == Len(posted)
  <1>2. PICK h : h = [k \in 0..(n - 1) |-> f[k + 1]]
    OBVIOUS
  <1>3. n \in Nat \ {0} /\ Len(posted') = n - 1 /\ DOMAIN posted' = 1..(n - 1) /\ DOMAIN posted = 1..n
    BY TakeFacts DEF SocketTypes
  <1>4. h \in [0..(n - 1) -> StreamState] /\ h[n - 1] = SourceState'
    BY <1>2, <1>1, <1>3 DEF LeadsFrom
  <1>5. h[0] = heard'
    BY <1>2, <1>1, <1>3 DEF LeadsFrom
  <1>6. ASSUME NEW k \in 1..(n - 1) PROVE Tells(posted'[k], h[k - 1], h[k])
    <2>1. k + 1 \in DOMAIN posted /\ posted'[k] = posted[k + 1]
      BY <1>3, TakeFacts
    <2>2. h[k - 1] = f[k] /\ h[k] = f[k + 1] /\ (k + 1) - 1 = k
      BY <1>2, <1>3
    <2>3. QED
      BY <1>1, <2>1, <2>2 DEF LeadsFrom
  <1>7. LeadsFrom(heard, h)'
    BY <1>3, <1>4, <1>5, <1>6 DEF LeadsFrom
  <1>8. QED
    BY <1>7


\* A step of the socket moves what the stream posted, and adds nothing to it.
LEMMA SocketStepStreamTold ==
  ASSUME SocketInv, StreamTold, Next, UNCHANGED subVars
  PROVE  StreamTold' /\ SubRunning' = SubRunning
  <1> USE DEF subVars
  <1>1. UNCHANGED <<subClosed, heard, SourceState>> /\ SocketTypes
    BY DEF SourceState, SocketInv
  <1>2. ASSUME UNCHANGED posted PROVE StreamTold'
    BY <1>1, <1>2 DEF StreamTold, LeadsFrom
  <1>3. ASSUME NEW e \in SocketEvent \union {"reconnect"}, NEW g \in 0..MaxAttempts, Post(e, g)
        PROVE  StreamTold'
    <2>1. e \in EventName /\ e \notin StreamEventName
      BY DEF SocketEvent, StreamEventName, EventName
    <2>2. Tells([event |-> e, gen |-> g], SourceState, SourceState')
      BY <1>1, <2>1 DEF Tells, StreamEventName
    <2>3. ~subClosed => SourceState \in StreamState
      BY DEF StreamTold, LeadsFrom, SocketInv, SocketTypes
    <2>4. QED
      BY <1>1, <1>3, <2>1, <2>2, <2>3, PostedStreamTold DEF StreamTold
  <1>4. ASSUME NEW e \in SocketEvent \union {"reconnect"}, Take(e) PROVE StreamTold'
    <2>1. \A t : Tells(posted[1], heard, t) => heard = t
      BY <1>1, <1>4, TakeFacts DEF Tells, SocketEvent, StreamEventName
    <2>2. QED
      BY <1>1, <1>4, <2>1, LeftStreamTold
  <1>5. StreamTold'
    <2>1. ASSUME NEW p \in Goroutine, Call(p) PROVE StreamTold'
      <3>1. CASE UNCHANGED posted
        BY <1>2, <3>1
      <3>2. CASE Post("close", pc[p].gen)
        BY <1>3, <3>2 DEF SocketEvent, SocketInv, SocketTypes
      <3>3. QED
        BY <2>1, <3>1, <3>2 DEF Call, Connect, DialTransport, KeepConn, Drop
    <2>2. CASE Close
      BY <1>2, <2>2 DEF Close
    <2>3. ASSUME NEW g \in Attempt, TransportOpen(g) \/ TransportMessage(g) \/ TransportClose(g)
          PROVE  StreamTold'
      BY <1>3, <2>3, SocketAssumption DEF TransportOpen, TransportMessage, TransportClose, Attempt,
             SocketEvent
    <2>4. CASE TimerFires
      BY <1>3, <2>4, SocketAssumption DEF TimerFires, NoConn
    <2>5. CASE Handle
      BY <1>2, <1>4, <2>5 DEF Handle, Ignored, Opened, Messaged, Ended, Reconnect, Callback,
             SocketEvent
    <2>6. QED
      BY <2>1, <2>2, <2>3, <2>4, <2>5 DEF Next, Goroutine
  <1>6. SubRunning' = SubRunning
    <2>1. CASE pc'["loop"] = pc["loop"]
      BY <2>1 DEF SubRunning
    <2>2. CASE pc["loop"].op \notin StreamCallbacks /\ pc'["loop"].op \notin StreamCallbacks
      BY <2>2 DEF SubRunning, StreamCallbacks
    <2>3. ASSUME NEW p \in Goroutine, Call(p)
          PROVE  \/ pc'["loop"] = pc["loop"]
                 \/ pc["loop"].op \notin StreamCallbacks /\ pc'["loop"].op \notin StreamCallbacks
      BY <1>1, <2>3 DEF Call, Connect, DialTransport, KeepConn, Drop, Goto, At, Idle, SocketTypes,
             Goroutine, StreamCallbacks
    <2>4. ASSUME Close \/ TimerFires \/ \E g \in Attempt : TransportOpen(g) \/ TransportMessage(g) \/ TransportClose(g)
          PROVE  pc'["loop"] = pc["loop"]
      BY <1>1, <2>4 DEF Close, TimerFires, TransportOpen, TransportMessage, TransportClose, Goto,
             SocketTypes, Goroutine
    <2>5. ASSUME Handle
          PROVE  pc["loop"].op \notin StreamCallbacks /\ pc'["loop"].op \notin StreamCallbacks
      <3>1. ASSUME NEW e, Take(e) PROVE pc["loop"].op \notin StreamCallbacks
        BY <3>1 DEF Take, Idle, At, StreamCallbacks
      <3>2. pc["loop"].op \notin StreamCallbacks
        BY <2>5, <3>1 DEF Handle, Ignored, Opened, Messaged, Ended, Reconnect, Callback,
               StreamCallbacks
      <3>3. pc'["loop"] = pc["loop"] \/ pc'["loop"].op \in {"OnOpen", "OnMessage", "OnClose", "connect", "idle"}
        BY <1>1, <2>5 DEF Handle, Ignored, Opened, Messaged, Ended, Reconnect, Callback, Goto, At,
               Idle, SocketTypes, Goroutine
      <3>4. QED
        BY <3>2, <3>3 DEF StreamCallbacks
    <2>6. QED
      BY <2>1, <2>2, <2>3, <2>4, <2>5 DEF Next, Goroutine
  <1>7. QED
    BY <1>5, <1>6


\* Every step of the subscription is one of SubscriptionEvents, and keeps StreamTold.
LEMMA StreamStepTells ==
  ASSUME SocketInv, StreamInv, StreamTold, StreamStep, UNCHANGED <<socketVars, conns>>
  PROVE  StreamTold' /\ [StreamEvents!Next]_(StreamEvents!vars)
  <1> DEFINE Same == SubState' = SubState /\ SubRunning' = SubRunning
  <1>1. Same => UNCHANGED StreamEvents!vars
    BY DEF StreamEvents!vars
  <1>2. SocketTypes
    BY DEF SocketInv
  <1>3. ASSUME UNCHANGED <<subClosed, heard, posted, SourceState>> PROVE StreamTold'
    BY <1>3 DEF StreamTold, LeadsFrom
  <1>4. CASE SubscribeTransport /\ UNCHANGED pc
    <2>1. Same
      BY <1>4 DEF SubscribeTransport, SubState, SubRunning
    <2>2. UNCHANGED <<subClosed, heard>> /\ SourceState = "connecting" /\ subPc' # "subscribe"
      BY <1>4 DEF SubscribeTransport, StreamInv, SourceState
    <2>3. CASE source' = "connecting" /\ UNCHANGED posted
      BY <1>1, <1>3, <2>1, <2>2, <2>3 DEF SourceState
    <2>4. CASE Post("streamError", GaveUp) /\ UNCHANGED source
      <3>1. source = "none"
        BY <1>4 DEF SubscribeTransport, StreamInv
      <3>2. SourceState' = "failed"
        BY <2>2, <2>4, <3>1 DEF SourceState
      <3>3. Tells([event |-> "streamError", gen |-> GaveUp], SourceState, SourceState')
        BY <2>2, <3>2 DEF Tells, StreamEventName, Again, GaveUp
      <3>4. "streamError" \in EventName /\ GaveUp \in 0..MaxAttempts
        BY SocketAssumption DEF EventName, StreamEventName, GaveUp
      <3>5. QED
        BY <1>1, <1>2, <2>1, <2>2, <2>4, <3>2, <3>3, <3>4, PostedStreamTold DEF StreamState
    <2>5. QED
      BY <1>4, <2>3, <2>4 DEF SubscribeTransport, Fails
  <1>5. CASE StoreStream /\ UNCHANGED pc
    <2>1. Same /\ UNCHANGED <<subClosed, heard, posted, SourceState>>
      BY <1>5 DEF StoreStream, SubState, SubRunning, SourceState
    <2>2. QED
      BY <1>1, <1>3, <2>1
  <1>6. CASE CloseStream /\ UNCHANGED pc
    <2>1. Same /\ subClosed'
      BY <1>6 DEF CloseStream, StreamInv, SubState, SubRunning
    <2>2. QED
      BY <1>1, <2>1 DEF StreamTold
  <1>7. CASE CloseSubscription /\ UNCHANGED pc
    <2>1. subClosed' = TRUE /\ UNCHANGED SubRunning
      BY <1>7 DEF CloseSubscription, SubRunning
    <2>2. SubState' = "closed"
      BY <2>1 DEF SubState
    <2>3. QED
      BY <2>1, <2>2 DEF StreamTold, StreamEvents!Next, StreamEvents!Close
  <1>8. CASE (StreamOpens \/ StreamEvent \/ StreamDrops \/ StreamFails) /\ UNCHANGED pc
    <2>1. Same /\ UNCHANGED <<subClosed, heard>>
      BY <1>8 DEF StreamOpens, StreamEvent, StreamDrops, StreamFails, SubState, SubRunning
    <2>2. PICK e \in StreamEventName, g \in {Again, GaveUp} :
            Post(e, g) /\ Tells([event |-> e, gen |-> g], SourceState, SourceState')
      BY <1>8 DEF StreamOpens, StreamEvent, StreamDrops, StreamFails, StreamInv, SourceState,
             Tells, StreamEventName, Again, GaveUp
    <2>3. SourceState' \in StreamState
      BY DEF SourceState, StreamState
    <2>4. e \in EventName /\ g \in 0..MaxAttempts
      BY SocketAssumption DEF EventName, Again, GaveUp
    <2>5. QED
      BY <1>1, <1>2, <2>1, <2>2, <2>3, <2>4, PostedStreamTold
  <1>9. ASSUME NEW e \in StreamEventName, StreamIgnored(e) PROVE StreamTold' /\ Same
    BY <1>9 DEF StreamIgnored, SubLive, subVars, StreamTold, SubState, SubRunning
  <1>10. ASSUME NEW e \in StreamEventName, NEW callback, StreamCalls(e, callback)
         PROVE  /\ StreamTold' /\ UNCHANGED subClosed /\ ~subClosed
                /\ pc["loop"] = Idle /\ pc'["loop"].op = callback
                /\ heard \in StreamState /\ heard' \in StreamState
                /\ Tells(posted[1], heard, heard') /\ posted[1].event = e
    <2>1. Take(e) /\ ~subClosed /\ UNCHANGED <<subClosed, SourceState>> /\ pc'["loop"].op = callback
      BY <1>2, <1>10 DEF StreamCalls, SubLive, SourceState, Goto, At, SocketTypes, Goroutine
    <2>2. PICK f : LeadsFrom(heard, f)
      BY <2>1 DEF StreamTold
    <2>3. heard \in StreamState /\ f[1] \in StreamState /\ Tells(posted[1], heard, f[1])
      BY <1>2, <2>1, <2>2, TakeFacts DEF LeadsFrom
    <2>4. \A t \in StreamState : Tells(posted[1], heard, t) => heard' = t
      BY <1>2, <1>10, <2>1, TakeFacts DEF StreamCalls, Tells, StreamEventName
    <2>5. StreamTold'
      BY <1>2, <2>1, <2>4, LeftStreamTold
    <2>6. QED
      BY <1>2, <2>1, <2>3, <2>4, <2>5, TakeFacts
  <1>11. ASSUME NEW e \in StreamEventName, NEW callback, StreamCalls(e, callback),
                <<e, callback>> \in {<<"streamOpen", "OnStreamOpen">>, <<"streamEvent", "OnStreamEvent">>,
                                     <<"streamError", "OnStreamError">>}
         PROVE  StreamEvents!Next
    <2>1. /\ SubState = heard /\ SubState' = heard' /\ SubRunning = "none"
          /\ heard' \in StreamState /\ Tells(posted[1], heard, heard') /\ posted[1].event = e
      BY <1>10, <1>11 DEF SubState, SubRunning, Idle, At
    <2>2. SubRunning' = CASE callback = "OnStreamOpen" -> "OnOpen"
                          [] callback = "OnStreamEvent" -> "OnEvent"
                          [] callback = "OnStreamError" -> "OnError"
      BY <1>10, <1>11 DEF SubRunning
    <2>3. CASE e = "streamOpen"
      BY <1>11, <2>1, <2>2, <2>3 DEF Tells, StreamEvents!Next, StreamEvents!Start
    <2>4. CASE e = "streamEvent"
      BY <1>11, <2>1, <2>2, <2>4 DEF Tells, StreamEvents!Next, StreamEvents!Start
    <2>5. CASE e = "streamError"
      <3>1. heard \in {"connecting", "open"} /\ heard' \in {"connecting", "failed"}
        BY <1>10, <1>11, <2>1, <2>5 DEF Tells, StreamState
      <3>2. QED
        BY <1>11, <2>1, <2>2, <2>5, <3>1 DEF StreamEvents!Next, StreamEvents!Start
    <2>6. QED
      BY <2>3, <2>4, <2>5 DEF StreamEventName
  <1>12. CASE StreamReturns
    <2>1. UNCHANGED <<subClosed, heard, posted, SourceState>> /\ SubState' = SubState
      BY <1>12 DEF StreamReturns, subVars, SourceState, SubState
    <2>2. SubRunning # "none" /\ SubRunning' = "none"
      BY <1>2, <1>12 DEF StreamReturns, StreamCallbacks, SubRunning, Goto, Idle, At, SocketTypes,
             Goroutine
    <2>3. QED
      BY <1>3, <2>1, <2>2 DEF StreamEvents!Next, StreamEvents!Return
  <1>13. CASE StreamHandle
    BY <1>1, <1>9, <1>10, <1>11, <1>12, <1>13 DEF StreamHandle, StreamEventName
  <1>14. QED
    BY <1>4, <1>5, <1>6, <1>7, <1>8, <1>13 DEF StreamStep, SubCall

\* The callbacks of a subscription are those of SubscriptionEvents: an OnOpen for each
\* connection, OnEvent only while connected, nothing after a failure or Close.
THEOREM SubscriptionImplementsEvents == NetworkSpec => StreamEventsSpec
  <1>1. NetworkInit => StreamEvents!Init /\ StreamInv
    <2> SUFFICES ASSUME NetworkInit PROVE StreamEvents!Init /\ StreamInv
      OBVIOUS
    <2>1. StreamInv
      BY DEF NetworkInit, SubInit, StreamInv
    <2>2. pc["loop"].op = "idle"
      BY DEF NetworkInit, Init, Idle, At
    <2>3. SubState = "connecting" /\ SubRunning = "none"
      BY <2>2 DEF NetworkInit, SubInit, SubState, SubRunning
    <2>4. QED
      BY <2>1, <2>3 DEF StreamEvents!Init
  <1>2. NetworkInit => StreamTold
    <2> SUFFICES ASSUME NetworkInit PROVE LeadsFrom(heard, [k \in 0..0 |-> "connecting"])
      BY DEF StreamTold
    <2>1. posted = <<>> /\ heard = "connecting" /\ SourceState = "connecting"
      <3>1. posted = <<>>
        BY DEF NetworkInit, Init
      <3>2. heard = "connecting" /\ SourceState = "connecting"
        BY DEF NetworkInit, SubInit, SourceState
      <3>3. QED
        BY <3>1, <3>2
    <2>2. QED
      BY <2>1 DEF LeadsFrom, StreamState
  <1>3. StreamInv /\ [NetworkNext]_networkVars => StreamInv'
    BY StreamInvNext
  <1>4. SocketInv /\ StreamInv /\ StreamTold /\ [NetworkNext]_networkVars =>
          StreamTold' /\ [StreamEvents!Next]_(StreamEvents!vars)
    <2> SUFFICES ASSUME SocketInv, StreamInv, StreamTold, [NetworkNext]_networkVars
                 PROVE  StreamTold' /\ [StreamEvents!Next]_(StreamEvents!vars)
      OBVIOUS
    <2>1. CASE Next /\ UNCHANGED subVars
      BY <2>1, SocketStepStreamTold DEF SubState, subVars, StreamEvents!vars
    <2>2. CASE StreamStep /\ UNCHANGED <<socketVars, conns>>
      BY <2>2, StreamStepTells
    <2>3. CASE UNCHANGED networkVars
      BY <2>3 DEF networkVars, vars, subVars, StreamTold, LeadsFrom, SourceState, SubState,
             SubRunning, StreamEvents!vars
    <2>4. QED
      BY <2>1, <2>2, <2>3 DEF NetworkNext
  <1>5. QED
    BY <1>1, <1>2, <1>3, <1>4, SocketInvariant, PTL DEF NetworkSpec, StreamEventsSpec,
           StreamEvents!Spec
=============================================================================
