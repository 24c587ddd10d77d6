-------------------------------- MODULE Socket --------------------------------
(***************************************************************************)
(* A WebSocket opened by Dial (net/socket.go) on a Transport (net/net.go). *)
(*                                                                         *)
(* Three goroutines take part: user calls Dial, closer calls Close, and    *)
(* loop is the render loop, which runs the callbacks that the transport's  *)
(* events and the reconnection timer hand to core.Schedule, in order.      *)
(* The mutex is released between the steps of each call, and wherever user *)
(* code runs.  A connection attempt is named by its generation.  How long  *)
(* the timer waits, and the count of failures it depends on, are left out. *)
(***************************************************************************)
EXTENDS Naturals, SequencesExt

CONSTANTS
  MaxAttempts,   \* bound: this attempt connects and stays connected until Close
  MaxPosted,     \* bound: messages arrive while fewer callbacks wait
  Reconnects     \* SocketOptions.Reconnect

ASSUME SocketAssumption ==
  /\ MaxAttempts \in Nat \ {0}
  /\ MaxPosted \in Nat
  /\ Reconnects \in BOOLEAN

Attempt == 1..MaxAttempts
NoConn == 0

VARIABLES
  closed, gen, conn, open,   \* fields of Socket; conn is an attempt or NoConn
  timer,       \* none, armed, or fired: Socket.timer is set in the last two
  conns,       \* the transport's connection of each attempt
  posted,      \* callbacks handed to core.Schedule
  pc           \* where each goroutine is: the step it takes next, and for which attempt

socketVars == <<closed, gen, conn, open, timer>>
vars == <<socketVars, conns, posted, pc>>

At(op, g) == [op |-> op, gen |-> g]
Idle == At("idle", NoConn)
Goto(p, step) == pc' = [pc EXCEPT ![p] = step]
Post(event, g) == posted' = Append(posted, [event |-> event, gen |-> g])

\* Dial has made the Socket and calls connect.
Init ==
  /\ closed = FALSE /\ gen = 0 /\ conn = NoConn /\ open = FALSE
  /\ timer = "none"
  /\ conns = [g \in Attempt |-> "none"]
  /\ posted = <<>>
  /\ pc = [p \in {"user", "closer", "loop"} |-> IF p = "user" THEN At("connect", NoConn) ELSE Idle]
-----------------------------------------------------------------------------
(* connect *)

Connect(p) ==
  /\ pc[p].op = "connect"
  /\ \/ /\ closed
        /\ Goto(p, Idle)
        /\ UNCHANGED gen
     \/ /\ ~closed
        /\ gen' = gen + 1
        /\ Goto(p, At("dial", gen + 1))
  /\ UNCHANGED <<closed, conn, open, timer, conns, posted>>

\* Transport.Dial: it starts a connection, or fails and no event follows.
DialTransport(p) ==
  /\ pc[p].op = "dial"
  /\ LET g == pc[p].gen
     IN \/ /\ conns' = [conns EXCEPT ![g] = "connecting"]
           /\ Goto(p, At("dialed", g))
           /\ UNCHANGED posted
        \/ /\ g < MaxAttempts
           /\ Post("close", g)
           /\ Goto(p, Idle)
           /\ UNCHANGED conns
  /\ UNCHANGED socketVars

\* A mutant: nobody looks whether Close ran meanwhile.
UnwantedNever(g) == gen # g

Unwanted(g) == closed \/ gen # g

KeepConn(p) ==
  /\ pc[p].op = "dialed"
  /\ LET g == pc[p].gen
     IN \/ /\ Unwanted(g)
           /\ Goto(p, At("drop", g))
           /\ UNCHANGED conn
        \/ /\ ~Unwanted(g)
           /\ conn' = g
           /\ Goto(p, Idle)
  /\ UNCHANGED <<closed, gen, open, timer, conns, posted>>

\* Conn.Close: the Close event follows.
Drop(p) ==
  /\ pc[p].op = "drop"
  /\ conns' = [conns EXCEPT ![pc[p].gen] = IF @ = "ended" THEN @ ELSE "closing"]
  /\ Goto(p, Idle)
  /\ UNCHANGED <<socketVars, posted>>

\* Dial has returned the socket to the goroutine that closes it.
Close ==
  /\ pc["user"] = Idle
  /\ ~closed
  /\ closed' = TRUE
  /\ conn' = NoConn
  /\ open' = FALSE
  /\ timer' = "none"
  /\ Goto("closer", IF conn = NoConn THEN Idle ELSE At("drop", conn))
  /\ UNCHANGED <<gen, conns, posted>>
-----------------------------------------------------------------------------
(* The transport's events and the timer *)

TransportOpen(g) ==
  /\ conns[g] = "connecting"
  /\ conns' = [conns EXCEPT ![g] = "open"]
  /\ Post("open", g)
  /\ UNCHANGED <<socketVars, pc>>

TransportMessage(g) ==
  /\ conns[g] = "open"
  /\ Len(posted) < MaxPosted
  /\ Post("message", g)
  /\ UNCHANGED <<socketVars, conns, pc>>

\* The connection drops, fails to open, or closes as asked.
TransportClose(g) ==
  /\ \/ conns[g] = "closing"
     \/ conns[g] \in {"connecting", "open"} /\ g < MaxAttempts
  /\ conns' = [conns EXCEPT ![g] = "ended"]
  /\ Post("close", g)
  /\ UNCHANGED <<socketVars, pc>>

\* The wait of backoff is over; its length is any.
TimerFires ==
  /\ timer = "armed"
  /\ timer' = "fired"
  /\ Post("reconnect", NoConn)
  /\ UNCHANGED <<closed, gen, conn, open, conns, pc>>
-----------------------------------------------------------------------------
(* The render loop *)

\* A mutant: Close is not looked at.
LiveEvenClosed(g) == g = gen

Live(g) == ~closed /\ g = gen

\* The loop takes a callback; it stops at once if the callback's event is not live.
Take(event) ==
  /\ pc["loop"] = Idle
  /\ posted # <<>>
  /\ Head(posted).event = event
  /\ posted' = Tail(posted)

Ignored(event) ==
  /\ Take(event)
  /\ ~Live(Head(posted).gen)
  /\ UNCHANGED <<socketVars, conns, pc>>

Opened ==
  /\ Take("open")
  /\ Live(Head(posted).gen)
  /\ open' = TRUE
  /\ Goto("loop", At("OnOpen", Head(posted).gen))
  /\ UNCHANGED <<closed, gen, conn, timer, conns>>

Messaged ==
  /\ Take("message")
  /\ Live(Head(posted).gen)
  /\ Goto("loop", At("OnMessage", Head(posted).gen))
  /\ UNCHANGED <<socketVars, conns>>

\* A mutant: only a connection that was open is made again.
ArmsTimerOnceOpen == Reconnects /\ open

ArmsTimer == Reconnects

\* ended; whatever wait it plans, the timer fires after it.
Ended ==
  /\ Take("close")
  /\ Live(Head(posted).gen)
  /\ conn' = NoConn
  /\ open' = FALSE
  /\ timer' = IF ArmsTimer THEN "armed" ELSE timer
  /\ Goto("loop", At("OnClose", Head(posted).gen))
  /\ UNCHANGED <<closed, gen, conns>>

\* reconnect, up to the call of connect.
Reconnect ==
  /\ Take("reconnect")
  /\ \/ /\ closed
        /\ UNCHANGED <<timer, pc>>
     \/ /\ ~closed
        /\ timer' = "none"
        /\ Goto("loop", At("connect", NoConn))
  /\ UNCHANGED <<closed, gen, conn, open, conns>>

\* The user's OnOpen, OnMessage or OnClose runs.
Callback ==
  /\ pc["loop"].op \in {"OnOpen", "OnMessage", "OnClose"}
  /\ Goto("loop", Idle)
  /\ UNCHANGED <<socketVars, conns, posted>>

Handle ==
  \/ Ignored("open") \/ Ignored("message") \/ Ignored("close")
  \/ Opened \/ Messaged \/ Ended \/ Reconnect \/ Callback

Call(p) == Connect(p) \/ DialTransport(p) \/ KeepConn(p) \/ Drop(p)

Next ==
  \/ \E p \in {"user", "closer", "loop"} : Call(p)
  \/ Close
  \/ \E g \in Attempt : TransportOpen(g) \/ TransportMessage(g) \/ TransportClose(g)
  \/ TimerFires
  \/ Handle
-----------------------------------------------------------------------------
(* Properties *)

Calling(p) == pc[p].op \in {"dial", "dialed", "drop"}

\* Close leaks no connection, even one whose Dial was under way when it ran
\* (socket.go:144-149): when no call is left, every connection is closed or closing.
NoConnectionLeft ==
  closed /\ (\A p \in DOMAIN pc : ~Calling(p)) =>
    \A g \in Attempt : conns[g] \notin {"connecting", "open"}

\* The callbacks a socket starts are those of SocketEvents: per connection one OnOpen at
\* most, then messages, then one OnClose, and none for a closed socket.
EndHandled ==
  /\ gen > 0
  /\ \A p \in DOMAIN pc : ~(pc[p].op = "dial" /\ pc[p].gen = gen)
  /\ conns[gen] \in {"none", "ended"}
  /\ \A k \in DOMAIN posted : posted[k].event = "close" => posted[k].gen # gen
State ==
  IF closed THEN "closed" ELSE IF open THEN "open" ELSE IF EndHandled THEN "over" ELSE "connecting"
CallbackRunning ==
  IF pc["loop"].op \in {"OnOpen", "OnMessage", "OnClose"} THEN pc["loop"].op ELSE "none"
Events == INSTANCE SocketEvents WITH state <- State, running <- CallbackRunning
EventsSpec == Events!Spec

\* A connection that ended or failed to open is made again, unless the socket is closed.
Reconnected ==
  \A g \in 1..(MaxAttempts - 1) : gen = g /\ EndHandled ~> gen > g \/ closed
=============================================================================
