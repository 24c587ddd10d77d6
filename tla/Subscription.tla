---------------------------- MODULE Subscription ----------------------------
(***************************************************************************)
(* A stream of server-sent events opened by Subscribe (net/subscribe.go)   *)
(* on a StreamTransport (the EventSource of net/browser_js.go), beside a   *)
(* Socket: the transport's events of both go through core.Schedule to the  *)
(* one render loop, which calls the callbacks of both, one at a time.      *)
(*                                                                         *)
(* Subscribe returns the subscription when it is done, so only then can    *)
(* anyone close it.                                                        *)
(***************************************************************************)
EXTENDS Socket

CONSTANT
  MaxDrops   \* bound: times the stream drops and connects again

VARIABLES
  subClosed,   \* Subscription.closed
  stream,      \* Subscription.stream is set
  source,      \* the transport's stream
  drops,       \* times it dropped
  subPc,       \* the next step of Subscribe or of Close
  heard        \* history: what the callbacks told the user

subVars == <<subClosed, stream, source, drops, subPc, heard>>

SubInit ==
  /\ subClosed = FALSE /\ stream = FALSE
  /\ source = "none" /\ drops = 0
  /\ subPc = "subscribe"
  /\ heard = "connecting"

Again == 1
GaveUp == 0
-----------------------------------------------------------------------------
(* Subscribe and Close *)

\* A mutant: an error of the transport is not reported.
FailsSilently == UNCHANGED posted

\* failed, on the render loop.
Fails == Post("streamError", GaveUp)

\* StreamTransport.Subscribe opens the stream; without one, or if it fails, that is reported.
SubscribeTransport ==
  /\ subPc = "subscribe"
  /\ \/ /\ source' = "connecting"
        /\ subPc' = "store"
        /\ UNCHANGED posted
     \/ /\ Fails
        /\ subPc' = "idle"
        /\ UNCHANGED source
  /\ UNCHANGED <<subClosed, stream, drops, heard>>

StoreStream ==
  /\ subPc = "store"
  /\ stream' = TRUE
  /\ subPc' = IF subClosed THEN "closeStream" ELSE "idle"
  /\ UNCHANGED <<subClosed, source, drops, heard, posted>>

\* A mutant: the stream is taken for gone once it dropped.
ClosedWhenOpen == stream /\ drops = 0

\* There is a stream to close.
HasStream == stream

CloseSubscription ==
  /\ subPc = "idle" /\ ~subClosed
  /\ subClosed' = TRUE
  /\ stream' = FALSE
  /\ subPc' = IF HasStream THEN "closeStream" ELSE "closed"
  /\ UNCHANGED <<source, drops, heard, posted>>

\* Stream.Close: no event follows.
CloseStream ==
  /\ subPc = "closeStream"
  /\ source' = IF source = "failed" THEN source ELSE "closed"
  /\ subPc' = "closed"
  /\ UNCHANGED <<subClosed, stream, drops, heard, posted>>
-----------------------------------------------------------------------------
(* The transport *)

StreamOpens ==
  /\ source = "connecting"
  /\ source' = "open"
  /\ Post("streamOpen", Again)
  /\ UNCHANGED <<subClosed, stream, drops, subPc, heard>>

StreamEvent ==
  /\ source = "open"
  /\ Len(posted) < MaxPosted
  /\ Post("streamEvent", Again)
  /\ UNCHANGED <<subClosed, stream, source, drops, subPc, heard>>

\* The connection drops and the browser connects again by itself.
StreamDrops ==
  /\ source \in {"connecting", "open"} /\ drops < MaxDrops
  /\ source' = "connecting"
  /\ drops' = drops + 1
  /\ Post("streamError", Again)
  /\ UNCHANGED <<subClosed, stream, subPc, heard>>

\* The browser gives up; the stream releases its listeners.
StreamFails ==
  /\ source \in {"connecting", "open"}
  /\ source' = "failed"
  /\ Post("streamError", GaveUp)
  /\ UNCHANGED <<subClosed, stream, drops, subPc, heard>>
-----------------------------------------------------------------------------
(* The render loop *)

\* A mutant: Close is not looked at.
SubLiveAlways == TRUE

SubLive == ~subClosed

StreamIgnored(event) ==
  /\ Take(event)
  /\ ~SubLive
  /\ UNCHANGED <<subVars, pc>>

\* opened, event and errored.
StreamCalls(event, callback) ==
  /\ Take(event)
  /\ SubLive
  /\ heard' = CASE event = "streamOpen" -> "open"
                [] event = "streamEvent" -> heard
                [] event = "streamError" -> IF Head(posted).gen = Again THEN "connecting" ELSE "failed"
  /\ Goto("loop", At(callback, NoConn))
  /\ UNCHANGED <<subClosed, stream, source, drops, subPc>>

StreamCallbacks == {"OnStreamOpen", "OnStreamEvent", "OnStreamError"}

\* The user's callback runs.
StreamReturns ==
  /\ pc["loop"].op \in StreamCallbacks
  /\ Goto("loop", Idle)
  /\ UNCHANGED <<subVars, posted>>

StreamHandle ==
  \/ \E event \in {"streamOpen", "streamEvent", "streamError"} : StreamIgnored(event)
  \/ StreamCalls("streamOpen", "OnStreamOpen")
  \/ StreamCalls("streamEvent", "OnStreamEvent")
  \/ StreamCalls("streamError", "OnStreamError")
  \/ StreamReturns

SubCall == SubscribeTransport \/ StoreStream \/ CloseStream

StreamStep ==
  \/ SubCall /\ UNCHANGED pc
  \/ CloseSubscription /\ UNCHANGED pc
  \/ (StreamOpens \/ StreamEvent \/ StreamDrops \/ StreamFails) /\ UNCHANGED pc
  \/ StreamHandle

NetworkInit == Init /\ SubInit

NetworkNext ==
  \/ Next /\ UNCHANGED subVars
  \/ StreamStep /\ UNCHANGED <<socketVars, conns>>

networkVars == <<vars, subVars>>

(***************************************************************************)
(* Goroutines run on, the loop runs what is posted, and timers fire.       *)
(* Nothing is assumed of the transport.                                    *)
(***************************************************************************)
Loop == (Handle /\ UNCHANGED subVars) \/ (StreamHandle /\ UNCHANGED <<socketVars, conns>>)

Fairness ==
  /\ \A p \in {"user", "closer", "loop"} : WF_networkVars(Call(p) /\ UNCHANGED subVars)
  /\ WF_networkVars(SubCall /\ UNCHANGED <<pc, socketVars, conns>>)
  /\ WF_networkVars(TimerFires /\ UNCHANGED subVars)
  /\ WF_networkVars(Loop)

NetworkSpec == NetworkInit /\ [][NetworkNext]_networkVars /\ Fairness
-----------------------------------------------------------------------------
(* Properties *)

(* Nothing stays connected after Close: no connection of the socket, even  *)
(* one whose Dial was under way (socket.go:144-149), and no stream, even   *)
(* one that dropped and connects again.                                    *)
NothingStaysConnected ==
  /\ NoConnectionLeft
  /\ subPc = "closed" => source \notin {"connecting", "open"}

(* The callbacks a subscription starts are those of SubscriptionEvents,    *)
(* whatever else the loop runs: OnOpen for each connection, OnEvent only   *)
(* while connected, nothing after a failure or Close.                      *)
SubState == IF subClosed THEN "closed" ELSE heard
SubRunning ==
  CASE pc["loop"].op = "OnStreamOpen" -> "OnOpen"
    [] pc["loop"].op = "OnStreamEvent" -> "OnEvent"
    [] pc["loop"].op = "OnStreamError" -> "OnError"
    [] OTHER -> "none"
StreamEvents == INSTANCE SubscriptionEvents WITH state <- SubState, running <- SubRunning
StreamEventsSpec == StreamEvents!Spec

(* A stream that could not be opened, or that the browser gave up, is      *)
(* reported to OnError, unless the subscription is closed.                 *)
FailureIsTold ==
  (subPc = "idle" /\ source = "none") \/ source = "failed" ~> heard = "failed" \/ subClosed
=============================================================================
