----------------------------- MODULE SocketEvents -----------------------------
(***************************************************************************)
(* What a socket promises its user (net.SocketOptions): a connection opens *)
(* at most once, delivers messages only while it is open, and ends once;   *)
(* only then is there another one; and after Close no callback is started. *)
(***************************************************************************)

VARIABLES
  state,    \* of the connection: connecting, open, over, or closed with the socket
  running   \* the callback that runs, or "none"

vars == <<state, running>>

Init == state = "connecting" /\ running = "none"

Start(callback, from, to) ==
  /\ running = "none"
  /\ state \in from
  /\ state' = to
  /\ running' = callback

Return ==
  /\ running # "none"
  /\ running' = "none"
  /\ UNCHANGED state

Reconnect ==
  /\ running = "none"
  /\ state = "over"
  /\ state' = "connecting"
  /\ UNCHANGED running

Close ==
  /\ state' = "closed"
  /\ UNCHANGED running

Next ==
  \/ Start("OnOpen", {"connecting"}, "open")
  \/ Start("OnMessage", {"open"}, "open")
  \/ Start("OnClose", {"connecting", "open"}, "over")
  \/ Return
  \/ Reconnect
  \/ Close

Spec == Init /\ [][Next]_vars
=============================================================================
