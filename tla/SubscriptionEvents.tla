-------------------------- MODULE SubscriptionEvents --------------------------
(***************************************************************************)
(* What a subscription promises its user (net.SubscribeOptions): OnOpen    *)
(* each time the stream connects, OnEvent while it is connected, OnError   *)
(* when it drops, after which it connects again, or fails, which is the    *)
(* last callback; and after Close no callback is started.                  *)
(***************************************************************************)

VARIABLES
  state,    \* connecting, open, failed, or closed by the user
  running   \* the callback that runs, or "none"

vars == <<state, running>>

Init == state = "connecting" /\ running = "none"

Start(callback, from, to) ==
  /\ running = "none"
  /\ state \in from
  /\ state' = to
  /\ running' = callback

Return ==
  /\ running # "none"
  /\ running' = "none"
  /\ UNCHANGED state

Close ==
  /\ state' = "closed"
  /\ UNCHANGED running

Next ==
  \/ Start("OnOpen", {"connecting"}, "open")
  \/ Start("OnEvent", {"open"}, "open")
  \/ \E to \in {"connecting", "failed"} : Start("OnError", {"connecting", "open"}, to)
  \/ Return
  \/ Close

Spec == Init /\ [][Next]_vars
=============================================================================
