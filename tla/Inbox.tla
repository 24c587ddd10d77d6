-------------------------------- MODULE Inbox --------------------------------
(***************************************************************************)
(* What the scheduler promises goroutines (core.Schedule): every callback  *)
(* handed over runs on the render loop, once, in the order handed over.    *)
(***************************************************************************)
EXTENDS SequencesExt

CONSTANT Task

VARIABLE inbox   \* callbacks handed over that have not run

Init == inbox = <<>>

Post(t) ==
  /\ t \notin ToSet(inbox)
  /\ inbox' = Append(inbox, t)

Run ==
  /\ inbox # <<>>
  /\ inbox' = Tail(inbox)

Next == Run \/ \E t \in Task : Post(t)

Spec == Init /\ [][Next]_inbox /\ WF_inbox(Run)
=============================================================================
